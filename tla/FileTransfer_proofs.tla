------------------------ MODULE FileTransfer_proofs ------------------------
(***************************************************************************)
(* Theorems about FileTransfer, for files of any length, any buffer and    *)
(* any int: types, and the copies of transfers in which nothing is short.  *)
(***************************************************************************)
EXTENDS FileTransfer, SequenceTheorems, TLAPS

-----------------------------------------------------------------------------
(* Numbers and sequences. *)

\* An int stays an int, and a number that fits into one stays itself.
LEMMA WrapIsInt ==
    ASSUME NEW n \in Int, IntMax \in Nat
    PROVE  /\ Wrap(n) \in -(IntMax + 1) .. IntMax
           /\ n \in -(IntMax + 1) .. IntMax => Wrap(n) = n
<1> DEFINE w == 2 * (IntMax + 1)
           m == n + IntMax + 1
<1>1. w \in Nat /\ w > 0 /\ m \in Int
      OBVIOUS
<1>2. m % w \in 0 .. w - 1
      BY <1>1
<1>3. m \in 0 .. w - 1 => m % w = m
      BY <1>1
<1>4. QED  BY <1>2, <1>3 DEF Wrap

\* A function on 1 .. n is a sequence of length n.
LEMMA IntervalIsSeq ==
    ASSUME NEW n \in Nat, NEW S, NEW f \in [1 .. n -> S]
    PROVE  f \in Seq(S) /\ Len(f) = n
OBVIOUS

\* What is left of a file and the buffer bound a full read.
LEMMA FullRead ==
    ASSUME TransferAssumption, NEW f \in Seq(Bytes), NEW p \in Nat, p < Len(f)
    PROVE  /\ Full(f, p) \in 1 .. Chunk
           /\ p + Full(f, p) <= Len(f)
           /\ p + Full(f, p) < Len(f) => Full(f, p) = Chunk
BY DEF Full, Least, TransferAssumption

\* Writing at an offset keeps a file a file.
LEMMA WriteAtIsSeq ==
    ASSUME TransferAssumption,
           NEW f \in Seq(Bytes), NEW o \in Nat, NEW d \in Seq(Bytes)
    PROVE  WriteAt(f, o, d) \in Seq(Bytes)
<1> DEFINE n == Greatest(Len(f), o + Len(d))
<1>1. n \in Nat
      BY DEF Greatest
<1>2. WriteAt(f, o, d) \in [1 .. n -> Bytes]
      BY <1>1 DEF WriteAt, Greatest, TransferAssumption
<1>3. QED  BY <1>1, <1>2, IntervalIsSeq

-----------------------------------------------------------------------------
(* Types. *)

\* Every action keeps the types.
LEMMA TypeStep ==
    ASSUME TransferAssumption, TypeOK, [Next]_vars
    PROVE  TypeOK'
<1> USE TransferAssumption DEF TypeOK
<1>0. <<>> \in Seq(Bytes)
      OBVIOUS
<1>1. CASE MeasureSize
  <2>1. Len(remote) \in Nat
        OBVIOUS
  <2>2. size' \in 0 .. IntMax
        BY <1>1, <2>1 DEF MeasureSize, Least, TransferAssumption
  <2>3. remote' \in Seq(Bytes) /\ local' \in Seq(Bytes)
        BY <1>1 DEF MeasureSize, files
  <2>4. pc' \in {"idle", "open", "read", "saved", "write", "restored", "failed"}
        BY <1>1 DEF MeasureSize
  <2>5. clean' \in BOOLEAN
        BY <1>1 DEF MeasureSize
  <2>6. left' \in -(IntMax + 1) .. IntMax /\ pos' \in Nat /\ off' \in Nat
        BY <1>1 DEF MeasureSize
  <2>7. QED  BY <2>2, <2>3, <2>4, <2>5, <2>6
<1>2. CASE OpenLocal
  <2>1. remote' \in Seq(Bytes) /\ local' \in Seq(Bytes)
        BY <1>0, <1>2 DEF OpenLocal
  <2>2. left' \in -(IntMax + 1) .. IntMax /\ pos' \in Nat
        BY <1>2 DEF OpenLocal, TransferAssumption
  <2>3. /\ pc' \in {"idle", "open", "read", "saved", "write", "restored", "failed"}
        /\ clean' \in BOOLEAN
        BY <1>2 DEF OpenLocal
  <2>4. size' \in 0 .. IntMax /\ off' \in Nat
        BY <1>2 DEF OpenLocal
  <2>5. QED  BY <2>1, <2>2, <2>3, <2>4
<1>3. CASE ReadChunk
  <2>1. PICK n \in 1 .. Full(remote, pos) :
               /\ local' = local \o [i \in 1 .. ToWrite |-> Text[Buffer(n)[i]]]
               /\ pos' = pos + n
               /\ clean' = (clean /\ n = Full(remote, pos))
        BY <1>3 DEF ReadChunk
  <2>2. Full(remote, pos) \in 1 .. Chunk /\ pos + Full(remote, pos) <= Len(remote)
        BY <1>3, FullRead DEF ReadChunk
  <2>3. ToWrite \in 0 .. Chunk
        BY DEF ToWrite, Greatest, Least, TransferAssumption
  <2>4. Buffer(n) \in [1 .. Chunk -> Bytes]
        BY <2>2 DEF Buffer, TransferAssumption
  <2>5. [i \in 1 .. ToWrite |-> Text[Buffer(n)[i]]] \in [1 .. ToWrite -> Bytes]
        BY <2>3, <2>4 DEF TransferAssumption
  <2>6. local' \in Seq(Bytes)
        BY <2>1, <2>3, <2>5, IntervalIsSeq
  <2>7. left' \in -(IntMax + 1) .. IntMax
    <3>1. left - Chunk \in Int
          BY DEF TransferAssumption
    <3>2. QED  BY <3>1, <1>3, WrapIsInt DEF ReadChunk, TransferAssumption
  <2>8. pos' \in Nat
        BY <2>1, <2>2
  <2>9. QED  BY <1>3, <2>1, <2>6, <2>7, <2>8 DEF ReadChunk
<1>4. CASE ReadEnd
      BY <1>4 DEF ReadEnd, files
<1>5. CASE Truncate
  <2>1. remote' \in Seq(Bytes) /\ local' \in Seq(Bytes)
        BY <1>0, <1>5 DEF Truncate
  <2>2. /\ pc' \in {"idle", "open", "read", "saved", "write", "restored", "failed"}
        /\ clean' \in BOOLEAN
        BY <1>5 DEF Truncate
  <2>3. /\ pos' \in Nat /\ off' \in Nat
        /\ size' \in 0 .. IntMax /\ left' \in -(IntMax + 1) .. IntMax
        BY <1>5 DEF Truncate
  <2>4. QED  BY <2>1, <2>2, <2>3
<1>6. CASE WriteChunk
  <2> DEFINE m   == Full(local, pos)
             out == Outgoing(m)
  <2>1. m \in 1 .. Chunk /\ pos + m <= Len(local)
        BY <1>6, FullRead DEF WriteChunk
  <2>2. out \in [1 .. m -> Bytes]
        BY <2>1 DEF Outgoing
  <2>3. out \in Seq(Bytes) /\ Len(out) = m
        BY <2>1, <2>2, IntervalIsSeq
  <2>4. PICK k \in 0 .. Len(out) :
               /\ remote' = WriteAt(remote, off, [i \in 1 .. k |-> out[i]])
               /\ off' = off + k
               /\ clean' = (clean /\ k = Len(out))
        BY <1>6 DEF WriteChunk
  <2>5. [i \in 1 .. k |-> out[i]] \in [1 .. k -> Bytes]
        BY <2>1, <2>2, <2>3
  <2>6. [i \in 1 .. k |-> out[i]] \in Seq(Bytes)
        BY <2>3, <2>5, IntervalIsSeq
  <2>7. remote' \in Seq(Bytes)
        BY <2>4, <2>6, WriteAtIsSeq
  <2>8. QED  BY <1>6, <2>1, <2>3, <2>4, <2>7 DEF WriteChunk
<1>7. CASE WriteEnd
      BY <1>7 DEF WriteEnd, files
<1>8. CASE Dismiss
      BY <1>8 DEF Dismiss, files, TransferAssumption
<1>9. CASE OtherEmpties
      BY <1>0, <1>9 DEF OtherEmpties
<1>10. CASE \E b \in Bytes : OtherWrites(b)
  <2>1. PICK b \in Bytes : OtherWrites(b)
        BY <1>10
  <2>2. Append(remote, b) \in Seq(Bytes)
        BY <2>1
  <2>3. QED  BY <2>1, <2>2 DEF OtherWrites
<1>11. CASE UNCHANGED vars
      BY <1>11 DEF vars, files
<1>12. QED  BY <1>1, <1>2, <1>3, <1>4, <1>5, <1>6, <1>7, <1>8, <1>9, <1>10, <1>11
            DEF Next, Copying

\* The files begin as files.
LEMMA TypeInit ==
    ASSUME TransferAssumption, Init
    PROVE  TypeOK
<1>1. \A f \in Files : f \in Seq(Bytes)
      BY IntervalIsSeq DEF Files, TransferAssumption
<1>2. QED  BY <1>1 DEF Init, TypeOK, TransferAssumption

\* TypeOK, for files of any length: the countdown of the download stays an int
\* however many reads are short.
THEOREM TransferTypeCorrect == Spec => []TypeOK
<1>1. Init => TypeOK
      BY TypeInit, TransferAssumption
<1>2. TypeOK /\ [Next]_vars => TypeOK'
      BY TypeStep, TransferAssumption
<1>3. QED  BY <1>1, <1>2, PTL DEF Spec

-----------------------------------------------------------------------------
(* What the transfers have copied. *)

\* Between measuring and opening nobody has changed the file's length.
Announced == pc = "open" /\ clean => size = Least(Len(remote), IntMax)

\* In the download loop the countdown is what is missing, and the copy is the
\* part that was read, or all that was announced.
Downloading ==
    pc = "read" /\ clean =>
        /\ size = Least(Len(remote), IntMax)
        /\ pos <= Len(remote)
        /\ Len(remote) <= 2 * IntMax + 2 =>
              /\ pos < Len(remote) => left = size - pos
              /\ local = Translated(remote, Least(pos, size))

\* In the upload loop the server has what was read, and nothing else.
Uploading ==
    pc = "write" /\ clean =>
        /\ off = pos
        /\ pos <= Len(local)
        /\ remote = [i \in 1 .. pos |-> local[i]]

CopyInv == Announced /\ Downloading /\ DownloadComplete /\ Uploading /\ UploadComplete

\* Two adjacent pieces of a file, translated, are one.
LEMMA TranslatedPieces ==
    ASSUME TransferAssumption, NEW f \in Seq(Bytes),
           NEW p \in Nat, NEW k \in Nat, p + k <= Len(f)
    PROVE  Translated(f, p) \o [i \in 1 .. k |-> Text[f[p + i]]] = Translated(f, p + k)
<1> DEFINE a == Translated(f, p)
           b == [i \in 1 .. k |-> Text[f[p + i]]]
           c == Translated(f, p + k)
<1>1. a \in Seq(Bytes) /\ Len(a) = p
  <2>1. a \in [1 .. p -> Bytes]
        BY DEF Translated, TransferAssumption
  <2>2. QED  BY <2>1, IntervalIsSeq
<1>2. b \in Seq(Bytes) /\ Len(b) = k
  <2>1. b \in [1 .. k -> Bytes]
        BY DEF TransferAssumption
  <2>2. QED  BY <2>1, IntervalIsSeq
<1>3. c \in Seq(Bytes) /\ Len(c) = p + k
  <2>1. c \in [1 .. p + k -> Bytes]
        BY DEF Translated, TransferAssumption
  <2>2. QED  BY <2>1, IntervalIsSeq
<1>4. a \o b \in Seq(Bytes) /\ Len(a \o b) = p + k
      BY <1>1, <1>2
<1>5. ASSUME NEW i \in 1 .. p + k
      PROVE  (a \o b)[i] = c[i]
  <2>1. CASE i <= p
        BY <2>1, <1>1, <1>2 DEF Translated
  <2>2. CASE i > p
    <3>1. (a \o b)[i] = b[i - p]
          BY <2>2, <1>1, <1>2
    <3>2. i - p \in 1 .. k /\ p + (i - p) = i
          BY <2>2
    <3>3. QED  BY <3>1, <3>2 DEF Translated
  <2>3. i <= p \/ i > p
        OBVIOUS
  <2>4. QED  BY <2>1, <2>2, <2>3
<1>6. a \o b = c
  <2> HIDE DEF a, b, c
  <2>1. QED  BY <1>3, <1>4, <1>5, SeqEqual
<1>7. QED  BY <1>6

\* A full read of a file that did not change brings the copy and the countdown
\* from one position to the next.
LEMMA DownloadStep ==
    ASSUME TransferAssumption, TypeOK, Downloading, ReadChunk, clean'
    PROVE  Downloading'
<1> DEFINE m == Full(remote, pos)
<1>1. /\ pc = "read" /\ clean /\ pos < Len(remote)
      /\ local' = local \o [i \in 1 .. ToWrite |-> Text[Buffer(m)[i]]]
      /\ pos' = pos + m
      /\ left' = Wrap(left - Chunk)
      /\ UNCHANGED <<remote, pc, size>>
      BY DEF ReadChunk
<1>2. /\ m \in 1 .. Chunk /\ pos + m <= Len(remote)
      /\ pos + m < Len(remote) => m = Chunk
      BY <1>1, FullRead DEF TypeOK
<1>3. size = Least(Len(remote), IntMax)
      BY <1>1 DEF Downloading
<1>4. SUFFICES ASSUME Len(remote) <= 2 * IntMax + 2
               PROVE  /\ pos + m < Len(remote) => left' = size - (pos + m)
                      /\ local' = Translated(remote, Least(pos + m, size))
      BY <1>1, <1>2, <1>3 DEF Downloading
<1>5. left = size - pos /\ local = Translated(remote, Least(pos, size))
      BY <1>1, <1>4 DEF Downloading
<1>6. IntMax \in Nat /\ Chunk \in 1 .. IntMax /\ pos \in Nat /\ Len(remote) \in Nat
      /\ size \in 0 .. IntMax
      BY DEF TypeOK, TransferAssumption
<1>7. ASSUME pos + m < Len(remote)
      PROVE  left' = size - (pos + m)
  <2>1. left - Chunk = size - (pos + m)
        BY <1>2, <1>5, <1>6, <1>7
  <2>2. left - Chunk \in -(IntMax + 1) .. IntMax
    <3>1. pos + m <= 2 * IntMax + 1
          BY <1>2, <1>4, <1>6, <1>7
    <3>2. CASE Len(remote) <= IntMax
          BY <2>1, <3>2, <1>2, <1>3, <1>6, <1>7 DEF Least
    <3>3. CASE Len(remote) > IntMax
          BY <2>1, <3>1, <3>3, <1>2, <1>3, <1>6 DEF Least
    <3>4. QED  BY <3>2, <3>3, <1>6
  <2>3. left - Chunk \in Int
        BY <2>2, <1>6
  <2>4. QED  BY <1>1, <2>1, <2>2, <2>3, <1>6, WrapIsInt
<1>8. local' = Translated(remote, Least(pos + m, size))
  <2>1. CASE pos < size
    <3>1. ToWrite \in 0 .. m /\ Least(pos, size) = pos /\ Least(pos + m, size) = pos + ToWrite
          BY <2>1, <1>2, <1>3, <1>5, <1>6 DEF ToWrite, Least, Greatest, Full
    <3>2. [i \in 1 .. ToWrite |-> Text[Buffer(m)[i]]]
            = [i \in 1 .. ToWrite |-> Text[remote[pos + i]]]
          BY <3>1, <1>2, <1>6 DEF Buffer
    <3>3. pos + ToWrite <= Len(remote) /\ ToWrite \in Nat
          BY <3>1, <1>2, <1>6
    <3>4. Translated(remote, pos) \o [i \in 1 .. ToWrite |-> Text[remote[pos + i]]]
            = Translated(remote, pos + ToWrite)
          BY <3>3, <1>6, TranslatedPieces DEF TypeOK
    <3>5. QED  BY <3>1, <3>2, <3>4, <1>1, <1>5
  <2>2. CASE pos >= size
    <3>1. ToWrite = 0 /\ Least(pos, size) = size /\ Least(pos + m, size) = size
          BY <2>2, <1>2, <1>5, <1>6 DEF ToWrite, Least, Greatest
    <3>2. [i \in 1 .. ToWrite |-> Text[Buffer(m)[i]]] = <<>>
          BY <3>1
    <3>3. QED  BY <3>1, <3>2, <1>1, <1>5 DEF TypeOK
  <2>3. QED  BY <2>1, <2>2, <1>6
<1>9. QED  BY <1>7, <1>8

\* A write that takes all it is given appends it.
LEMMA UploadStep ==
    ASSUME TransferAssumption, TypeOK, Uploading, WriteChunk, clean'
    PROVE  Uploading'
<1> DEFINE m   == Full(local, pos)
           out == Outgoing(m)
<1>1. /\ pc = "write" /\ clean /\ pos < Len(local) /\ pos' = pos + m
      /\ UNCHANGED <<local, pc>>
      BY DEF WriteChunk
<1>2. m \in Nat /\ pos + m <= Len(local)
      BY <1>1, FullRead DEF TypeOK, TransferAssumption
<1>3. out \in [1 .. m -> Bytes]
      BY <1>2 DEF Outgoing, TypeOK
<1>4. out \in Seq(Bytes) /\ Len(out) = m
      BY <1>2, <1>3, IntervalIsSeq
<1>5. /\ remote' = WriteAt(remote, off, [i \in 1 .. m |-> out[i]])
      /\ off' = off + m
      BY <1>4 DEF WriteChunk
<1>6. [i \in 1 .. m |-> out[i]] = out
      BY <1>3
<1>7. off = pos /\ pos \in Nat /\ remote = [i \in 1 .. pos |-> local[i]]
      BY <1>1 DEF Uploading, TypeOK
<1>8. Len(remote) = pos
      BY <1>7
<1>9. WriteAt(remote, pos, out) = [i \in 1 .. pos + m |-> local[i]]
  <2>1. Greatest(Len(remote), pos + Len(out)) = pos + m
        BY <1>2, <1>4, <1>7, <1>8 DEF Greatest
  <2>2. ASSUME NEW i \in 1 .. pos + m
        PROVE  (IF i > pos /\ i <= pos + Len(out) THEN out[i - pos]
                ELSE IF i <= Len(remote) THEN remote[i] ELSE NUL) = local[i]
    <3>1. CASE i > pos
          BY <3>1, <1>2, <1>4, <1>7 DEF Outgoing
    <3>2. CASE i <= pos
          BY <3>2, <1>2, <1>7, <1>8
    <3>3. QED  BY <3>1, <3>2, <1>2, <1>7
  <2>3. QED  BY <2>1, <2>2 DEF WriteAt
<1>10. QED  BY <1>1, <1>2, <1>5, <1>6, <1>7, <1>9 DEF Uploading

\* Every action keeps what the transfers have copied.  Only clean steps count,
\* so the steps of others need no argument.
LEMMA CopyStep ==
    ASSUME TransferAssumption, TypeOK, CopyInv, [Next]_vars
    PROVE  CopyInv'
<1> SUFFICES ASSUME clean'
             PROVE  CopyInv'
    BY DEF CopyInv, Announced, Downloading, DownloadComplete, Uploading, UploadComplete
<1> USE DEF CopyInv
<1>1. CASE MeasureSize
      BY <1>1 DEF MeasureSize, files, Announced, Downloading, DownloadComplete,
                  Uploading, UploadComplete
<1>2. CASE OpenLocal
  <2>1. /\ pc = "open" /\ clean /\ pc' = "read" /\ pos' = 0
        /\ left' = size /\ local' = <<>> /\ UNCHANGED <<remote, size>>
        BY <1>2 DEF OpenLocal
  <2>2. size = Least(Len(remote), IntMax)
        BY <2>1 DEF Announced
  <2>3. size \in Nat /\ Len(remote) \in Nat
        BY DEF TypeOK, TransferAssumption
  <2>4. Least(0, size) = 0 /\ Translated(remote, 0) = <<>>
        BY <2>3 DEF Least, Translated
  <2>5. Downloading'
        BY <2>1, <2>2, <2>3, <2>4 DEF Downloading
  <2>6. QED  BY <2>1, <2>5 DEF Announced, DownloadComplete, Uploading, UploadComplete
<1>3. CASE ReadChunk
  <2>1. Downloading'
        BY <1>3, DownloadStep
  <2>2. pc' = "read"
        BY <1>3 DEF ReadChunk
  <2>3. QED  BY <2>1, <2>2 DEF Announced, DownloadComplete, Uploading, UploadComplete
<1>4. CASE ReadEnd
  <2>1. /\ pc = "read" /\ clean /\ pos >= Len(remote) /\ pc' = "saved"
        /\ UNCHANGED <<remote, local>>
        BY <1>4 DEF ReadEnd, files
  <2>2. size = Least(Len(remote), IntMax) /\ pos = Len(remote)
        BY <2>1 DEF Downloading, TypeOK
  <2>3. Len(remote) \in Nat /\ IntMax \in Nat
        BY DEF TypeOK, TransferAssumption
  <2>4. Least(pos, size) = Least(Len(remote), IntMax)
        BY <2>2, <2>3 DEF Least
  <2>5. DownloadComplete'
        BY <2>1, <2>4 DEF Downloading, DownloadComplete
  <2>6. QED  BY <2>1, <2>5 DEF Announced, Downloading, Uploading, UploadComplete
<1>5. CASE Truncate
  <2>1. /\ pc' = "write" /\ remote' = <<>> /\ pos' = 0 /\ off' = 0
        /\ UNCHANGED local
        BY <1>5 DEF Truncate
  <2>2. Uploading'
        BY <2>1 DEF Uploading, TypeOK
  <2>3. QED  BY <2>1, <2>2 DEF Announced, Downloading, DownloadComplete, UploadComplete
<1>6. CASE WriteChunk
  <2>1. Uploading'
        BY <1>6, UploadStep
  <2>2. pc' = "write"
        BY <1>6 DEF WriteChunk
  <2>3. QED  BY <2>1, <2>2 DEF Announced, Downloading, DownloadComplete, UploadComplete
<1>7. CASE WriteEnd
  <2>1. /\ pc = "write" /\ clean /\ pos >= Len(local) /\ pc' = "restored"
        /\ UNCHANGED <<remote, local>>
        BY <1>7 DEF WriteEnd, files
  <2>2. pos = Len(local) /\ remote = [i \in 1 .. Len(local) |-> local[i]]
        BY <2>1 DEF Uploading, TypeOK
  <2>3. remote = local
        BY SMTT(30), <2>2 DEF TypeOK
  <2>4. QED  BY <2>1, <2>3 DEF Announced, Downloading, DownloadComplete, Uploading, UploadComplete
<1>8. CASE Dismiss
      BY <1>8 DEF Dismiss, Announced, Downloading, DownloadComplete, Uploading, UploadComplete
<1>9. CASE OtherEmpties
      BY <1>9 DEF OtherEmpties
<1>10. CASE \E b \in Bytes : OtherWrites(b)
      BY <1>10 DEF OtherWrites
<1>11. CASE UNCHANGED vars
      BY <1>11 DEF vars, files, Announced, Downloading, DownloadComplete, Uploading, UploadComplete
<1>12. QED  BY <1>1, <1>2, <1>3, <1>4, <1>5, <1>6, <1>7, <1>8, <1>9, <1>10, <1>11
            DEF Next, Copying

\* Types and copies together are inductive.
LEMMA CopyAlways == Spec => []CopyInv
<1>1. Init => TypeOK /\ CopyInv
      BY TypeInit, TransferAssumption
         DEF Init, CopyInv, Announced, Downloading, DownloadComplete, Uploading, UploadComplete
<1>2. TypeOK /\ CopyInv /\ [Next]_vars => TypeOK' /\ CopyInv'
      BY TypeStep, CopyStep, TransferAssumption
<1>3. QED  BY <1>1, <1>2, PTL DEF Spec

\* DownloadComplete: a download without short reads and foreign writes saves
\* the server's file, cut at the largest int, whatever the file, the buffer
\* and the int.
THEOREM DownloadsAreComplete == Spec => []DownloadComplete
<1>1. CopyInv => DownloadComplete
      BY DEF CopyInv
<1>2. QED  BY <1>1, CopyAlways, PTL

\* UploadComplete: an upload without short writes and foreign writes puts the
\* local file on the server.
THEOREM UploadsAreComplete == Spec => []UploadComplete
<1>1. CopyInv => UploadComplete
      BY DEF CopyInv
<1>2. QED  BY <1>1, CopyAlways, PTL

-----------------------------------------------------------------------------
(* The loops. *)

\* The upload never reads past the end of its file.
LoopInv == TypeOK /\ (pc = "write" => pos <= Len(local))

\* A file on the server as long as it may become.
Bound == Greatest(MaxLen, Len(remote))

\* Neither loop, nor anybody else, takes the position past the end.
LEMMA LoopInvStep ==
    ASSUME TransferAssumption, LoopInv, [Next]_vars
    PROVE  LoopInv'
<1>1. TypeOK'
      BY TypeStep DEF LoopInv
<1>2. CASE WriteChunk
  <2>1. pos < Len(local) /\ pos' = pos + Full(local, pos) /\ local' = local
        BY <1>2 DEF WriteChunk
  <2>2. pos' <= Len(local)
        BY <2>1, FullRead DEF LoopInv, TypeOK
  <2>3. QED  BY <1>1, <2>1, <2>2 DEF LoopInv
<1>3. CASE Truncate
  <2>1. pc' = "write" => pos' = 0
        BY <1>3 DEF Truncate
  <2>2. QED  BY <1>1, <2>1 DEF LoopInv, TypeOK
<1>4. CASE MeasureSize \/ OpenLocal \/ ReadChunk \/ ReadEnd \/ WriteEnd \/ Dismiss
      BY <1>1, <1>4
         DEF MeasureSize, OpenLocal, ReadChunk, ReadEnd, WriteEnd, Dismiss, LoopInv
<1>5. CASE OtherEmpties \/ (\E b \in Bytes : OtherWrites(b)) \/ UNCHANGED vars
      BY <1>1, <1>5 DEF OtherEmpties, OtherWrites, vars, files, LoopInv
<1>6. QED  BY <1>2, <1>3, <1>4, <1>5 DEF Next, Copying

\* What others do to the file does not let it outgrow the bound.
LEMMA OthersKeepBound ==
    ASSUME TransferAssumption, TypeOK, OtherEmpties \/ \E b \in Bytes : OtherWrites(b)
    PROVE  \E b \in Nat : Bound' = b /\ b <= Bound
<1>1. Len(remote) \in Nat
      BY DEF TypeOK
<1>2. CASE OtherEmpties
  <2>1. Len(remote') = 0
        BY <1>2 DEF OtherEmpties
  <2>2. QED  BY <1>1, <2>1 DEF Bound, Greatest, TransferAssumption
<1>3. CASE \E b \in Bytes : OtherWrites(b)
  <2>1. Len(remote) < MaxLen /\ Len(remote') = Len(remote) + 1
        BY <1>3 DEF OtherWrites, TypeOK
  <2>2. QED  BY <1>1, <2>1 DEF Bound, Greatest, TransferAssumption
<1>4. QED  BY <1>2, <1>3

\* The number of calls left, for the three places a loop can be at, and elsewhere.
LEMMA CallsLeftIs ==
    /\ pc = "open"  => CallsLeft = 2 + Bound
    /\ pc = "read"  => CallsLeft = 1 + Greatest(0, Bound - pos)
    /\ pc = "write" => CallsLeft = 1 + Len(local) - pos
    /\ ~Running     => CallsLeft = 0
  BY DEF CallsLeft, Bound, Running

\* A call of a running loop leaves fewer of them; a step of others adds none.
LEMMA LoopStep ==
    ASSUME TransferAssumption, LoopInv, [Next]_vars, vars' # vars, Running
    PROVE  /\ CallsLeft' <= CallsLeft
           /\ <<pc', pos'>> # <<pc, pos>> => CallsLeft' < CallsLeft
<1>a. /\ pos \in Nat /\ Len(remote) \in Nat /\ Len(local) \in Nat /\ MaxLen \in Nat
      /\ pc = "write" => pos <= Len(local)
      /\ TypeOK
      BY DEF LoopInv, TypeOK, TransferAssumption
<1>b. Bound \in Nat /\ Len(remote) <= Bound
      BY <1>a DEF Bound, Greatest
<1>c. /\ pc = "open"  => CallsLeft = 2 + Bound
      /\ pc = "read"  => CallsLeft = 1 + Greatest(0, Bound - pos)
      /\ pc = "write" => CallsLeft = 1 + Len(local) - pos
      BY CallsLeftIs
<1>d. /\ pc' = "open"  => CallsLeft' = 2 + Bound'
      /\ pc' = "read"  => CallsLeft' = 1 + Greatest(0, Bound' - pos')
      /\ pc' = "write" => CallsLeft' = 1 + Len(local') - pos'
      /\ pc' \in {"saved", "restored", "failed"} => CallsLeft' = 0
      BY DEF CallsLeft, Bound
<1>e. CallsLeft \in Nat /\ CallsLeft > 0
      BY <1>a, <1>b, <1>c DEF Running, Greatest
<1>1. CASE OpenLocal
  <2>1. /\ pc = "open" /\ remote' = remote
        /\ \/ pc' = "read" /\ pos' = 0
           \/ pc' = "failed"
        BY <1>1 DEF OpenLocal
  <2>2. Bound' = Bound
        BY <2>1 DEF Bound
  <2>3. QED  BY <1>b, <1>c, <1>d, <1>e, <2>1, <2>2 DEF Greatest
<1>2. CASE ReadChunk
  <2>1. PICK n \in 1 .. Full(remote, pos) : pos' = pos + n
        BY <1>2 DEF ReadChunk
  <2>2. /\ pc = "read" /\ pc' = "read" /\ remote' = remote /\ pos < Len(remote)
        /\ Full(remote, pos) \in Int
        BY <1>2, <1>a, FullRead DEF ReadChunk, TypeOK
  <2>3. Bound' = Bound
        BY <2>2 DEF Bound
  <2>4. n \in Nat /\ n > 0
        BY <2>1, <2>2
  <2>5. QED  BY <1>a, <1>b, <1>c, <1>d, <2>1, <2>2, <2>3, <2>4 DEF Greatest
<1>3. CASE ReadEnd \/ WriteEnd
  <2>1. pc' \in {"saved", "restored"}
        BY <1>3 DEF ReadEnd, WriteEnd
  <2>2. QED  BY <1>d, <1>e, <2>1
<1>4. CASE WriteChunk
  <2>1. /\ pc = "write" /\ pc' = "write" /\ local' = local
        /\ pos < Len(local) /\ pos' = pos + Full(local, pos)
        BY <1>4 DEF WriteChunk
  <2>2. Full(local, pos) \in Nat /\ Full(local, pos) > 0
        BY <1>a, <2>1, FullRead DEF TypeOK, TransferAssumption
  <2>3. QED  BY <1>a, <1>c, <1>d, <2>1, <2>2
<1>5. CASE OtherEmpties \/ \E b \in Bytes : OtherWrites(b)
  <2>1. pc' = pc /\ pos' = pos /\ local' = local /\ <<pc', pos'>> = <<pc, pos>>
        BY <1>5 DEF OtherEmpties, OtherWrites
  <2>2. PICK b \in Nat : Bound' = b /\ b <= Bound
        BY <1>5, <1>a, OthersKeepBound
  <2>3. CASE pc = "open"
    <3>1. CallsLeft' = 2 + b /\ CallsLeft = 2 + Bound
          BY <1>c, <1>d, <2>1, <2>2, <2>3
    <3>2. CallsLeft' <= CallsLeft
          BY <1>b, <2>2, <3>1
    <3>3. QED  BY <2>1, <3>2
  <2>4. CASE pc = "read"
    <3>1. CallsLeft' = 1 + Greatest(0, b - pos) /\ CallsLeft = 1 + Greatest(0, Bound - pos)
          BY <1>c, <1>d, <2>1, <2>2, <2>4
    <3>2. 1 + Greatest(0, b - pos) <= 1 + Greatest(0, Bound - pos)
          BY <1>a, <1>b, <2>2 DEF Greatest
    <3>3. QED  BY <2>1, <3>1, <3>2
  <2>5. CASE pc = "write"
    <3>1. CallsLeft' = CallsLeft
          BY <1>c, <1>d, <2>1, <2>5
    <3>2. QED  BY <1>e, <2>1, <3>1
  <2>6. QED  BY <2>3, <2>4, <2>5 DEF Running
<1>6. CASE MeasureSize \/ Truncate \/ Dismiss
      BY <1>6 DEF MeasureSize, Truncate, Dismiss, Running
<1>7. QED  BY <1>1, <1>2, <1>3, <1>4, <1>5, <1>6 DEF Next, Copying

\* Each call of DownloadFileFromServer2Local and UploadFileFromLocal2Server, one
\* that delivers or takes only part of what it could included, leaves fewer to
\* come, and what other clients do to the file meanwhile adds none.
THEOREM CallsRunOut == Spec => LoopsAdvance
<1> DEFINE Step == Running =>
                      /\ CallsLeft' <= CallsLeft
                      /\ <<pc', pos'>> # <<pc, pos>> => CallsLeft' < CallsLeft
<1>1. Init => LoopInv
      BY TypeInit, TransferAssumption DEF LoopInv, Init
<1>2. LoopInv /\ [Next]_vars => LoopInv'
      BY LoopInvStep, TransferAssumption
<1>3. LoopInv /\ [Next]_vars => [Step]_vars
      BY LoopStep, TransferAssumption
<1>4. QED  BY <1>1, <1>2, <1>3, PTL DEF Spec, LoopsAdvance
=============================================================================
