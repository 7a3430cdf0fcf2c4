------------------------ MODULE BackupRestore_proofs ------------------------
(***************************************************************************)
(* Theorems about BackupRestore, for any number of clients and tables: the *)
(* types, that every handler advances, and what the undisturbed backups    *)
(* and restores do among all the others.                                   *)
(***************************************************************************)
EXTENDS BackupRestore, SequenceTheorems, TLAPS

-----------------------------------------------------------------------------
(* Files. *)

\* A function on 1 .. n is a sequence of length n.
LEMMA IntervalIsSeq ==
    ASSUME NEW n \in Nat, NEW S, NEW f \in [1 .. n -> S]
    PROVE  f \in Seq(S) /\ Len(f) = n
OBVIOUS

\* The empty file.
LEMMA EmptyFile == <<>> \in Files /\ Len(<<>>) = 0 /\ <<>> # NULL
<1>1. <<>> \in Seq(Block \cup {HOLE})
  OBVIOUS
<1>2. NULL \notin Seq(Block \cup {HOLE})
  BY BackupAssumption
<1>3. <<>> # NULL
  BY <1>1, <1>2, Zenon
<1> QED BY <1>1, <1>3, BackupAssumption DEF Files

\* A file holds blocks and is no longer than a dump.
LEMMA FileBlocks ==
    ASSUME NEW f \in Files
    PROVE  /\ f \in Seq(Block \cup {HOLE}) /\ Len(f) \in 0 .. Tables /\ f # NULL
           /\ \A i \in 1 .. Len(f) : f[i] \in Block \cup {HOLE}
<1>1. f \in Seq(Block \cup {HOLE}) /\ Len(f) <= Tables
  BY DEF Files
<1>2. \A i \in 1 .. Len(f) : f[i] \in Block \cup {HOLE}
  BY <1>1, ElementOfSeq
<1> QED BY <1>1, <1>2, BackupAssumption

\* A dump is a file with one block for each table.
LEMMA DumpFile ==
    ASSUME NEW s \in States
    PROVE  /\ DumpOf(s) \in Files /\ Len(DumpOf(s)) = Tables
           /\ \A t \in Table : /\ DumpOf(s)[t] \in Block
                               /\ DumpOf(s)[t].table = t /\ DumpOf(s)[t].content = s[t]
<1>1. \A t \in Table : /\ DumpOf(s)[t] \in Block
                       /\ DumpOf(s)[t].table = t /\ DumpOf(s)[t].content = s[t]
  BY DEF DumpOf, Block, States
<1>2. DumpOf(s) \in [1 .. Tables -> Block \cup {HOLE}]
  BY <1>1 DEF DumpOf, Table
<1>3. Tables \in Nat
  BY BackupAssumption
<1>4. DumpOf(s) \in Seq(Block \cup {HOLE}) /\ Len(DumpOf(s)) = Tables
  BY <1>2, <1>3, IntervalIsSeq
<1> QED BY <1>1, <1>3, <1>4 DEF Files

\* Writing at a position keeps a file a file; at the end it appends.
LEMMA WriteAtFile ==
    ASSUME NEW f \in Files, NEW o \in Nat, o < Tables, NEW b \in Block \cup {HOLE}
    PROVE  /\ WriteAt(f, o, b) \in Files
           /\ Len(f) = o => /\ Len(WriteAt(f, o, b)) = o + 1
                            /\ WriteAt(f, o, b)[o + 1] = b
                            /\ \A i \in 1 .. o : WriteAt(f, o, b)[i] = f[i]
<1> DEFINE n == IF o < Len(f) THEN Len(f) ELSE o + 1
<1>1. n \in 0 .. Tables /\ n \in Nat
  BY FileBlocks, BackupAssumption
<1>2. WriteAt(f, o, b) \in [1 .. n -> Block \cup {HOLE}]
  BY <1>1, FileBlocks DEF WriteAt
<1>3. WriteAt(f, o, b) \in Seq(Block \cup {HOLE}) /\ Len(WriteAt(f, o, b)) = n
  <2> HIDE DEF n
  <2> QED BY <1>1, <1>2, IntervalIsSeq
<1>4. ASSUME Len(f) = o
      PROVE  /\ Len(WriteAt(f, o, b)) = o + 1
             /\ WriteAt(f, o, b)[o + 1] = b
             /\ \A i \in 1 .. o : WriteAt(f, o, b)[i] = f[i]
  BY <1>3, <1>4, FileBlocks DEF WriteAt
<1> QED BY <1>1, <1>3, <1>4 DEF Files

\* Appending to a file with room for one more block.
LEMMA AppendFile ==
    ASSUME NEW f \in Files, Len(f) < Tables, NEW b \in Block \cup {HOLE}
    PROVE  /\ Append(f, b) \in Files
           /\ Len(Append(f, b)) = Len(f) + 1
           /\ Append(f, b)[Len(f) + 1] = b
           /\ \A i \in 1 .. Len(f) : Append(f, b)[i] = f[i]
<1>1. f \in Seq(Block \cup {HOLE}) /\ Len(f) \in Nat
  BY FileBlocks
<1>2. /\ Append(f, b) \in Seq(Block \cup {HOLE})
      /\ Len(Append(f, b)) = Len(f) + 1
      /\ Append(f, b)[Len(f) + 1] = b
      /\ \A i \in 1 .. Len(f) : Append(f, b)[i] = f[i]
  BY <1>1, AppendProperties
<1> QED BY <1>1, <1>2, BackupAssumption DEF Files

-----------------------------------------------------------------------------
(* Types. *)

\* What the counters and files of a client have to do with each other.
Ready(c) ==
    /\ pc[c] \in {"dump", "measure", "open", "download"} => snap[c] \in States
    /\ pc[c] \in {"create", "upload", "download"} => local[c] # NULL
    /\ pc[c] = "download" => Len(local[c]) <= done[c]
    /\ pc[c] = "upload" => off[c] <= done[c] /\ done[c] <= Len(local[c])

TypeInv == TypeOK /\ \A c \in Clients : Ready(c)

\* The values of one client.
LEMMA ClientTyped ==
    ASSUME TypeInv, NEW c \in Clients
    PROVE  /\ size[c] \in 0 .. Tables /\ done[c] \in 0 .. Tables /\ off[c] \in 0 .. Tables
           /\ remote \in Files /\ local[c] \in Files \cup {NULL}
           /\ pc[c] \in {"create", "upload", "download"} => local[c] \in Files
           /\ pc[c] = "download" => Len(local[c]) <= size[c]
           /\ Ready(c) /\ Tables \in Nat /\ Tables > 0
BY BackupAssumption DEF TypeInv, TypeOK, Ready

\* The types hold from the start.
LEMMA InitTyped == Init => TypeInv
<1> SUFFICES ASSUME Init PROVE TypeInv
  OBVIOUS
<1>1. db \in States
  BY BackupAssumption DEF Init, States
<1>2. pc \in [Clients -> Busy \cup Messages \cup {"ready", "crashed"}]
  BY DEF Init
<1>3. /\ size \in [Clients -> 0 .. Tables]
      /\ done \in [Clients -> 0 .. Tables]
      /\ off \in [Clients -> 0 .. Tables]
  BY BackupAssumption DEF Init
<1>4. /\ local \in [Clients -> Files \cup {NULL}]
      /\ snap \in [Clients -> States \cup {NULL}]
      /\ clean \in [Clients -> BOOLEAN]
  BY DEF Init
<1>5. \A c \in Clients : pc[c] = "ready"
  BY DEF Init
<1>6. remote \in Files
  BY EmptyFile DEF Init
<1>7. TypeOK
  BY <1>1, <1>2, <1>3, <1>4, <1>5, <1>6 DEF TypeOK
<1> QED BY <1>5, <1>7 DEF TypeInv, Ready

\* What a step of c leaves alone, and what it may do to the undisturbed handlers of
\* the others.
Gentle(c) ==
    \A d \in Clients \ {c} :
        /\ pc'[d] = pc[d] /\ local'[d] = local[d] /\ size'[d] = size[d] /\ done'[d] = done[d]
        /\ off'[d] = off[d] /\ snap'[d] = snap[d]
        /\ clean'[d] => /\ clean[d]
                        /\ remote' = remote \/ ~UsesFile(d)
                        /\ db' = db \/ pc[d] \notin {"run", "restored"}

\* Every step of a client keeps the types and is gentle to the others.
LEMMA StepTyped ==
    ASSUME TypeInv, NEW c \in Clients,
           Handler(c) \/ ClickBackup(c) \/ ClickRestore(c) \/ Return(c)
    PROVE  TypeInv' /\ Gentle(c)
<1>a. TypeOK
  BY DEF TypeInv
<1>b. /\ size[c] \in 0 .. Tables /\ done[c] \in 0 .. Tables /\ off[c] \in 0 .. Tables
      /\ remote \in Files /\ local[c] \in Files \cup {NULL}
      /\ pc[c] \in {"create", "upload", "download"} => local[c] \in Files
      /\ pc[c] = "download" => Len(local[c]) <= size[c]
      /\ Tables \in Nat /\ Tables > 0 /\ Len(remote) \in 0 .. Tables
  BY ClientTyped, FileBlocks
<1>c. Ready(c)
  BY ClientTyped
<1>d. /\ \A d \in Clients : Ready(d)
      /\ \A d \in Clients \ {c} : pc[d] = "download" => Len(local[d]) <= size[d]
  BY DEF TypeInv, TypeOK
\* It is enough to look at the client that takes the step.
<1>e. ASSUME db' \in States, remote' \in Files,
             pc' \in [Clients -> Busy \cup Messages \cup {"ready", "crashed"}],
             local' \in [Clients -> Files \cup {NULL}],
             size' \in [Clients -> 0 .. Tables], done' \in [Clients -> 0 .. Tables],
             off' \in [Clients -> 0 .. Tables], snap' \in [Clients -> States \cup {NULL}],
             clean' \in [Clients -> BOOLEAN],
             pc'[c] = "download" => Len(local'[c]) <= size'[c],
             Ready(c)', Gentle(c)
      PROVE  TypeInv' /\ Gentle(c)
  <2>1. \A d \in Clients : Ready(d)'
    BY <1>d, <1>e DEF Ready, Gentle
  <2>2. TypeOK'
    BY <1>d, <1>e DEF TypeOK, Gentle
  <2> QED BY <1>e, <2>1, <2>2 DEF TypeInv
<1> USE DEF Goto, NoCounters, Alone, WritesFile, WritesDb, counters, Busy, Backing, Restoring, Messages
<1>f. ASSUME Fail(c) PROVE TypeInv' /\ Gentle(c)
  <2>1. Ready(c)' /\ pc'[c] # "download"
    BY <1>a, <1>f DEF Fail, TypeOK, Ready
  <2>2. Gentle(c)
    BY <1>a, <1>f DEF Fail, TypeOK, Gentle
  <2>3. /\ pc' \in [Clients -> Busy \cup Messages \cup {"ready", "crashed"}]
        /\ clean' \in [Clients -> BOOLEAN]
    BY <1>a, <1>f DEF Fail, TypeOK
  <2>4. /\ size' \in [Clients -> 0 .. Tables] /\ done' \in [Clients -> 0 .. Tables]
        /\ off' \in [Clients -> 0 .. Tables]
    BY <1>a, <1>b, <1>f DEF Fail, TypeOK
  <2>5. /\ db' \in States /\ remote' \in Files /\ local' \in [Clients -> Files \cup {NULL}]
        /\ snap' \in [Clients -> States \cup {NULL}]
    BY <1>a, <1>f DEF Fail, TypeOK
  <2> QED BY <1>e, <2>1, <2>2, <2>3, <2>4, <2>5
<1>1. CASE StartDump(c)
  <2>1. CASE Fail(c)
    BY <2>1, <1>f
  <2>2. CASE ~Fail(c)
    <3>0. /\ off' = [off EXCEPT ![c] = 0] /\ snap' = [snap EXCEPT ![c] = db]
          /\ pc' = [pc EXCEPT ![c] = "dump"]
          /\ UNCHANGED <<db, local, size, done>>
      BY <1>1, <2>2 DEF StartDump
    <3>1. Ready(c)' /\ (pc'[c] = "download" => Len(local'[c]) <= size'[c])
      BY <3>0, <1>a, <1>b, <1>c, EmptyFile DEF TypeOK, Ready
    <3>2. Gentle(c)
      BY <1>1, <2>2, <1>a DEF StartDump, TypeOK, Gentle
    <3>3. pc' \in [Clients -> Busy \cup Messages \cup {"ready", "crashed"}]
      BY <1>1, <2>2, <1>a DEF StartDump, TypeOK
    <3>4. clean' \in [Clients -> BOOLEAN]
      BY <1>1, <2>2, <1>a DEF StartDump, TypeOK
    <3>5. /\ size' \in [Clients -> 0 .. Tables] /\ done' \in [Clients -> 0 .. Tables]
          /\ off' \in [Clients -> 0 .. Tables]
      BY <3>0, <1>a, <1>b, EmptyFile DEF TypeOK
    <3>6. db' \in States /\ remote' \in Files
      BY <1>1, <2>2, <1>a, <1>b, EmptyFile DEF StartDump, TypeOK
    <3>7. /\ local' \in [Clients -> Files \cup {NULL}]
          /\ snap' \in [Clients -> States \cup {NULL}]
      BY <3>0, <1>a, <1>b, EmptyFile DEF TypeOK
    <3> QED BY <1>e, <3>1, <3>2, <3>3, <3>4, <3>5, <3>6, <3>7
  <2> QED BY <2>1, <2>2
<1>2. CASE DumpBlock(c)
  <2>0. WriteAt(remote, off[c], DumpOf(snap[c])[off[c] + 1]) \in Files
    <3>1. snap[c] \in States /\ off[c] + 1 \in Table
      BY <1>2, <1>b, <1>c DEF DumpBlock, Ready, Table
    <3>2. DumpOf(snap[c])[off[c] + 1] \in Block
      BY <3>1, DumpFile
    <3> QED BY <1>2, <1>b, <3>2, WriteAtFile DEF DumpBlock
  <2>1. Ready(c)' /\ (pc'[c] = "download" => Len(local'[c]) <= size'[c])
    BY <1>2, <1>a, <1>b, <1>c, <2>0 DEF DumpBlock, TypeOK, Ready
  <2>2. Gentle(c)
    BY <1>2, <1>a DEF DumpBlock, TypeOK, Gentle
  <2>3. pc' \in [Clients -> Busy \cup Messages \cup {"ready", "crashed"}]
    BY <1>2, <1>a DEF DumpBlock, TypeOK
  <2>4. clean' \in [Clients -> BOOLEAN]
    BY <1>2, <1>a DEF DumpBlock, TypeOK
  <2>5. /\ size' \in [Clients -> 0 .. Tables] /\ done' \in [Clients -> 0 .. Tables]
        /\ off' \in [Clients -> 0 .. Tables]
    BY <1>2, <1>a, <1>b, <2>0 DEF DumpBlock, TypeOK
  <2>6. db' \in States /\ remote' \in Files
    BY <1>2, <1>a, <1>b, <2>0 DEF DumpBlock, TypeOK
  <2>7. /\ local' \in [Clients -> Files \cup {NULL}]
        /\ snap' \in [Clients -> States \cup {NULL}]
    BY <1>2, <1>a, <1>b, <2>0 DEF DumpBlock, TypeOK
  <2> QED BY <1>e, <2>1, <2>2, <2>3, <2>4, <2>5, <2>6, <2>7
<1>3. CASE DumpEnd(c)
  <2>1. Ready(c)' /\ (pc'[c] = "download" => Len(local'[c]) <= size'[c])
    BY <1>3, <1>a, <1>b, <1>c DEF DumpEnd, TypeOK, Ready
  <2>2. Gentle(c)
    BY <1>3, <1>a DEF DumpEnd, TypeOK, Gentle
  <2>3. pc' \in [Clients -> Busy \cup Messages \cup {"ready", "crashed"}]
    BY <1>3, <1>a DEF DumpEnd, TypeOK
  <2>4. clean' \in [Clients -> BOOLEAN]
    BY <1>3, <1>a DEF DumpEnd, TypeOK
  <2>5. /\ size' \in [Clients -> 0 .. Tables] /\ done' \in [Clients -> 0 .. Tables]
        /\ off' \in [Clients -> 0 .. Tables]
    BY <1>3, <1>a, <1>b DEF DumpEnd, TypeOK
  <2>6. db' \in States /\ remote' \in Files
    BY <1>3, <1>a, <1>b DEF DumpEnd, TypeOK
  <2>7. /\ local' \in [Clients -> Files \cup {NULL}]
        /\ snap' \in [Clients -> States \cup {NULL}]
    BY <1>3, <1>a, <1>b DEF DumpEnd, TypeOK
  <2> QED BY <1>e, <2>1, <2>2, <2>3, <2>4, <2>5, <2>6, <2>7
<1>4. CASE Measure(c)
  <2>1. Ready(c)' /\ (pc'[c] = "download" => Len(local'[c]) <= size'[c])
    BY <1>4, <1>a, <1>b, <1>c DEF Measure, TypeOK, Ready
  <2>2. Gentle(c)
    BY <1>4, <1>a DEF Measure, TypeOK, Gentle
  <2>3. pc' \in [Clients -> Busy \cup Messages \cup {"ready", "crashed"}]
    BY <1>4, <1>a DEF Measure, TypeOK
  <2>4. clean' \in [Clients -> BOOLEAN]
    BY <1>4, <1>a DEF Measure, TypeOK
  <2>5. /\ size' \in [Clients -> 0 .. Tables] /\ done' \in [Clients -> 0 .. Tables]
        /\ off' \in [Clients -> 0 .. Tables]
    BY <1>4, <1>a, <1>b DEF Measure, TypeOK
  <2>6. db' \in States /\ remote' \in Files
    BY <1>4, <1>a, <1>b DEF Measure, TypeOK
  <2>7. /\ local' \in [Clients -> Files \cup {NULL}]
        /\ snap' \in [Clients -> States \cup {NULL}]
    BY <1>4, <1>a, <1>b DEF Measure, TypeOK
  <2> QED BY <1>e, <2>1, <2>2, <2>3, <2>4, <2>5, <2>6, <2>7
<1>5. CASE OpenLocal(c)
  <2>1. CASE Fail(c)
    BY <2>1, <1>f
  <2>2. CASE ~Fail(c)
    <3>0. /\ local' = [local EXCEPT ![c] = <<>>] /\ done' = [done EXCEPT ![c] = 0]
          /\ pc[c] = "open" /\ pc' = [pc EXCEPT ![c] = "download"]
          /\ UNCHANGED <<db, remote, size, off, snap, clean>>
      BY <1>5, <2>2 DEF OpenLocal
    <3>1. Ready(c)' /\ (pc'[c] = "download" => Len(local'[c]) <= size'[c])
      BY <3>0, <1>a, <1>b, <1>c, EmptyFile DEF TypeOK, Ready
    <3>2. Gentle(c)
      BY <1>5, <2>2, <1>a DEF OpenLocal, TypeOK, Gentle
    <3>3. pc' \in [Clients -> Busy \cup Messages \cup {"ready", "crashed"}]
      BY <1>5, <2>2, <1>a DEF OpenLocal, TypeOK
    <3>4. clean' \in [Clients -> BOOLEAN]
      BY <1>5, <2>2, <1>a DEF OpenLocal, TypeOK
    <3>5. /\ size' \in [Clients -> 0 .. Tables] /\ done' \in [Clients -> 0 .. Tables]
          /\ off' \in [Clients -> 0 .. Tables]
      BY <3>0, <1>a, <1>b, EmptyFile DEF TypeOK
    <3>6. db' \in States /\ remote' \in Files
      BY <1>5, <2>2, <1>a, <1>b, EmptyFile DEF OpenLocal, TypeOK
    <3>7. /\ local' \in [Clients -> Files \cup {NULL}]
          /\ snap' \in [Clients -> States \cup {NULL}]
      BY <3>0, <1>a, <1>b, EmptyFile DEF TypeOK
    <3> QED BY <1>e, <3>1, <3>2, <3>3, <3>4, <3>5, <3>6, <3>7
  <2> QED BY <2>1, <2>2
<1>6. CASE ReadBlock(c)
  <2>0. /\ local[c] \in Files /\ Len(local[c]) \in 0 .. done[c]
        /\ done[c] < size[c] => /\ Append(local[c], remote[done[c] + 1]) \in Files
                                /\ Len(Append(local[c], remote[done[c] + 1])) = Len(local[c]) + 1
                                /\ Append(local[c], remote[done[c] + 1]) # NULL
    <3>1. local[c] \in Files /\ Len(local[c]) \in 0 .. done[c]
      BY <1>6, <1>b, <1>c, FileBlocks DEF ReadBlock, Ready
    <3>2. remote[done[c] + 1] \in Block \cup {HOLE}
      BY <1>6, <1>b, FileBlocks DEF ReadBlock
    <3>3. done[c] < size[c] => Len(local[c]) < Tables
      BY <1>b, <3>1
    <3> QED BY <3>1, <3>2, <3>3, AppendFile, FileBlocks
  <2>1. Ready(c)' /\ (pc'[c] = "download" => Len(local'[c]) <= size'[c])
    BY <1>6, <1>a, <1>b, <1>c, <2>0 DEF ReadBlock, TypeOK, Ready
  <2>2. Gentle(c)
    BY <1>6, <1>a DEF ReadBlock, TypeOK, Gentle
  <2>3. pc' \in [Clients -> Busy \cup Messages \cup {"ready", "crashed"}]
    BY <1>6, <1>a DEF ReadBlock, TypeOK
  <2>4. clean' \in [Clients -> BOOLEAN]
    BY <1>6, <1>a DEF ReadBlock, TypeOK
  <2>5. /\ size' \in [Clients -> 0 .. Tables] /\ done' \in [Clients -> 0 .. Tables]
        /\ off' \in [Clients -> 0 .. Tables]
    BY <1>6, <1>a, <1>b, <2>0 DEF ReadBlock, TypeOK
  <2>6. db' \in States /\ remote' \in Files
    BY <1>6, <1>a, <1>b, <2>0 DEF ReadBlock, TypeOK
  <2>7. /\ local' \in [Clients -> Files \cup {NULL}]
        /\ snap' \in [Clients -> States \cup {NULL}]
    BY <1>6, <1>a, <1>b, <2>0 DEF ReadBlock, TypeOK
  <2> QED BY <1>e, <2>1, <2>2, <2>3, <2>4, <2>5, <2>6, <2>7
<1>7. CASE ReadEnd(c)
  <2>1. Ready(c)' /\ (pc'[c] = "download" => Len(local'[c]) <= size'[c])
    BY <1>7, <1>a, <1>b, <1>c DEF ReadEnd, TypeOK, Ready
  <2>2. Gentle(c)
    BY <1>7, <1>a DEF ReadEnd, TypeOK, Gentle
  <2>3. pc' \in [Clients -> Busy \cup Messages \cup {"ready", "crashed"}]
    BY <1>7, <1>a DEF ReadEnd, TypeOK
  <2>4. clean' \in [Clients -> BOOLEAN]
    BY <1>7, <1>a DEF ReadEnd, TypeOK
  <2>5. /\ size' \in [Clients -> 0 .. Tables] /\ done' \in [Clients -> 0 .. Tables]
        /\ off' \in [Clients -> 0 .. Tables]
    BY <1>7, <1>a, <1>b DEF ReadEnd, TypeOK
  <2>6. db' \in States /\ remote' \in Files
    BY <1>7, <1>a, <1>b DEF ReadEnd, TypeOK
  <2>7. /\ local' \in [Clients -> Files \cup {NULL}]
        /\ snap' \in [Clients -> States \cup {NULL}]
    BY <1>7, <1>a, <1>b DEF ReadEnd, TypeOK
  <2> QED BY <1>e, <2>1, <2>2, <2>3, <2>4, <2>5, <2>6, <2>7
<1>8. CASE CreateRemote(c)
  <2>1. CASE Fail(c)
    BY <2>1, <1>f
  <2>2. CASE ~Fail(c)
    <3>0. /\ pc[c] = "create"
          /\ pc' = [pc EXCEPT ![c] = "upload"] \/ pc' = [pc EXCEPT ![c] = "failed"]
          /\ done' = [done EXCEPT ![c] = 0] /\ off' = [off EXCEPT ![c] = 0]
          /\ UNCHANGED <<db, local, size, snap>>
      BY <1>8, <2>2 DEF CreateRemote
    <3>1. Ready(c)' /\ (pc'[c] = "download" => Len(local'[c]) <= size'[c])
      BY <3>0, <1>a, <1>b, <1>c, EmptyFile, FileBlocks DEF TypeOK, Ready
    <3>2. Gentle(c)
      BY <1>8, <2>2, <1>a DEF CreateRemote, TypeOK, Gentle
    <3>3. pc' \in [Clients -> Busy \cup Messages \cup {"ready", "crashed"}]
      BY <1>8, <2>2, <1>a DEF CreateRemote, TypeOK
    <3>4. clean' \in [Clients -> BOOLEAN]
      <4>1. PICK ok \in BOOLEAN : WritesFile(c, ok)
        BY <1>8, <2>2 DEF CreateRemote
      <4> QED BY <4>1, <1>a DEF TypeOK
    <3>5. /\ size' \in [Clients -> 0 .. Tables] /\ done' \in [Clients -> 0 .. Tables]
          /\ off' \in [Clients -> 0 .. Tables]
      BY <3>0, <1>a, <1>b DEF TypeOK
    <3>6. db' \in States /\ remote' \in Files
      BY <1>8, <2>2, <1>a, <1>b, EmptyFile, FileBlocks DEF CreateRemote, TypeOK
    <3>7. /\ local' \in [Clients -> Files \cup {NULL}]
          /\ snap' \in [Clients -> States \cup {NULL}]
      BY <3>0, <1>a, <1>b, EmptyFile, FileBlocks DEF TypeOK
    <3> QED BY <1>e, <3>1, <3>2, <3>3, <3>4, <3>5, <3>6, <3>7
  <2> QED BY <2>1, <2>2
<1>9. CASE WriteBlock(c)
  <2>0. /\ Len(local[c]) \in 0 .. Tables /\ off[c] <= done[c] /\ done[c] <= Len(local[c])
        /\ WriteAt(remote, off[c], local[c][done[c] + 1]) \in Files
    <3>1. local[c] \in Files /\ off[c] <= done[c] /\ done[c] <= Len(local[c])
      BY <1>9, <1>b, <1>c DEF WriteBlock, Ready
    <3>2. Len(local[c]) \in 0 .. Tables /\ local[c][done[c] + 1] \in Block \cup {HOLE}
      BY <1>9, <1>b, <3>1, FileBlocks DEF WriteBlock
    <3> QED BY <1>9, <1>b, <3>1, <3>2, WriteAtFile DEF WriteBlock
  <2>1. Ready(c)' /\ (pc'[c] = "download" => Len(local'[c]) <= size'[c])
    BY <1>9, <1>a, <1>b, <1>c, <2>0 DEF WriteBlock, TypeOK, Ready
  <2>2. Gentle(c)
    BY <1>9, <1>a DEF WriteBlock, TypeOK, Gentle
  <2>3. pc' \in [Clients -> Busy \cup Messages \cup {"ready", "crashed"}]
    BY <1>9, <1>a DEF WriteBlock, TypeOK
  <2>4. clean' \in [Clients -> BOOLEAN]
    BY <1>9, <1>a DEF WriteBlock, TypeOK
  <2>5. /\ size' \in [Clients -> 0 .. Tables] /\ done' \in [Clients -> 0 .. Tables]
        /\ off' \in [Clients -> 0 .. Tables]
    BY <1>9, <1>a, <1>b, <2>0 DEF WriteBlock, TypeOK
  <2>6. db' \in States /\ remote' \in Files
    BY <1>9, <1>a, <1>b, <2>0 DEF WriteBlock, TypeOK
  <2>7. /\ local' \in [Clients -> Files \cup {NULL}]
        /\ snap' \in [Clients -> States \cup {NULL}]
    BY <1>9, <1>a, <1>b, <2>0 DEF WriteBlock, TypeOK
  <2> QED BY <1>e, <2>1, <2>2, <2>3, <2>4, <2>5, <2>6, <2>7
<1>10. CASE StartMysql(c)
  <2>1. CASE Fail(c)
    BY <2>1, <1>f
  <2>2. CASE ~Fail(c)
    <3>0. /\ pc' = [pc EXCEPT ![c] = "run"] /\ size' = [size EXCEPT ![c] = 0]
          /\ done' = [done EXCEPT ![c] = 0] /\ off' = [off EXCEPT ![c] = 0]
          /\ UNCHANGED <<db, remote, local, snap, clean>>
      BY <1>10, <2>2 DEF StartMysql
    <3>1. Ready(c)' /\ (pc'[c] = "download" => Len(local'[c]) <= size'[c])
      BY <3>0, <1>a, <1>b, <1>c DEF TypeOK, Ready
    <3>2. Gentle(c)
      BY <1>10, <2>2, <1>a DEF StartMysql, TypeOK, Gentle
    <3>3. pc' \in [Clients -> Busy \cup Messages \cup {"ready", "crashed"}]
      BY <1>10, <2>2, <1>a DEF StartMysql, TypeOK
    <3>4. clean' \in [Clients -> BOOLEAN]
      BY <1>10, <2>2, <1>a DEF StartMysql, TypeOK
    <3>5. /\ size' \in [Clients -> 0 .. Tables] /\ done' \in [Clients -> 0 .. Tables]
          /\ off' \in [Clients -> 0 .. Tables]
      BY <3>0, <1>a, <1>b DEF TypeOK
    <3>6. db' \in States /\ remote' \in Files
      BY <1>10, <2>2, <1>a, <1>b DEF StartMysql, TypeOK
    <3>7. /\ local' \in [Clients -> Files \cup {NULL}]
          /\ snap' \in [Clients -> States \cup {NULL}]
      BY <3>0, <1>a, <1>b DEF TypeOK
    <3> QED BY <1>e, <3>1, <3>2, <3>3, <3>4, <3>5, <3>6, <3>7
  <2> QED BY <2>1, <2>2
<1>11. CASE RunBlock(c)
  <2>0. [db EXCEPT ![remote[done[c] + 1].table] = remote[done[c] + 1].content] \in States
    <3>1. remote[done[c] + 1] \in Block
      BY <1>11, <1>b, FileBlocks DEF RunBlock
    <3> QED BY <1>a, <3>1 DEF TypeOK, States, Block
  <2>1. Ready(c)' /\ (pc'[c] = "download" => Len(local'[c]) <= size'[c])
    BY <1>11, <1>a, <1>b, <1>c, <2>0 DEF RunBlock, TypeOK, Ready
  <2>2. Gentle(c)
    BY <1>11, <1>a DEF RunBlock, TypeOK, Gentle
  <2>3. pc' \in [Clients -> Busy \cup Messages \cup {"ready", "crashed"}]
    BY <1>11, <1>a DEF RunBlock, TypeOK
  <2>4. clean' \in [Clients -> BOOLEAN]
    BY <1>11, <1>a DEF RunBlock, TypeOK
  <2>5. /\ size' \in [Clients -> 0 .. Tables] /\ done' \in [Clients -> 0 .. Tables]
        /\ off' \in [Clients -> 0 .. Tables]
    BY <1>11, <1>a, <1>b, <2>0 DEF RunBlock, TypeOK
  <2>6. db' \in States /\ remote' \in Files
    BY <1>11, <1>a, <1>b, <2>0 DEF RunBlock, TypeOK
  <2>7. /\ local' \in [Clients -> Files \cup {NULL}]
        /\ snap' \in [Clients -> States \cup {NULL}]
    BY <1>11, <1>a, <1>b, <2>0 DEF RunBlock, TypeOK
  <2> QED BY <1>e, <2>1, <2>2, <2>3, <2>4, <2>5, <2>6, <2>7
<1>12. CASE RunEnd(c)
  <2>0. \A t \in Table : [db EXCEPT ![t] = EMPTY] \in States
    BY <1>a, BackupAssumption DEF TypeOK, States
  <2>1. Ready(c)' /\ (pc'[c] = "download" => Len(local'[c]) <= size'[c])
    BY <1>12, <1>a, <1>b, <1>c, <2>0 DEF RunEnd, TypeOK, Ready
  <2>2. Gentle(c)
    BY <1>12, <1>a DEF RunEnd, TypeOK, Gentle
  <2>3. pc' \in [Clients -> Busy \cup Messages \cup {"ready", "crashed"}]
    BY <1>12, <1>a DEF RunEnd, TypeOK
  <2>4. clean' \in [Clients -> BOOLEAN]
    BY <1>12, <1>a DEF RunEnd, TypeOK
  <2>5. /\ size' \in [Clients -> 0 .. Tables] /\ done' \in [Clients -> 0 .. Tables]
        /\ off' \in [Clients -> 0 .. Tables]
    <3>1. NoCounters(c)
      BY <1>12 DEF RunEnd
    <3> QED BY <3>1, <1>a, <1>b DEF NoCounters, TypeOK
  <2>6. db' \in States /\ remote' \in Files
    <3>1. /\ remote' = remote
          /\ db' = db \/ db' \in {[db EXCEPT ![t] = EMPTY] : t \in Table}
      BY <1>12 DEF RunEnd
    <3>2. db' \in States
      BY <2>0, <3>1, <1>a DEF TypeOK
    <3> QED BY <3>1, <3>2, <1>b
  <2>7. /\ local' \in [Clients -> Files \cup {NULL}]
        /\ snap' \in [Clients -> States \cup {NULL}]
    BY <1>12, <1>a, <1>b, <2>0 DEF RunEnd, TypeOK
  <2> QED BY <1>e, <2>1, <2>2, <2>3, <2>4, <2>5, <2>6, <2>7
<1>13. CASE ClickBackup(c)
  <2>1. Ready(c)' /\ (pc'[c] = "download" => Len(local'[c]) <= size'[c])
    BY <1>13, <1>a, <1>b, <1>c DEF ClickBackup, Connect, TypeOK, Ready
  <2>2. Gentle(c)
    BY <1>13, <1>a DEF ClickBackup, Connect, TypeOK, Gentle
  <2>3. pc' \in [Clients -> Busy \cup Messages \cup {"ready", "crashed"}]
    BY <1>13, <1>a DEF ClickBackup, Connect, TypeOK
  <2>4. clean' \in [Clients -> BOOLEAN]
    BY <1>13, <1>a DEF ClickBackup, Connect, TypeOK
  <2>5. /\ size' \in [Clients -> 0 .. Tables] /\ done' \in [Clients -> 0 .. Tables]
        /\ off' \in [Clients -> 0 .. Tables]
    BY <1>13, <1>a, <1>b DEF ClickBackup, Connect, TypeOK
  <2>6. db' \in States /\ remote' \in Files
    BY <1>13, <1>a, <1>b DEF ClickBackup, Connect, TypeOK
  <2>7. /\ local' \in [Clients -> Files \cup {NULL}]
        /\ snap' \in [Clients -> States \cup {NULL}]
    BY <1>13, <1>a, <1>b DEF ClickBackup, Connect, TypeOK
  <2> QED BY <1>e, <2>1, <2>2, <2>3, <2>4, <2>5, <2>6, <2>7
<1>14. CASE ClickRestore(c)
  <2>1. Ready(c)' /\ (pc'[c] = "download" => Len(local'[c]) <= size'[c])
    BY <1>14, <1>a, <1>b, <1>c DEF ClickRestore, Connect, TypeOK, Ready
  <2>2. Gentle(c)
    BY <1>14, <1>a DEF ClickRestore, Connect, TypeOK, Gentle
  <2>3. pc' \in [Clients -> Busy \cup Messages \cup {"ready", "crashed"}]
    BY <1>14, <1>a DEF ClickRestore, Connect, TypeOK
  <2>4. clean' \in [Clients -> BOOLEAN]
    BY <1>14, <1>a DEF ClickRestore, Connect, TypeOK
  <2>5. /\ size' \in [Clients -> 0 .. Tables] /\ done' \in [Clients -> 0 .. Tables]
        /\ off' \in [Clients -> 0 .. Tables]
    BY <1>14, <1>a, <1>b DEF ClickRestore, Connect, TypeOK
  <2>6. db' \in States /\ remote' \in Files
    BY <1>14, <1>a, <1>b DEF ClickRestore, Connect, TypeOK
  <2>7. /\ local' \in [Clients -> Files \cup {NULL}]
        /\ snap' \in [Clients -> States \cup {NULL}]
    BY <1>14, <1>a, <1>b DEF ClickRestore, Connect, TypeOK
  <2> QED BY <1>e, <2>1, <2>2, <2>3, <2>4, <2>5, <2>6, <2>7
<1>15. CASE Return(c)
  <2>1. Ready(c)' /\ (pc'[c] = "download" => Len(local'[c]) <= size'[c])
    BY <1>15, <1>a, <1>b, <1>c DEF Return, TypeOK, Ready
  <2>2. Gentle(c)
    BY <1>15, <1>a DEF Return, TypeOK, Gentle
  <2>3. pc' \in [Clients -> Busy \cup Messages \cup {"ready", "crashed"}]
    BY <1>15, <1>a DEF Return, TypeOK
  <2>4. clean' \in [Clients -> BOOLEAN]
    BY <1>15, <1>a DEF Return, TypeOK
  <2>5. /\ size' \in [Clients -> 0 .. Tables] /\ done' \in [Clients -> 0 .. Tables]
        /\ off' \in [Clients -> 0 .. Tables]
    BY <1>15, <1>a, <1>b DEF Return, TypeOK
  <2>6. db' \in States /\ remote' \in Files
    BY <1>15, <1>a, <1>b DEF Return, TypeOK
  <2>7. /\ local' \in [Clients -> Files \cup {NULL}]
        /\ snap' \in [Clients -> States \cup {NULL}]
    BY <1>15, <1>a, <1>b DEF Return, TypeOK
  <2> QED BY <1>e, <2>1, <2>2, <2>3, <2>4, <2>5, <2>6, <2>7
<1> QED BY <1>1, <1>2, <1>3, <1>4, <1>5, <1>6, <1>7, <1>8, <1>9, <1>10, <1>11, <1>12, <1>13,
           <1>14, <1>15 DEF Handler

\* The other pages of the program change neither files nor handlers.
LEMMA UseTyped ==
    ASSUME TypeInv, NEW t \in Table, NEW v \in Contents, UseDatabase(t, v)
    PROVE  TypeInv'
<1>1. db' \in States /\ clean' \in [Clients -> BOOLEAN]
  BY DEF UseDatabase, WritesDb, TypeInv, TypeOK, States
<1>2. UNCHANGED <<remote, local, pc, size, done, off, snap>>
  BY DEF UseDatabase, counters
<1>3. \A d \in Clients : Ready(d)'
  BY <1>2 DEF Ready, TypeInv
<1>4. TypeOK'
  BY <1>1, <1>2 DEF TypeInv, TypeOK
<1> QED BY <1>3, <1>4 DEF TypeInv

\* Every step of the system keeps the types.
LEMMA NextTyped == TypeInv /\ [Next]_vars => TypeInv'
<1> SUFFICES ASSUME TypeInv, [Next]_vars PROVE TypeInv'
  OBVIOUS
<1>1. CASE UNCHANGED vars
  BY <1>1 DEF TypeInv, TypeOK, Ready, vars, counters
<1> QED BY <1>1, StepTyped, UseTyped DEF Next

-----------------------------------------------------------------------------
(* Undisturbed handlers. *)

\* The files agree on their first n blocks.
SamePrefix(f, g, n) == n <= Len(f) /\ n <= Len(g) /\ \A i \in 1 .. n : f[i] = g[i]

\* Files of one length that agree on all of it are equal.
LEMMA SameFile ==
    ASSUME NEW f \in Files, NEW g \in Files, SamePrefix(f, g, Len(f)), Len(g) = Len(f)
    PROVE  f = g
<1>1. f \in Seq(Block \cup {HOLE}) /\ g \in Seq(Block \cup {HOLE})
  BY FileBlocks
<1>2. Len(f) = Len(g) /\ \A i \in 1 .. Len(f) : f[i] = g[i]
  BY DEF SamePrefix
<1> QED BY <1>1, <1>2, SeqEqual

\* One block more.
LEMMA LongerPrefix ==
    ASSUME NEW f \in Files, NEW g \in Files, NEW h \in Files, NEW n \in Nat,
           SamePrefix(f, g, n), Len(f) = n, n < Len(g),
           Len(h) = n + 1, h[n + 1] = g[n + 1], \A i \in 1 .. n : h[i] = f[i]
    PROVE  SamePrefix(h, g, n + 1)
<1>1. Len(g) \in Nat
  BY FileBlocks
<1>2. ASSUME NEW i \in 1 .. n + 1 PROVE h[i] = g[i]
  BY <1>2 DEF SamePrefix
<1> QED BY <1>1, <1>2 DEF SamePrefix

\* How far a handler that nobody disturbed has come.
Copy(c) == clean[c] =>
    /\ pc[c] = "dump" => Len(remote) = off[c] /\ SamePrefix(remote, DumpOf(snap[c]), off[c])
    /\ pc[c] \in {"measure", "open", "download"} => remote = DumpOf(snap[c])
    /\ pc[c] \in {"open", "download"} => size[c] = Tables
    /\ pc[c] = "download" => Len(local[c]) = done[c] /\ SamePrefix(local[c], remote, done[c])
    /\ pc[c] = "saved" => local[c] = DumpOf(snap[c])
    /\ pc[c] = "upload" => /\ Len(remote) = off[c] /\ off[c] = done[c]
                           /\ SamePrefix(remote, local[c], done[c])
    /\ pc[c] = "run" => remote = local[c]
    /\ \A s \in States : local[c] = DumpOf(s) =>
          /\ pc[c] = "run" => \A t \in 1 .. done[c] : db[t] = s[t]
          /\ pc[c] = "restored" => db = s

IInv == TypeInv /\ \A c \in Clients : Copy(c)

\* The others do not disturb those whose history stays clean.
LEMMA OthersKept ==
    ASSUME TypeInv, NEW d \in Clients, Copy(d),
           pc'[d] = pc[d], local'[d] = local[d], size'[d] = size[d], done'[d] = done[d],
           off'[d] = off[d], snap'[d] = snap[d],
           clean'[d] => /\ clean[d]
                        /\ remote' = remote \/ ~UsesFile(d)
                        /\ db' = db \/ pc[d] \notin {"run", "restored"}
    PROVE  Copy(d)'
<1> SUFFICES ASSUME clean'[d] PROVE Copy(d)'
  BY DEF Copy
<1>1. clean[d]
  OBVIOUS
<1>2. CASE UsesFile(d)
  <2>1. remote' = remote
    BY <1>2
  <2>2. CASE db' = db
    BY <1>1, <2>1, <2>2 DEF Copy
  <2>3. CASE pc[d] \notin {"run", "restored"}
    BY <1>1, <2>1, <2>3 DEF Copy
  <2> QED BY <2>2, <2>3
<1>3. CASE ~UsesFile(d)
  <2>1. pc[d] \notin {"dump", "measure", "open", "download", "upload", "run"}
    BY <1>3 DEF UsesFile, Busy, Backing, Restoring
  <2> QED BY <1>1, <2>1 DEF Copy
<1> QED BY <1>2, <1>3

\* A step of a handler that stays undisturbed takes it one step further.
LEMMA StepCopies ==
    ASSUME TypeInv, NEW c \in Clients, Copy(c), TypeInv',
           Handler(c) \/ ClickBackup(c) \/ ClickRestore(c) \/ Return(c)
    PROVE  Copy(c)'
<1>a. TypeOK
  BY DEF TypeInv
<1>b. /\ size[c] \in 0 .. Tables /\ done[c] \in 0 .. Tables /\ off[c] \in 0 .. Tables
      /\ remote \in Files /\ local[c] \in Files \cup {NULL}
      /\ pc[c] \in {"create", "upload", "download"} => local[c] \in Files
      /\ pc[c] \in {"dump", "measure", "open", "download"} => snap[c] \in States
      /\ pc[c] = "upload" => done[c] <= Len(local[c])
      /\ Tables \in Nat /\ Tables > 0 /\ Len(remote) \in 0 .. Tables
      /\ db \in States
  BY ClientTyped, FileBlocks DEF Ready, TypeInv, TypeOK
<1>c. /\ pc[c] \in {"dump", "measure", "open", "download"} =>
            DumpOf(snap[c]) \in Files /\ Len(DumpOf(snap[c])) = Tables
      /\ pc[c] \in {"create", "upload", "download"} => Len(local[c]) \in 0 .. Tables
  BY <1>b, DumpFile, FileBlocks
<1> SUFFICES ASSUME clean'[c] PROVE Copy(c)'
  BY DEF Copy
<1> USE DEF Goto, NoCounters, Alone, WritesFile, WritesDb, counters
<1>f. ~Fail(c)
  BY <1>a DEF Fail, TypeOK
<1>1. CASE StartDump(c)
  <2>1. /\ pc' = [pc EXCEPT ![c] = "dump"] /\ remote' = <<>>
        /\ off' = [off EXCEPT ![c] = 0] /\ snap' = [snap EXCEPT ![c] = db]
    BY <1>1, <1>f DEF StartDump
  <2>2. pc'[c] = "dump" /\ off'[c] = 0 /\ snap'[c] = db
    BY <1>a, <2>1 DEF TypeOK
  <2>3. Len(DumpOf(db)) = Tables
    BY <1>b, DumpFile
  <2>4. Len(remote') = 0 /\ SamePrefix(remote', DumpOf(snap'[c]), 0)
    BY <1>b, <2>1, <2>2, <2>3, EmptyFile DEF SamePrefix
  <2> QED BY <2>2, <2>4 DEF Copy
<1>2. CASE DumpBlock(c)
  <2> DEFINE g == DumpOf(snap[c])
             h == WriteAt(remote, off[c], g[off[c] + 1])
  <2>1. /\ pc[c] = "dump" /\ pc'[c] = "dump" /\ off[c] < Tables /\ off'[c] = off[c] + 1
        /\ remote' = h /\ snap' = snap /\ clean[c]
    BY <1>2, <1>a DEF DumpBlock, TypeOK
  <2>2. /\ snap[c] \in States /\ off[c] + 1 \in Table /\ g \in Files /\ Len(g) = Tables
        /\ Len(remote) = off[c] /\ SamePrefix(remote, g, off[c])
    BY <1>b, <1>c, <2>1 DEF Table, Copy
  <2>3. g[off[c] + 1] \in Block \cup {HOLE}
    BY <2>2, DumpFile
  <2> HIDE DEF g
  <2>4. /\ h \in Files /\ Len(h) = off[c] + 1 /\ h[off[c] + 1] = g[off[c] + 1]
        /\ \A i \in 1 .. off[c] : h[i] = remote[i]
    BY <1>b, <2>1, <2>2, <2>3, WriteAtFile
  <2> HIDE DEF h
  <2>5. SamePrefix(h, g, off[c] + 1)
    <3>1. /\ remote \in Files /\ g \in Files /\ h \in Files /\ off[c] \in Nat
          /\ SamePrefix(remote, g, off[c]) /\ Len(remote) = off[c] /\ off[c] < Len(g)
          /\ Len(h) = off[c] + 1 /\ h[off[c] + 1] = g[off[c] + 1]
          /\ \A i \in 1 .. off[c] : h[i] = remote[i]
      BY <1>b, <2>1, <2>2, <2>4
    <3> QED BY <3>1, LongerPrefix
  <2>6. Len(remote') = off'[c] /\ SamePrefix(remote', DumpOf(snap'[c]), off'[c])
    BY <2>1, <2>4, <2>5 DEF g
  <2> QED BY <2>1, <2>6 DEF Copy
<1>3. CASE DumpEnd(c)
  <2>1. /\ pc[c] = "dump" /\ pc'[c] = "measure" /\ clean[c] /\ off[c] = Tables
        /\ UNCHANGED <<remote, snap>>
    BY <1>3, <1>a DEF DumpEnd, TypeOK
  <2>2. remote = DumpOf(snap[c])
    BY <1>b, <1>c, <2>1, SameFile DEF Copy
  <2> QED BY <2>1, <2>2 DEF Copy
<1>4. CASE Measure(c)
  <2>1. /\ pc[c] = "measure" /\ pc'[c] = "open" /\ clean[c] /\ size'[c] = Len(remote)
        /\ UNCHANGED <<remote, snap>>
    BY <1>4, <1>a DEF Measure, TypeOK
  <2>2. remote = DumpOf(snap[c]) /\ Len(remote) = Tables
    BY <1>c, <2>1 DEF Copy
  <2> QED BY <2>1, <2>2 DEF Copy
<1>5. CASE OpenLocal(c)
  <2>1. /\ pc[c] = "open" /\ pc' = [pc EXCEPT ![c] = "download"]
        /\ local' = [local EXCEPT ![c] = <<>>] /\ done' = [done EXCEPT ![c] = 0]
        /\ UNCHANGED <<remote, size, snap, clean>>
    BY <1>5, <1>f DEF OpenLocal
  <2>2. pc'[c] = "download" /\ local'[c] = <<>> /\ done'[c] = 0
    BY <1>a, <2>1 DEF TypeOK
  <2>3. Len(local'[c]) = 0 /\ SamePrefix(local'[c], remote, 0)
    BY <1>b, <2>2, EmptyFile DEF SamePrefix
  <2> QED BY <2>1, <2>2, <2>3 DEF Copy
<1>6. CASE ReadBlock(c)
  <2> DEFINE h == Append(local[c], remote[done[c] + 1])
  <2>1. /\ pc[c] = "download" /\ pc'[c] = "download" /\ clean[c] /\ done[c] < Len(remote)
        /\ done'[c] = done[c] + 1 /\ UNCHANGED <<remote, snap, size>>
        /\ local'[c] = IF done[c] < size[c] THEN h ELSE local[c]
    BY <1>6, <1>a DEF ReadBlock, TypeOK
  <2>2. /\ remote = DumpOf(snap[c]) /\ Len(remote) = Tables /\ size[c] = Tables
        /\ Len(local[c]) = done[c] /\ SamePrefix(local[c], remote, done[c]) /\ local[c] \in Files
    BY <1>b, <1>c, <2>1 DEF Copy
  <2>3. remote[done[c] + 1] \in Block \cup {HOLE}
    BY <1>b, <2>1, FileBlocks
  <2>4. /\ h \in Files /\ Len(h) = done[c] + 1 /\ h[done[c] + 1] = remote[done[c] + 1]
        /\ \A i \in 1 .. done[c] : h[i] = local[c][i]
    BY <2>1, <2>2, <2>3, AppendFile
  <2> HIDE DEF h
  <2>5. SamePrefix(h, remote, done[c] + 1)
    <3>1. /\ local[c] \in Files /\ remote \in Files /\ h \in Files /\ done[c] \in Nat
          /\ SamePrefix(local[c], remote, done[c]) /\ Len(local[c]) = done[c] /\ done[c] < Len(remote)
          /\ Len(h) = done[c] + 1 /\ h[done[c] + 1] = remote[done[c] + 1]
          /\ \A i \in 1 .. done[c] : h[i] = local[c][i]
      BY <1>b, <2>1, <2>2, <2>4
    <3> QED BY <3>1, LongerPrefix
  <2>6. local'[c] = h
    BY <2>1, <2>2
  <2> QED BY <2>1, <2>2, <2>4, <2>5, <2>6 DEF Copy
<1>7. CASE ReadEnd(c)
  <2>1. /\ pc[c] = "download" /\ pc'[c] = "saved" /\ clean[c] /\ done[c] >= Len(remote)
        /\ UNCHANGED <<local, snap>>
    BY <1>7, <1>a DEF ReadEnd, TypeOK
  <2>2. /\ remote = DumpOf(snap[c]) /\ Len(remote) = Tables /\ done[c] = Tables
        /\ Len(local[c]) = done[c] /\ SamePrefix(local[c], remote, done[c]) /\ local[c] \in Files
    BY <1>b, <1>c, <2>1 DEF Copy
  <2>3. local[c] = remote
    BY <1>b, <2>2, SameFile
  <2> QED BY <2>1, <2>2, <2>3 DEF Copy
<1>8. CASE CreateRemote(c)
  <2>1. /\ pc[c] = "create" /\ remote' = <<>> /\ local' = local
        /\ pc' = [pc EXCEPT ![c] = "upload"] \/ pc' = [pc EXCEPT ![c] = "failed"]
        /\ done' = [done EXCEPT ![c] = 0] /\ off' = [off EXCEPT ![c] = 0]
    BY <1>8, <1>f DEF CreateRemote
  <2>2. pc'[c] \in {"upload", "failed"} /\ done'[c] = 0 /\ off'[c] = 0
    BY <1>a, <2>1 DEF TypeOK
  <2>3. Len(remote') = 0 /\ SamePrefix(remote', local'[c], 0)
    BY <1>b, <1>c, <2>1, EmptyFile DEF SamePrefix
  <2> QED BY <2>2, <2>3 DEF Copy
<1>9. CASE WriteBlock(c)
  <2> DEFINE h == WriteAt(remote, off[c], local[c][done[c] + 1])
  <2>1. /\ pc[c] = "upload" /\ pc'[c] = "upload" /\ clean[c] /\ done[c] < Len(local[c])
        /\ done'[c] = done[c] + 1 /\ off'[c] = off[c] + 1 /\ remote' = h /\ local' = local
    BY <1>9, <1>a DEF WriteBlock, TypeOK
  <2>2. /\ local[c] \in Files /\ Len(remote) = off[c] /\ off[c] = done[c]
        /\ SamePrefix(remote, local[c], done[c])
    BY <1>b, <2>1 DEF Copy
  <2>3. local[c][done[c] + 1] \in Block \cup {HOLE} /\ off[c] < Tables
    BY <1>b, <1>c, <2>1, <2>2, FileBlocks
  <2>4. /\ h \in Files /\ Len(h) = done[c] + 1 /\ h[done[c] + 1] = local[c][done[c] + 1]
        /\ \A i \in 1 .. done[c] : h[i] = remote[i]
    BY <1>b, <2>2, <2>3, WriteAtFile
  <2> HIDE DEF h
  <2>5. SamePrefix(h, local[c], done[c] + 1)
    <3>1. /\ remote \in Files /\ local[c] \in Files /\ h \in Files /\ done[c] \in Nat
          /\ SamePrefix(remote, local[c], done[c]) /\ Len(remote) = done[c] /\ done[c] < Len(local[c])
          /\ Len(h) = done[c] + 1 /\ h[done[c] + 1] = local[c][done[c] + 1]
          /\ \A i \in 1 .. done[c] : h[i] = remote[i]
      BY <1>b, <1>c, <2>1, <2>2, <2>4
    <3> QED BY <3>1, LongerPrefix
  <2> QED BY <2>1, <2>2, <2>4, <2>5 DEF Copy
<1>10. CASE StartMysql(c)
  <2>1. /\ pc[c] = "upload" /\ done[c] >= Len(local[c])
        /\ pc' = [pc EXCEPT ![c] = "run"] /\ done' = [done EXCEPT ![c] = 0]
        /\ UNCHANGED <<remote, local, clean>>
    BY <1>10, <1>f DEF StartMysql
  <2>2. pc'[c] = "run" /\ done'[c] = 0 /\ clean[c]
    BY <1>a, <2>1 DEF TypeOK
  <2>3. /\ Len(remote) = Len(local[c]) /\ SamePrefix(remote, local[c], Len(remote))
        /\ local[c] \in Files
    BY <1>b, <1>c, <2>1, <2>2 DEF Copy
  <2>4. remote = local[c]
    BY <1>b, <2>3, SameFile
  <2> QED BY <2>1, <2>2, <2>4 DEF Copy
<1>11. CASE RunBlock(c)
  <2> DEFINE b == remote[done[c] + 1]
  <2>1. /\ pc[c] = "run" /\ pc'[c] = "run" /\ clean[c] /\ done[c] < Len(remote)
        /\ db' = [db EXCEPT ![b.table] = b.content] /\ done'[c] = done[c] + 1
        /\ UNCHANGED <<remote, local>>
    BY <1>11, <1>a DEF RunBlock, TypeOK
  <2>2. remote = local[c]
    BY <2>1 DEF Copy
  <2>3. ASSUME NEW s \in States, local[c] = DumpOf(s) PROVE \A t \in 1 .. done'[c] : db'[t] = s[t]
    <3>1. \A t \in 1 .. done[c] : db[t] = s[t]
      BY <2>1, <2>3 DEF Copy
    <3>2. Len(remote) = Tables /\ done[c] + 1 \in Table
      BY <1>b, <2>1, <2>2, <2>3, DumpFile DEF Table
    <3>3. b.table = done[c] + 1 /\ b.content = s[done[c] + 1]
      BY <2>2, <2>3, <3>2, DumpFile
    <3> HIDE DEF b
    <3>4. db' = [db EXCEPT ![done[c] + 1] = s[done[c] + 1]]
      BY <2>1, <3>3
    <3> QED BY <1>b, <2>1, <3>1, <3>2, <3>4 DEF States, Table
  <2> QED BY <2>1, <2>2, <2>3 DEF Copy
<1>12. CASE RunEnd(c)
  <2>1. /\ pc[c] = "run" /\ pc'[c] = "restored" /\ clean[c]
        /\ done[c] < Len(remote) => remote[done[c] + 1] = HOLE
        /\ UNCHANGED <<db, local>>
    BY <1>12, <1>a DEF RunEnd, TypeOK
  <2>2. ASSUME NEW s \in States, local[c] = DumpOf(s) PROVE db = s
    <3>1. remote = DumpOf(s) /\ Len(remote) = Tables /\ \A t \in 1 .. done[c] : db[t] = s[t]
      BY <2>1, <2>2, DumpFile DEF Copy
    <3>2. ~(done[c] < Len(remote))
      <4>1. done[c] < Len(remote) => done[c] + 1 \in Table
        BY <1>b, <3>1 DEF Table
      <4> QED BY <2>1, <3>1, <4>1, DumpFile, BackupAssumption
    <3>3. \A t \in Table : db[t] = s[t]
      BY <1>b, <3>1, <3>2 DEF Table
    <3> QED BY <1>b, <3>3 DEF States
  <2> QED BY <2>1, <2>2 DEF Copy
<1>13. CASE ClickBackup(c) \/ ClickRestore(c)
  <2>1. pc'[c] \in {"exec", "create", "crashed"}
    BY <1>13, <1>a DEF ClickBackup, ClickRestore, Connect, TypeOK
  <2> QED BY <2>1 DEF Copy
<1>14. CASE Return(c)
  <2>1. pc'[c] = "ready"
    BY <1>14, <1>a DEF Return, TypeOK
  <2> QED BY <2>1 DEF Copy
<1> QED BY <1>1, <1>2, <1>3, <1>4, <1>5, <1>6, <1>7, <1>8, <1>9, <1>10, <1>11, <1>12, <1>13,
           <1>14 DEF Handler

\* The invariant holds from the start.
LEMMA InitInv == Init => IInv
<1> SUFFICES ASSUME Init PROVE IInv
  OBVIOUS
<1>1. TypeInv
  BY InitTyped
<1>2. \A c \in Clients : Copy(c)
  BY DEF Init, Copy
<1> QED BY <1>1, <1>2 DEF IInv

\* The invariant is inductive.
LEMMA NextInv == IInv /\ [Next]_vars => IInv'
<1> SUFFICES ASSUME IInv, [Next]_vars PROVE IInv'
  OBVIOUS
<1>a. TypeInv /\ TypeInv' /\ \A d \in Clients : Copy(d)
  BY NextTyped DEF IInv
<1>1. CASE UNCHANGED vars
  <2>1. \A d \in Clients : Copy(d)'
    BY <1>a, <1>1 DEF Copy, vars, counters
  <2> QED BY <1>a, <2>1 DEF IInv
<1>2. ASSUME NEW c \in Clients, Handler(c) \/ ClickBackup(c) \/ ClickRestore(c) \/ Return(c)
      PROVE  IInv'
  <2>1. Copy(c)'
    BY <1>a, <1>2, StepCopies
  <2>2. ASSUME NEW d \in Clients, d # c PROVE Copy(d)'
    <3>1. /\ pc'[d] = pc[d] /\ local'[d] = local[d] /\ size'[d] = size[d] /\ done'[d] = done[d]
          /\ off'[d] = off[d] /\ snap'[d] = snap[d]
          /\ clean'[d] => /\ clean[d]
                          /\ remote' = remote \/ ~UsesFile(d)
                          /\ db' = db \/ pc[d] \notin {"run", "restored"}
      BY <1>a, <1>2, <2>2, StepTyped DEF Gentle
    <3> QED BY <1>a, <3>1, OthersKept
  <2> QED BY <1>a, <2>1, <2>2 DEF IInv
<1>3. ASSUME NEW t \in Table, NEW v \in Contents, UseDatabase(t, v)
      PROVE  IInv'
  <2>1. ASSUME NEW d \in Clients PROVE Copy(d)'
    <3>1. UNCHANGED <<remote, local, pc, size, done, off, snap>>
      BY <1>3 DEF UseDatabase, counters
    <3>2. clean' = [e \in Clients |-> clean[e] /\
                       IF e = NULL THEN TRUE ELSE pc[e] \notin {"run", "restored"}]
      BY <1>3 DEF UseDatabase, WritesDb
    <3>3. clean'[d] => clean[d] /\ (d = NULL \/ pc[d] \notin {"run", "restored"})
      BY <3>2
    <3>4. d # NULL
      BY BackupAssumption
    <3> QED BY <1>a, <3>1, <3>3, <3>4, OthersKept
  <2> QED BY <1>a, <2>1 DEF IInv
<1> QED BY <1>1, <1>2, <1>3 DEF Next

\* So it always holds.
LEMMA Invariance == Spec => []IInv
BY InitInv, NextInv, PTL DEF Spec

-----------------------------------------------------------------------------
(* The results. *)

\* The types of the variables: no file and no counter outgrows a dump, no copy the
\* size that "ls -l" announced.
THEOREM BackupTypeCorrect == Spec => []TypeOK
<1>1. IInv => TypeOK
  BY DEF IInv, TypeInv
<1> QED BY Invariance, <1>1, PTL

\* However many clients and tables there are: a backup that nobody disturbed is one
\* state of all the tables it dumps.
THEOREM CleanBackup == Spec => []BackupIsState
<1>1. IInv => BackupIsState
  BY DEF IInv, Copy, BackupIsState
<1> QED BY Invariance, <1>1, PTL

\* And a restore that nobody disturbed brings back what its backup holds.
THEOREM CleanRestore == Spec => []RestoreIsBackup
<1>1. IInv => RestoreIsBackup
  BY DEF IInv, Copy, RestoreIsBackup
<1> QED BY Invariance, <1>1, PTL

\* Every step of a handler, and no step of the others, brings it nearer to its end,
\* however the file it reads or writes is changed meanwhile.
THEOREM Advance == Spec => HandlersAdvance
<1> DEFINE Moves(c) ==
             pc[c] \in Busy /\ <<pc[c], done[c], off[c]>> # <<pc'[c], done'[c], off'[c]>>
           A == \A c \in Clients : Moves(c) =>
                   StepsLeft(pc'[c], done'[c], off'[c]) < StepsLeft(pc[c], done[c], off[c])
<1>1. IInv /\ [Next]_vars => [A]_vars
  <2> SUFFICES ASSUME IInv, Next, NEW c \in Clients, Moves(c)
               PROVE  StepsLeft(pc'[c], done'[c], off'[c]) < StepsLeft(pc[c], done[c], off[c])
    OBVIOUS
  <2>1. TypeInv /\ TypeOK /\ pc[c] \in Busy
    BY DEF IInv, TypeInv
  <2>2. /\ done[c] \in 0 .. Tables /\ off[c] \in 0 .. Tables /\ Tables \in Nat /\ Tables > 0
    BY <2>1, ClientTyped
  <2>3. Handler(c)
    <3>1. ASSUME NEW d \in Clients, Handler(d) \/ ClickBackup(d) \/ ClickRestore(d) \/ Return(d)
          PROVE  d = c
      BY <2>1, <3>1, StepTyped DEF Gentle
    <3>2. ASSUME NEW t \in Table, NEW v \in Contents, UseDatabase(t, v) PROVE FALSE
      BY <3>2 DEF UseDatabase, counters
    <3>3. ~(ClickBackup(c) \/ ClickRestore(c) \/ Return(c))
      BY <2>1 DEF ClickBackup, ClickRestore, Return, Busy, Backing, Restoring, Messages
    <3> QED BY <3>1, <3>2, <3>3 DEF Next
  <2>4. ASSUME Fail(c) PROVE StepsLeft(pc'[c], done'[c], off'[c]) = 0
    BY <2>1, <2>4 DEF Fail, Goto, TypeOK, StepsLeft
  <2>5. /\ pc[c] = "exec" => StepsLeft(pc[c], done[c], off[c]) = 5 * (Tables + 1)
        /\ pc[c] = "dump" => StepsLeft(pc[c], done[c], off[c]) = 4 * (Tables + 1) + Tables - off[c]
        /\ pc[c] = "measure" => StepsLeft(pc[c], done[c], off[c]) = 4 * (Tables + 1) - 1
        /\ pc[c] \in {"open", "create"} => StepsLeft(pc[c], done[c], off[c]) = 3 * (Tables + 1)
        /\ pc[c] \in {"download", "run"} => StepsLeft(pc[c], done[c], off[c]) = 1 + Tables - done[c]
        /\ pc[c] = "upload" => StepsLeft(pc[c], done[c], off[c]) = Tables + 2 + Tables - done[c]
    BY DEF StepsLeft
  <2>6. /\ pc'[c] = "dump" => StepsLeft(pc'[c], done'[c], off'[c]) = 4 * (Tables + 1) + Tables - off'[c]
        /\ pc'[c] = "measure" => StepsLeft(pc'[c], done'[c], off'[c]) = 4 * (Tables + 1) - 1
        /\ pc'[c] = "open" => StepsLeft(pc'[c], done'[c], off'[c]) = 3 * (Tables + 1)
        /\ pc'[c] \in {"download", "run"} => StepsLeft(pc'[c], done'[c], off'[c]) = 1 + Tables - done'[c]
        /\ pc'[c] = "upload" => StepsLeft(pc'[c], done'[c], off'[c]) = Tables + 2 + Tables - done'[c]
        /\ pc'[c] \in {"saved", "restored", "failed"} => StepsLeft(pc'[c], done'[c], off'[c]) = 0
    BY DEF StepsLeft
  <2>7. pc[c] \in Busy => StepsLeft(pc[c], done[c], off[c]) > 0
    BY <2>2, <2>5 DEF Busy, Backing, Restoring
  <2>8. CASE Fail(c)
    BY <2>1, <2>4, <2>7, <2>8
  <2> HIDE DEF Moves
  <2> USE DEF Goto, NoCounters
  <2>9. CASE ~Fail(c)
    <3>1. CASE StartDump(c)
      <4>1. pc[c] = "exec" /\ pc' = [pc EXCEPT ![c] = "dump"] /\ off' = [off EXCEPT ![c] = 0]
        BY <2>9, <3>1 DEF StartDump
      <4>2. pc'[c] = "dump" /\ off'[c] = 0
        BY <2>1, <4>1 DEF TypeOK
      <4> QED BY <2>2, <2>5, <2>6, <4>1, <4>2
    <3>2. CASE DumpBlock(c)
      <4>1. pc[c] = "dump" /\ pc'[c] = "dump" /\ off'[c] = off[c] + 1
        BY <2>1, <3>2 DEF DumpBlock, TypeOK
      <4> QED BY <2>2, <2>5, <2>6, <4>1
    <3>3. CASE DumpEnd(c)
      <4>1. pc[c] = "dump" /\ pc'[c] = "measure"
        BY <2>1, <3>3 DEF DumpEnd, TypeOK
      <4> QED BY <2>2, <2>5, <2>6, <4>1
    <3>4. CASE Measure(c)
      <4>1. pc[c] = "measure" /\ pc'[c] \in {"open", "saved"}
        BY <2>1, <3>4 DEF Measure, TypeOK
      <4> QED BY <2>2, <2>5, <2>6, <4>1
    <3>5. CASE OpenLocal(c)
      <4>1. pc[c] = "open" /\ pc' = [pc EXCEPT ![c] = "download"] /\ done' = [done EXCEPT ![c] = 0]
        BY <2>9, <3>5 DEF OpenLocal
      <4>2. pc'[c] = "download" /\ done'[c] = 0
        BY <2>1, <4>1 DEF TypeOK
      <4> QED BY <2>2, <2>5, <2>6, <4>1, <4>2
    <3>6. CASE ReadBlock(c)
      <4>1. pc[c] = "download" /\ pc'[c] = "download" /\ done'[c] = done[c] + 1
        BY <2>1, <3>6 DEF ReadBlock, TypeOK
      <4> QED BY <2>2, <2>5, <2>6, <4>1
    <3>7. CASE ReadEnd(c)
      <4>1. pc'[c] = "saved"
        BY <2>1, <3>7 DEF ReadEnd, TypeOK
      <4> QED BY <2>1, <2>6, <2>7, <4>1
    <3>8. CASE CreateRemote(c)
      <4>1. /\ pc[c] = "create" /\ done' = [done EXCEPT ![c] = 0]
            /\ pc' = [pc EXCEPT ![c] = "upload"] \/ pc' = [pc EXCEPT ![c] = "failed"]
        BY <2>9, <3>8 DEF CreateRemote
      <4>2. pc'[c] \in {"upload", "failed"} /\ done'[c] = 0
        BY <2>1, <4>1 DEF TypeOK
      <4> QED BY <2>2, <2>5, <2>6, <4>1, <4>2
    <3>9. CASE WriteBlock(c)
      <4>1. pc[c] = "upload" /\ pc'[c] = "upload" /\ done'[c] = done[c] + 1
        BY <2>1, <3>9 DEF WriteBlock, TypeOK
      <4> QED BY <2>2, <2>5, <2>6, <4>1
    <3>10. CASE StartMysql(c)
      <4>1. pc[c] = "upload" /\ pc' = [pc EXCEPT ![c] = "run"] /\ done' = [done EXCEPT ![c] = 0]
        BY <2>9, <3>10 DEF StartMysql
      <4>2. pc'[c] = "run" /\ done'[c] = 0
        BY <2>1, <4>1 DEF TypeOK
      <4> QED BY <2>2, <2>5, <2>6, <4>1, <4>2
    <3>11. CASE RunBlock(c)
      <4>1. pc[c] = "run" /\ pc'[c] = "run" /\ done'[c] = done[c] + 1
        BY <2>1, <3>11 DEF RunBlock, TypeOK
      <4> QED BY <2>2, <2>5, <2>6, <4>1
    <3>12. CASE RunEnd(c)
      <4>1. pc'[c] = "restored"
        BY <2>1, <3>12 DEF RunEnd, TypeOK
      <4> QED BY <2>1, <2>6, <2>7, <4>1
    <3> QED BY <2>3, <3>1, <3>2, <3>3, <3>4, <3>5, <3>6, <3>7, <3>8, <3>9, <3>10, <3>11, <3>12
            DEF Handler
  <2> QED BY <2>8, <2>9
<1>2. Spec => [][A]_vars
  BY Invariance, <1>1, PTL DEF Spec
<1> QED BY <1>2, PTL DEF HandlersAdvance
=============================================================================
