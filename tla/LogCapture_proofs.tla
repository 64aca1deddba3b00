--------------------------- MODULE LogCapture_proofs ---------------------------
(***************************************************************************)
(* Proofs about LogCapture, for any number of servers, pipes, lines and      *)
(* descriptors.                                                             *)
(*                                                                          *)
(* The invariant says which descriptors the capture holds at each place of   *)
(* Stop and Start.  A number it holds stands for an end of its own pipe,     *)
(* because other threads are only given free numbers and only close their   *)
(* own; and a reader that nobody told to stop sees no end of the pipe,       *)
(* because the capture still holds the write end: only an error ends it.     *)
(***************************************************************************)
EXTENDS LogCapture, SequenceTheorems, TLAPS

DescriptorInv ==
    /\ write_fd # NoFd => fd[write_fd] = WriteEnd(pipe)
    /\ read_fd # NoFd => fd[read_fd] = ReadEnd(pipe)
    /\ at \in {"stop_join", "stop_end", "start"} => write_fd = NoFd
    /\ at = "start" => read_fd = NoFd
    /\ at = "logfd" => write_fd # NoFd /\ read_fd # NoFd
    /\ at \in {"start", "logfd"} => for # None

ReaderInv ==
    /\ at \in {"stop_close", "stop_join", "stop_end", "start"} => stop_reader
    /\ at \in {"stop_end", "start", "logfd"} => reader = "none"
    /\ reader # "none" => read_fd # NoFd
    /\ reader # "none" /\ ~stop_reader => write_fd # NoFd
    /\ reader = "ended" => stop_reader \/ reader_failed
    /\ at = "logfd" => ~reader_failed

ServerInv ==
    \A h \in open \ stopped :
        logfd[h] # NoFd => logfd[h] = write_fd /\ (reader_failed \/ reader # "none")

IInv == TypeOK /\ DescriptorInv /\ ReaderInv /\ ServerInv

USE DEF captureVars, readerVars, callVars, serverVars, history

-----------------------------------------------------------------------------
(* What a number stands for.                                                *)
LEMMA FileKinds ==
    /\ Free \in Files /\ Foreign \in Files /\ Free # Foreign
    /\ \A p : WriteEnd(p) # ReadEnd(p) /\ WriteEnd(p) \notin {Free, Foreign} /\ ReadEnd(p) \notin {Free, Foreign}
    /\ \A p : ReadEnd(p)[1] = p
    /\ \A p, q : ReadEnd(p) # WriteEnd(q)
    /\ \A p \in Starts : WriteEnd(p) \in Files /\ ReadEnd(p) \in Files
    /\ \A p : ReadEnd(p) \in Files => p \in Starts
    /\ NoFd \notin Fds
  BY DEF Files, Free, Foreign, WriteEnd, ReadEnd, NoFd, Fds

-----------------------------------------------------------------------------
(* Types.                                                                   *)
LEMMA ExtractType == TypeOK => ExtractLoginURL = <<>> \/ ExtractLoginURL \in Handles \X BOOLEAN
<1> SUFFICES ASSUME TypeOK PROVE ExtractLoginURL = <<>> \/ ExtractLoginURL \in Handles \X BOOLEAN
  OBVIOUS
<1> DEFINE First(i) == log_buffer[i][2] = "url" /\ \A j \in 1 .. i - 1 : log_buffer[j][2] # "url"
<1>1. CASE \E i \in DOMAIN log_buffer : First(i)
  <2> DEFINE k == CHOOSE i \in DOMAIN log_buffer : First(i)
  <2>1. k \in DOMAIN log_buffer
    BY <1>1
  <2>2. log_buffer[k] \in Pieces
    BY <2>1, ElementOfSeq, LenProperties DEF TypeOK
  <2>3. log_buffer[k][1] \in Handles
    BY <2>2 DEF Pieces
  <2>4. ExtractLoginURL = <<log_buffer[k][1], k < Len(log_buffer)>>
    BY <1>1 DEF ExtractLoginURL
  <2>5. (k < Len(log_buffer)) \in BOOLEAN
    OBVIOUS
  <2> HIDE DEF k
  <2> QED BY <2>3, <2>4, <2>5
<1>2. CASE ~ \E i \in DOMAIN log_buffer : First(i)
  BY <1>2 DEF ExtractLoginURL
<1> QED BY <1>1, <1>2

LEMMA TypeInit == Init => TypeOK
<1> SUFFICES ASSUME Init PROVE TypeOK
  OBVIOUS
<1>1. log_buffer \in Seq(Pieces) /\ chunk \in Seq(Pieces) /\ content \in [Starts -> Seq(Pieces)]
  BY EmptySeq DEF Init
<1>2. fd \in [Fds -> Files] /\ {read_fd, write_fd} \subseteq Fds \cup {NoFd}
  BY FileKinds DEF Init
<1>3. /\ pipe \in 0 .. MaxStarts /\ {for, handle} \subseteq Handles \cup {None}
      /\ logfd \in [Handles -> Fds \cup {NoFd}] /\ lines \in [Handles -> 0 .. MaxLines]
  BY CaptureAssumption DEF Init, None
<1>4. open \cup stopped \subseteq Handles
  BY DEF Init
<1>5. stop_reader \in BOOLEAN /\ reader_failed \in BOOLEAN /\ reader = "none" /\ at = "idle" /\ pending_login_url = <<>>
  BY DEF Init
<1> QED BY <1>1, <1>2, <1>3, <1>4, <1>5 DEF TypeOK

LEMMA TypeStep ==
    ASSUME TypeOK, DescriptorInv, [Next]_vars
    PROVE  TypeOK'
<1> USE DEF TypeOK
<1>1. CASE BeginLogin
  BY <1>1 DEF BeginLogin
<1>2. CASE BeginShutdown
  BY <1>2 DEF BeginShutdown
<1>3. CASE StopClose
  BY <1>3, FileKinds DEF StopClose, Closed
<1>4. CASE StopJoin
  BY <1>4 DEF StopJoin
<1>5. CASE StopEnd
  <2>1. content' \in [Starts -> Seq(Pieces)]
    BY <1>5, EmptySeq DEF StopEnd
  <2>2. fd' \in [Fds -> Files] /\ {read_fd', write_fd'} \subseteq Fds \cup {NoFd}
    BY <1>5, FileKinds DEF StopEnd, Closed
  <2> QED BY <1>5, <2>1, <2>2 DEF StopEnd
<1>6. CASE StartPipe
  <2>1. PICK r, w \in FreeFds : /\ fd' = [fd EXCEPT ![r] = ReadEnd(pipe + 1), ![w] = WriteEnd(pipe + 1)]
                                /\ read_fd' = r /\ write_fd' = w
    BY <1>6 DEF StartPipe
  <2>2. pipe' = pipe + 1 /\ pipe + 1 \in Starts
    BY <1>6, CaptureAssumption DEF StartPipe, Starts
  <2> DEFINE p == pipe + 1
  <2>3. ReadEnd(p) \in Files /\ WriteEnd(p) \in Files /\ r \in Fds /\ w \in Fds
    BY <2>2, FileKinds DEF FreeFds
  <2>5. fd' \in [Fds -> Files] /\ {read_fd', write_fd'} \subseteq Fds \cup {NoFd}
    <3> HIDE DEF p
    <3> QED BY <2>1, <2>3 DEF p
  <2>4. pipe' \in 0 .. MaxStarts
    BY <2>2, CaptureAssumption DEF Starts
  <2> QED BY <1>6, <2>4, <2>5 DEF StartPipe
<1>7. CASE StartPipeFails
  BY <1>7 DEF StartPipeFails
<1>8. CASE SetLogFd
  BY <1>8, EmptySeq DEF SetLogFd
<1>20. CASE SetLogFdThrows
  BY <1>20 DEF SetLogFdThrows
<1>9. CASE SetLogFdFails
  BY <1>9, FileKinds DEF SetLogFdFails
<1>10. CASE PollUrl
  BY <1>10, ExtractType DEF PollUrl
<1>11. CASE LoopTest
  BY <1>11 DEF LoopTest
<1>12. CASE ReadChunk
  <2> DEFINE p == Source[1]
  <2>1. PICK n \in 1 .. Len(content[p]) :
          /\ chunk' = SubSeq(content[p], 1, n)
          /\ content' = [content EXCEPT ![p] = SubSeq(@, n + 1, Len(@))]
    BY <1>12 DEF ReadChunk
  <2>2. p \in Starts
    BY <1>12, FileKinds DEF ReadChunk, Source
  <2>3. content[p] \in Seq(Pieces) /\ Len(content[p]) \in Nat
    BY <2>2, LenProperties
  <2>4. \A i \in 1 .. Len(content[p]) : content[p][i] \in Pieces
    BY <2>3, ElementOfSeq
  <2>5. chunk' \in Seq(Pieces) /\ SubSeq(content[p], n + 1, Len(content[p])) \in Seq(Pieces)
    BY <2>1, <2>3, <2>4, SubSeqProperties
  <2>6. content' \in [Starts -> Seq(Pieces)]
    BY <2>1, <2>5
  <2> QED BY <1>12, <2>5, <2>6 DEF ReadChunk
<1>13. CASE ReadEnds \/ ReadFails
  BY <1>13 DEF ReadEnds, ReadFails
<1>14. CASE AppendToBuffer
  BY <1>14, EmptySeq, ConcatProperties DEF AppendToBuffer
<1>15. ASSUME NEW h \in Handles, PrintUrl(h) PROVE TypeOK'
  <2> DEFINE line == <<<<h, "url">>, <<h, "end">>>>
  <2>1. line \in Seq(Pieces)
    BY DEF Pieces
  <2>2. \A p \in Starts : content[p] \o line \in Seq(Pieces)
    BY <2>1, ConcatProperties
  <2>3. content' = [p \in Starts |-> IF fd[logfd[h]] = WriteEnd(p) THEN content[p] \o line ELSE content[p]]
    BY <1>15 DEF PrintUrl
  <2>4. content' \in [Starts -> Seq(Pieces)]
    BY <2>2, <2>3
  <2>5. lines' \in [Handles -> 0 .. MaxLines]
    BY <1>15, CaptureAssumption DEF PrintUrl
  <2> QED BY <1>15, <2>4, <2>5 DEF PrintUrl
<1>16. ASSUME NEW h \in Handles, ServerClosed(h) PROVE TypeOK'
  BY <1>16 DEF ServerClosed
<1>17. CASE ForeignOpen
  BY <1>17, FileKinds DEF ForeignOpen
<1>18. ASSUME NEW n \in Fds, ForeignClose(n) PROVE TypeOK'
  BY <1>18, FileKinds DEF ForeignClose, Closed
<1>19. CASE UNCHANGED vars
  BY <1>19 DEF vars
<1> QED
  BY <1>1, <1>2, <1>3, <1>4, <1>5, <1>6, <1>7, <1>8, <1>9, <1>10, <1>11, <1>12, <1>13,
     <1>14, <1>15, <1>16, <1>17, <1>18, <1>19, <1>20 DEF Next, CallerStep, ReaderLoop

-----------------------------------------------------------------------------
(* The descriptors.                                                         *)
LEMMA InvInit == Init => DescriptorInv /\ ReaderInv /\ ServerInv
  BY DEF Init, DescriptorInv, ReaderInv, ServerInv

LEMMA DescriptorStep ==
    ASSUME TypeOK, DescriptorInv, ReaderInv, [Next]_vars
    PROVE  DescriptorInv'
<1> USE DEF DescriptorInv, TypeOK
<1>1. CASE BeginLogin
  BY <1>1 DEF BeginLogin
<1>2. CASE BeginShutdown
  BY <1>2 DEF BeginShutdown
<1>3. CASE StopClose
  <2>1. read_fd # NoFd /\ write_fd # NoFd => read_fd # write_fd
    BY FileKinds
  <2> QED BY <1>3, <2>1 DEF StopClose, Closed
<1>4. CASE StopJoin
  BY <1>4 DEF StopJoin
<1>5. CASE StopEnd
  BY <1>5 DEF StopEnd
<1>6. CASE StartPipe
  <2>1. PICK r, w \in FreeFds : /\ r < w
                                /\ fd' = [fd EXCEPT ![r] = ReadEnd(pipe + 1), ![w] = WriteEnd(pipe + 1)]
                                /\ read_fd' = r /\ write_fd' = w
    BY <1>6 DEF StartPipe
  <2>2. r # w /\ r \in Fds /\ w \in Fds /\ r # NoFd /\ w # NoFd
    BY <2>1, FileKinds DEF FreeFds, Fds
  <2>3. fd'[r] = ReadEnd(pipe + 1) /\ fd'[w] = WriteEnd(pipe + 1)
    BY <2>1, <2>2
  <2> QED BY <1>6, <2>1, <2>2, <2>3 DEF StartPipe
<1>7. CASE StartPipeFails
  BY <1>7 DEF StartPipeFails
<1>8. CASE SetLogFd \/ SetLogFdThrows
  BY <1>8 DEF SetLogFd, SetLogFdThrows
<1>9. CASE SetLogFdFails
  BY <1>9 DEF SetLogFdFails
<1>10. CASE PollUrl
  BY <1>10 DEF PollUrl
<1>11. CASE UNCHANGED <<fd, at, for, read_fd, write_fd, pipe>>
  BY <1>11
<1>12. CASE ForeignOpen
  BY <1>12, FileKinds DEF ForeignOpen, FreeFds
<1>13. ASSUME NEW n \in Fds, ForeignClose(n) PROVE DescriptorInv'
  BY <1>13, FileKinds DEF ForeignClose, Closed
<1> QED
  BY <1>1, <1>2, <1>3, <1>4, <1>5, <1>6, <1>7, <1>8, <1>9, <1>10, <1>11, <1>12, <1>13
  DEF Next, CallerStep, ReaderLoop, LoopTest, ReadChunk, ReadEnds, ReadFails, AppendToBuffer, PrintUrl, ServerClosed, vars

(* The reader ends only after stop_reader was set or with an error: it holds *)
(* a read end, and the capture the pipe's write end.                        *)
LEMMA ReaderStep ==
    ASSUME TypeOK, DescriptorInv, ReaderInv, [Next]_vars
    PROVE  ReaderInv'
<1> USE DEF ReaderInv, TypeOK
<1>1. CASE BeginLogin
  BY <1>1 DEF BeginLogin
<1>2. CASE BeginShutdown
  BY <1>2 DEF BeginShutdown
<1>3. CASE StopClose
  BY <1>3 DEF StopClose
<1>4. CASE StopJoin
  BY <1>4 DEF StopJoin
<1>5. CASE StopEnd
  BY <1>5 DEF StopEnd
<1>6. CASE StartPipe
  BY <1>6 DEF StartPipe
<1>7. CASE StartPipeFails
  BY <1>7 DEF StartPipeFails
<1>8. CASE SetLogFd \/ SetLogFdThrows
  BY <1>8 DEF SetLogFd, SetLogFdThrows, DescriptorInv
<1>9. CASE SetLogFdFails
  BY <1>9 DEF SetLogFdFails
<1>10. CASE PollUrl
  BY <1>10 DEF PollUrl
<1>11. CASE LoopTest
  BY <1>11 DEF LoopTest
<1>12. CASE ReadChunk
  BY <1>12 DEF ReadChunk
<1>13. CASE ReadEnds
  <2>1. Source = ReadEnd(pipe) /\ Source # Free /\ Source[1] = pipe
    BY <1>13, FileKinds DEF ReadEnds, Source, DescriptorInv
  <2>2. \A n \in Fds : fd[n] # WriteEnd(pipe)
    BY <1>13, <2>1 DEF ReadEnds
  <2>3. write_fd = NoFd
    BY <2>2 DEF DescriptorInv
  <2> QED BY <1>13, <2>3 DEF ReadEnds
<1>16. CASE ReadFails
  BY <1>16 DEF ReadFails
<1>14. CASE AppendToBuffer
  BY <1>14 DEF AppendToBuffer
<1>15. CASE UNCHANGED <<at, captureVars, readerVars, reader_failed>>
  BY <1>15
<1> QED
  BY <1>1, <1>2, <1>3, <1>4, <1>5, <1>6, <1>7, <1>8, <1>9, <1>10, <1>11, <1>12, <1>13, <1>14, <1>15, <1>16
  DEF Next, CallerStep, ReaderLoop, PrintUrl, ServerClosed, ForeignOpen, ForeignClose, vars

LEMMA ServerStep ==
    ASSUME TypeOK, DescriptorInv, ReaderInv, ServerInv, [Next]_vars
    PROVE  ServerInv'
<1> USE DEF ServerInv, TypeOK
<1>1. CASE BeginLogin
  BY <1>1 DEF BeginLogin
<1>2. CASE BeginShutdown
  BY <1>2 DEF BeginShutdown
<1>3. CASE StopClose
  BY <1>3 DEF StopClose
<1>4. CASE StopJoin
  BY <1>4 DEF StopJoin, DescriptorInv
<1>5. CASE StopEnd
  BY <1>5 DEF StopEnd
<1>6. CASE StartPipe
  BY <1>6 DEF StartPipe, DescriptorInv
<1>7. CASE StartPipeFails
  BY <1>7 DEF StartPipeFails
<1>8. CASE SetLogFd
  BY <1>8 DEF SetLogFd, ReaderInv
<1>16. CASE SetLogFdThrows
  <2>1. /\ logfd' = [logfd EXCEPT ![for] = write_fd] /\ write_fd' = write_fd /\ open' = open
        /\ stopped' = stopped \ {for} /\ for \in Handles
    BY <1>16 DEF SetLogFdThrows, DescriptorInv
  <2>2. reader_failed' = TRUE
    BY <1>16 DEF SetLogFdThrows
  <2>3. \A h \in open' \ stopped' : logfd'[h] # NoFd => logfd'[h] = write_fd'
    BY <2>1
  <2> QED BY <2>1, <2>2, <2>3 DEF ServerInv
<1>9. CASE SetLogFdFails
  BY <1>9 DEF SetLogFdFails, ReaderInv
<1>10. CASE PollUrl
  BY <1>10 DEF PollUrl
<1>11. CASE LoopTest
  BY <1>11 DEF LoopTest
<1>12. CASE ReadChunk
  BY <1>12 DEF ReadChunk
<1>13. CASE ReadEnds \/ ReadFails
  BY <1>13 DEF ReadEnds, ReadFails
<1>14. CASE AppendToBuffer
  BY <1>14 DEF AppendToBuffer
<1>15. CASE UNCHANGED <<write_fd, reader, logfd, stopped, reader_failed>> /\ open' \subseteq open
  BY <1>15
<1> QED
  BY <1>1, <1>2, <1>3, <1>4, <1>5, <1>6, <1>7, <1>8, <1>9, <1>10, <1>11, <1>12, <1>13, <1>14, <1>15, <1>16
  DEF Next, CallerStep, ReaderLoop, PrintUrl, ServerClosed, ForeignOpen, ForeignClose, vars

-----------------------------------------------------------------------------
(* The invariant holds in every reachable state.                            *)
THEOREM Invariance == Spec => []IInv
<1>1. Init => IInv
  BY TypeInit, InvInit DEF IInv
<1>2. IInv /\ [Next]_vars => IInv'
  BY TypeStep, DescriptorStep, ReaderStep, ServerStep DEF IInv
<1> QED BY <1>1, <1>2, PTL DEF Spec

(* Every variable of the log capture has its type.                          *)
THEOREM TypeCorrect == Spec => []TypeOK
<1>1. IInv => TypeOK
  BY DEF IInv
<1> QED BY <1>1, Invariance, PTL

(* The capture's numbers stand for its own pipe: Stop closes nobody else's   *)
(* file and ReaderLoop reads nobody else's data.                            *)
THEOREM CaptureOwnsItsDescriptors == Spec => []OwnDescriptors
<1>1. IInv => OwnDescriptors
  BY DEF IInv, DescriptorInv, ReaderInv, OwnDescriptors
<1> QED BY <1>1, Invariance, PTL

(* A server whose capture was not stopped writes into the capture's pipe,    *)
(* and its reader has not ended, unless it never started or a read failed.   *)
THEOREM ServerLogIsCaptured == Spec => []LogIsCaptured
<1>1. IInv => LogIsCaptured
  BY DEF IInv, TypeOK, DescriptorInv, ReaderInv, ServerInv, LogIsCaptured
<1> QED BY <1>1, Invariance, PTL
=============================================================================
