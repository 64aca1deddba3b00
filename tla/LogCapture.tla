------------------------------ MODULE LogCapture ------------------------------
(***************************************************************************)
(* TailscaleLogCapture: a pipe whose write end is given to a tsnet server as *)
(* its log descriptor, and a thread that reads the other end into a buffer   *)
(* where the browser login URL is looked for.  BeginInteractiveLogin starts  *)
(* a capture and polls for the URL; Shutdown stops it.  Both run under       *)
(* g_tailscale_mutex, so there is one caller; LoginStatus asks at any time.  *)
(*                                                                          *)
(* Descriptors are numbers of the process, shared with every other thread    *)
(* (external: Foreign...): a number that was closed may be given out again,  *)
(* the lowest first, and a tsnet server goes on writing to the number it     *)
(* was given after Stop has closed it.                                      *)
(***************************************************************************)
EXTENDS Naturals, Sequences

CONSTANTS
    MaxHandles,     \* bound on the tsnet servers
    MaxStarts,      \* bound on the pipes
    MaxLines,       \* bound on the URL lines each server prints
    MaxFd           \* the highest descriptor number

ASSUME CaptureAssumption ==
    MaxHandles \in Nat /\ MaxStarts \in Nat /\ MaxLines \in Nat /\ MaxFd \in Nat

Handles == 1 .. MaxHandles
Starts == 1 .. MaxStarts
Fds == 1 .. MaxFd
NoFd == 0           \* read_fd = -1; for a server: it logs to stderr
None == 0           \* no handle, no pipe

(* What a number stands for: nothing, an end of a pipe, somebody's file.    *)
Free == <<0, "free">>
Foreign == <<0, "foreign">>
ReadEnd(p) == <<p, "read">>
WriteEnd(p) == <<p, "write">>
Files == {Free, Foreign} \cup (Starts \X {"read", "write"})

(* A URL line reaches the reader in one piece or in two.                    *)
Pieces == Handles \X {"url", "end"}

VARIABLES
    fd,             \* [Fds -> Files]
    content,        \* what is in each pipe
    read_fd, write_fd, stop_reader,
    log_buffer,
    pending_login_url, \* <<>>, or <<handle, whole>>
    reader,         \* where the reader thread is, "none" when not joinable
    chunk,          \* what it has read and not yet appended
    pipe,           \* the pipe of the latest Start
    at,             \* where the caller is
    for,            \* the handle BeginInteractiveLogin works on, None in Shutdown
    handle,         \* TailscaleBridge::handle
    open,           \* the servers created and not yet closed
    logfd,          \* the number each server writes to
    lines,          \* how many lines each server has printed
    stopped,        \* the servers whose latest capture was stopped (history)
    reader_failed   \* the latest capture lost its reader: no thread, or an error of read (history)

captureVars == <<read_fd, write_fd, stop_reader, pipe>>
readerVars == <<reader, chunk, log_buffer>>
callVars == <<at, for, handle, pending_login_url>>
serverVars == <<open, logfd, lines>>
history == <<stopped, reader_failed>>
vars == <<fd, content, captureVars, readerVars, callVars, serverVars, history>>

Init ==
    /\ fd = [n \in Fds |-> Free]
    /\ content = [p \in Starts |-> <<>>]
    /\ read_fd = NoFd /\ write_fd = NoFd /\ stop_reader = FALSE
    /\ log_buffer = <<>>
    /\ pending_login_url = <<>>
    /\ reader = "none" /\ chunk = <<>>
    /\ pipe = None
    /\ at = "idle" /\ for = None /\ handle = None
    /\ open = {}
    /\ logfd = [h \in Handles |-> NoFd]
    /\ lines = [h \in Handles |-> 0]
    /\ stopped = {} /\ reader_failed = FALSE

FreeFds == {n \in Fds : fd[n] = Free}
Closed(n) == [fd EXCEPT ![n] = Free]

(* ExtractLoginURL: the first URL in the buffer, up to its end or the       *)
(* buffer's.                                                                *)
ExtractLoginURL ==
    LET First(i) == log_buffer[i][2] = "url" /\ \A j \in 1 .. i - 1 : log_buffer[j][2] # "url"
    IN IF \E i \in DOMAIN log_buffer : First(i)
       THEN LET i == CHOOSE i \in DOMAIN log_buffer : First(i) IN <<log_buffer[i][1], i < Len(log_buffer)>>
       ELSE <<>>

(* LoginStatus().login_url                                                  *)
LoginUrl == IF pending_login_url = <<>> THEN ExtractLoginURL ELSE pending_login_url

-----------------------------------------------------------------------------
(* BeginInteractiveLogin up to log_capture.Start, and Shutdown: both begin   *)
(* with Stop.                                                               *)
BeginLogin ==
    /\ at = "idle"
    /\ \/ handle # None /\ UNCHANGED <<handle, open>>
       \/ /\ handle = None
          /\ \E h \in Handles :
               /\ lines[h] = 0 /\ logfd[h] = NoFd /\ h \notin open \cup stopped
               /\ \A g \in 1 .. h - 1 : logfd[g] # NoFd \/ g \in open \cup stopped
               /\ handle' = h
               /\ open' = open \cup {h}
    /\ for' = handle'
    /\ at' = "stop_close"
    /\ stop_reader' = TRUE
    /\ UNCHANGED <<fd, content, read_fd, write_fd, pipe, readerVars, pending_login_url, logfd, lines, history>>

BeginShutdown ==
    /\ at = "idle"
    /\ for' = None
    /\ at' = "stop_close"
    /\ stop_reader' = TRUE
    /\ UNCHANGED <<fd, content, read_fd, write_fd, pipe, readerVars, handle, pending_login_url, serverVars, history>>

(* Mutant: write_fd keeps the number of the descriptor that was closed.     *)
StopKeepsNumber ==
    /\ at = "stop_close"
    /\ at' = "stop_join"
    /\ fd' = IF write_fd # NoFd THEN Closed(write_fd) ELSE fd
    /\ stopped' = stopped \cup {h \in open : write_fd # NoFd /\ logfd[h] = write_fd}
    /\ UNCHANGED <<content, captureVars, readerVars, for, handle, pending_login_url, serverVars, reader_failed>>

(* Mutant: the reader is joined before the write end is closed.             *)
StopJoinsFirst ==
    /\ at = "stop_close"
    /\ reader \in {"none", "ended"}
    /\ at' = "stop_join"
    /\ fd' = IF write_fd # NoFd THEN Closed(write_fd) ELSE fd
    /\ write_fd' = NoFd
    /\ stopped' = stopped \cup {h \in open : write_fd # NoFd /\ logfd[h] = write_fd}
    /\ UNCHANGED <<content, read_fd, stop_reader, pipe, readerVars, for, handle, pending_login_url, serverVars, reader_failed>>

StopClose ==
    /\ at = "stop_close"
    /\ at' = "stop_join"
    /\ fd' = IF write_fd # NoFd THEN Closed(write_fd) ELSE fd
    /\ write_fd' = NoFd
    /\ stopped' = stopped \cup {h \in open : write_fd # NoFd /\ logfd[h] = write_fd}
    /\ UNCHANGED <<content, read_fd, stop_reader, pipe, readerVars, for, handle, pending_login_url, serverVars, reader_failed>>

StopJoin ==
    /\ at = "stop_join"
    /\ reader \in {"none", "ended"}
    /\ reader' = "none"
    /\ at' = "stop_end"
    /\ UNCHANGED <<fd, content, captureVars, chunk, log_buffer, for, handle, pending_login_url, serverVars, history>>

(* Stop ends.  In Shutdown the server is closed, in a thread of its own, and *)
(* pending_login_url is cleared.                                            *)
StopEnd ==
    /\ at = "stop_end"
    /\ fd' = IF read_fd # NoFd THEN Closed(read_fd) ELSE fd
    /\ content' = [p \in Starts |-> IF p = pipe THEN <<>> ELSE content[p]]
    /\ read_fd' = NoFd
    /\ \/ for # None /\ at' = "start" /\ UNCHANGED <<handle, pending_login_url>>
       \/ for = None /\ at' = "idle" /\ handle' = None /\ pending_login_url' = <<>>
    /\ UNCHANGED <<write_fd, stop_reader, pipe, readerVars, for, serverVars, history>>

-----------------------------------------------------------------------------
(* The rest of Start: a pipe whose ends get the two lowest free numbers, and *)
(* tailscale_set_logfd.  When one of them fails the login goes on without a  *)
(* capture.                                                                 *)
StartPipe ==
    /\ at = "start"
    /\ pipe < MaxStarts
    /\ \E r, w \in FreeFds :
         /\ r < w /\ \A n \in FreeFds \ {r} : w <= n
         /\ fd' = [fd EXCEPT ![r] = ReadEnd(pipe + 1), ![w] = WriteEnd(pipe + 1)]
         /\ read_fd' = r /\ write_fd' = w
    /\ pipe' = pipe + 1
    /\ stop_reader' = FALSE
    /\ reader_failed' = FALSE
    /\ at' = "logfd"
    /\ UNCHANGED <<content, readerVars, for, handle, pending_login_url, serverVars, stopped>>

StartPipeFails ==
    /\ at = "start"
    /\ at' = "poll"
    /\ pending_login_url' = <<>>
    /\ UNCHANGED <<fd, content, captureVars, readerVars, for, handle, serverVars, history>>

(* Mutant: the descriptor given to the server is the read end's.            *)
SetReadFd ==
    /\ at = "logfd"
    /\ logfd' = [logfd EXCEPT ![for] = read_fd]
    /\ stopped' = stopped \ {for}
    /\ reader' = "loop" /\ chunk' = <<>>
    /\ at' = "poll"
    /\ pending_login_url' = <<>>
    /\ UNCHANGED <<fd, content, captureVars, log_buffer, for, handle, open, lines, reader_failed>>

SetLogFd ==
    /\ at = "logfd"
    /\ logfd' = [logfd EXCEPT ![for] = write_fd]
    /\ stopped' = stopped \ {for}
    /\ reader' = "loop" /\ chunk' = <<>>
    /\ at' = "poll"
    /\ pending_login_url' = <<>>
    /\ UNCHANGED <<fd, content, captureVars, log_buffer, for, handle, open, lines, reader_failed>>

(* The reader thread cannot be created: Start throws, and the server keeps  *)
(* the write end.                                                           *)
SetLogFdThrows ==
    /\ at = "logfd"
    /\ logfd' = [logfd EXCEPT ![for] = write_fd]
    /\ stopped' = stopped \ {for}
    /\ reader_failed' = TRUE
    /\ at' = "idle"
    /\ UNCHANGED <<fd, content, captureVars, readerVars, for, handle, pending_login_url, open, lines>>

SetLogFdFails ==
    /\ at = "logfd"
    /\ fd' = [fd EXCEPT ![read_fd] = Free, ![write_fd] = Free]
    /\ read_fd' = NoFd /\ write_fd' = NoFd
    /\ at' = "poll"
    /\ pending_login_url' = <<>>
    /\ UNCHANGED <<content, stop_reader, pipe, readerVars, for, handle, serverVars, history>>

(* A turn of the polling loop: it ends with a URL, or when the node runs or  *)
(* the turns are used up.                                                   *)
PollUrl ==
    /\ at = "poll"
    /\ pending_login_url' = ExtractLoginURL
    /\ at' = "idle"
    /\ UNCHANGED <<fd, content, captureVars, readerVars, for, handle, serverVars, history>>

CallerStep ==
    \/ StopClose \/ StopJoin \/ StopEnd
    \/ StartPipe \/ StartPipeFails \/ SetLogFd \/ SetLogFdThrows \/ SetLogFdFails \/ PollUrl

-----------------------------------------------------------------------------
(* ReaderLoop                                                               *)
LoopTest ==
    /\ reader = "loop"
    /\ reader' = IF stop_reader \/ read_fd = NoFd THEN "ended" ELSE "read"
    /\ UNCHANGED <<fd, content, captureVars, chunk, log_buffer, callVars, serverVars, history>>

(* read: some of what is in the pipe (it takes up to 512 bytes), or the end  *)
(* when no descriptor is the pipe's write end.                              *)
Source == IF read_fd = NoFd THEN Free ELSE fd[read_fd]

ReadChunk ==
    /\ reader = "read"
    /\ Source = ReadEnd(Source[1])
    /\ \E n \in 1 .. Len(content[Source[1]]) :
         /\ chunk' = SubSeq(content[Source[1]], 1, n)
         /\ content' = [content EXCEPT ![Source[1]] = SubSeq(@, n + 1, Len(@))]
    /\ reader' = "append"
    /\ UNCHANGED <<fd, captureVars, log_buffer, callVars, serverVars, history>>

ReadEnds ==
    /\ reader = "read"
    /\ \/ Source = Free
       \/ Source = ReadEnd(Source[1]) /\ content[Source[1]] = <<>> /\ \A n \in Fds : fd[n] # WriteEnd(Source[1])
    /\ reader' = "ended"
    /\ UNCHANGED <<fd, content, captureVars, chunk, log_buffer, callVars, serverVars, history>>

(* read returns an error, which ends the loop as well.                      *)
ReadFails ==
    /\ reader = "read"
    /\ reader' = "ended"
    /\ reader_failed' = TRUE
    /\ UNCHANGED <<fd, content, captureVars, chunk, log_buffer, callVars, serverVars, stopped>>

(* Mutant: a line that is not complete is dropped.                          *)
AppendLines ==
    /\ reader = "append"
    /\ log_buffer' = IF chunk[Len(chunk)][2] = "end" THEN log_buffer \o chunk ELSE log_buffer
    /\ chunk' = <<>>
    /\ reader' = "loop"
    /\ UNCHANGED <<fd, content, captureVars, callVars, serverVars, history>>

AppendToBuffer ==
    /\ reader = "append"
    /\ log_buffer' = log_buffer \o chunk
    /\ chunk' = <<>>
    /\ reader' = "loop"
    /\ UNCHANGED <<fd, content, captureVars, callVars, serverVars, history>>

ReaderLoop == LoopTest \/ ReadChunk \/ ReadEnds \/ ReadFails \/ AppendToBuffer

-----------------------------------------------------------------------------
(* tsnet prints the line with its URL to the number it was given.           *)
PrintUrl(h) ==
    /\ h \in open /\ logfd[h] # NoFd /\ lines[h] < MaxLines
    /\ lines' = [lines EXCEPT ![h] = @ + 1]
    /\ content' = [p \in Starts |->
                     IF fd[logfd[h]] = WriteEnd(p) THEN content[p] \o <<<<h, "url">>, <<h, "end">>>> ELSE content[p]]
    /\ UNCHANGED <<fd, captureVars, readerVars, callVars, open, logfd, history>>

ServerClosed(h) ==
    /\ h \in open /\ h # handle
    /\ open' = open \ {h}
    /\ UNCHANGED <<fd, content, captureVars, readerVars, callVars, logfd, lines, history>>

(* Another thread of the process opens or closes a file.                    *)
ForeignOpen ==
    /\ \E n \in FreeFds :
         /\ \A m \in FreeFds : n <= m
         /\ fd' = [fd EXCEPT ![n] = Foreign]
    /\ UNCHANGED <<content, captureVars, readerVars, callVars, serverVars, history>>

ForeignClose(n) ==
    /\ fd[n] = Foreign
    /\ fd' = Closed(n)
    /\ UNCHANGED <<content, captureVars, readerVars, callVars, serverVars, history>>

Next ==
    \/ BeginLogin \/ BeginShutdown \/ CallerStep \/ ReaderLoop
    \/ \E h \in Handles : PrintUrl(h) \/ ServerClosed(h)
    \/ ForeignOpen \/ \E n \in Fds : ForeignClose(n)

(* The caller's and the reader's threads run; no read is sure to fail.       *)
Fairness == WF_vars(CallerStep) /\ WF_vars(LoopTest \/ ReadChunk \/ ReadEnds \/ AppendToBuffer)

Spec == Init /\ [][Next]_vars /\ Fairness

-----------------------------------------------------------------------------
TypeOK ==
    /\ fd \in [Fds -> Files]
    /\ content \in [Starts -> Seq(Pieces)]
    /\ {read_fd, write_fd} \subseteq Fds \cup {NoFd}
    /\ stop_reader \in BOOLEAN
    /\ log_buffer \in Seq(Pieces) /\ chunk \in Seq(Pieces)
    /\ pending_login_url = <<>> \/ pending_login_url \in Handles \X BOOLEAN
    /\ reader \in {"none", "loop", "read", "append", "ended"}
    /\ pipe \in 0 .. MaxStarts
    /\ at \in {"idle", "stop_close", "stop_join", "stop_end", "start", "logfd", "poll"}
    /\ {for, handle} \subseteq Handles \cup {None}
    /\ logfd \in [Handles -> Fds \cup {NoFd}]
    /\ lines \in [Handles -> 0 .. MaxLines]
    /\ open \cup stopped \subseteq Handles
    /\ reader_failed \in BOOLEAN

(* The numbers the capture holds are the two ends of its own pipe, whatever  *)
(* other threads open and close: it never closes somebody's file, and its    *)
(* reader, which has its own pipe until it ends, never reads from one.      *)
OwnDescriptors ==
    /\ write_fd # NoFd => fd[write_fd] = WriteEnd(pipe)
    /\ read_fd # NoFd => fd[read_fd] = ReadEnd(pipe)
    /\ reader \in {"read", "append"} => read_fd # NoFd

(* Until its capture is stopped, what a server prints goes into the          *)
(* capture's pipe, never into somebody's file, and the reader is there to    *)
(* take it, unless its thread could not be created or a read failed.         *)
LogIsCaptured ==
    \A h \in open \ stopped :
        logfd[h] # NoFd =>
            /\ fd[logfd[h]] = WriteEnd(pipe)
            /\ reader_failed \/ (reader # "none" /\ (reader = "ended" => stop_reader))

(* Stop returns, and with it tailscale_down and the start of a login.       *)
StopReturns == at \in {"stop_close", "stop_join", "stop_end"} ~> at \in {"idle", "start"}

(* No login URL has been captured yet, and the next one in the capture's     *)
(* pipe is that of server h.                                                *)
NextUrlIs(h) ==
    /\ \E p \in Starts : p = pipe /\ content[p] # <<>> /\ content[p][1] = <<h, "url">>
    /\ reader # "none"
    /\ \A i \in DOMAIN log_buffer : log_buffer[i][2] # "url"
    /\ \A i \in DOMAIN chunk : chunk[i][2] # "url"

(* The first login URL printed is the one that tailscale_login_status shows, *)
(* whole, in however many pieces it arrives; unless the capture is stopped   *)
(* before, or its reader fails, or the polling loop of the login found the   *)
(* URL between two pieces and keeps what was there of it.                    *)
PrintedIsShown ==
    \A h \in Handles :
        NextUrlIs(h) ~> (LoginUrl = <<h, TRUE>> \/ pending_login_url = <<h, FALSE>> \/ stop_reader \/ reader_failed)

(* REFERENCE.md, of the login URL: "Browser authentication URL", here of the *)
(* node that is logging in.                                                 *)
ShownUrlIsTheNodes == handle # None /\ LoginUrl # <<>> => LoginUrl[1] = handle

(* A stopped server writes to nobody else's file.                           *)
LogReachesNobodyElse == \A h \in open : logfd[h] # NoFd => fd[logfd[h]] # Foreign
=============================================================================
