------------------------------- MODULE RmtLink -------------------------------
(***************************************************************************)
(* The link to RMTMAN, when the agent is started in that mode: the socket, *)
(* the thread that connects it, reads from it and cuts what it reads into  *)
(* frames, and the thread that writes.  Both threads look at the state of  *)
(* the connection and set the flag that the rest of the agent is to see.   *)
(* Meanwhile main comes to the two calls it has for this mode, which touch *)
(* the socket as well, and then ends the process.                          *)
(*                                                                         *)
(* The peer and the sockets of the system are external.  Connections break *)
(* and are refused at any time.  Once a copy leaves its buffers nothing is *)
(* said of the process any more ("undefined").                             *)
(***************************************************************************)
EXTENDS Integers, Sequences

CONSTANTS
  RECVBUFLEN,   \* the size of the two buffers (16384 in the code)
  Base,         \* a byte is one of 0 .. Base - 1 (256)
  Byte,         \* the values of a byte that occur, 0 among them
  FRAME_HEAD,   \* the first byte of a frame
  Overhead,     \* what a frame has besides the bytes its length counts (6)
  Chunk,        \* bound: the bytes of one read (RECVBUFLEN in the code)
  Descriptor    \* the numbers socket() may return; 0 is one of them when the
                \* process has nothing else open under that number

\* The values of a uint16_t.
Word == Base * Base

ASSUME RmtAssumption ==
  /\ RECVBUFLEN \in Nat /\ RECVBUFLEN > 2 /\ 2 * RECVBUFLEN < Word
  /\ Base \in Nat \ {0} /\ Byte \subseteq 0 .. Base - 1
  /\ 0 \in Byte /\ FRAME_HEAD \in Byte \ {0}
  /\ Overhead \in Nat /\ Overhead > 2 /\ 2 * (Base + Overhead) <= Word
  /\ Chunk \in 1 .. RECVBUFLEN
  /\ Descriptor \subseteq Nat

VARIABLES
  m_socket,            \* the descriptor, 0 for none
  m_ConnectState,      \* SOCKET_NOTCONNECTTED, _CONNECTTING, _CONNECTNORMAL
  open,                \* external: the sockets the process has open
  g_rmt_connect_flag,  \* DEVICE_ONLINE or DEVICE_OFFLINE
  pcR, pcW, pcM,       \* where the reading thread, the writing thread, main are
  m_byRecvBuf,         \* bytes received and not yet cut into frames
  m_usRecvCnt,         \* how many they are
  m_usProcCnt,         \* how many bytes before them are done with
  m_byAssistBuf,       \* the bytes of the last read
  m_usAssistCnt,       \* how many they are
  recent,              \* history: the end of what was received, as far back as to
                       \* what waited when a read was last dealt with
  late                 \* history: the flag is what the writing thread has made of
                       \* an earlier loss when there was a new connection

socket == <<m_socket, m_ConnectState, open>>
frames == <<m_byRecvBuf, m_usRecvCnt, m_usProcCnt, m_byAssistBuf, m_usAssistCnt, recent>>
flag   == <<g_rmt_connect_flag, late>>
vars   == <<socket, flag, pcR, pcW, pcM, frames>>

ConnectState == {"NOTCONNECTTED", "CONNECTTING", "CONNECTNORMAL"}
Index        == 0 .. RECVBUFLEN - 1
Zeroed       == [i \in Index |-> 0]
Shorter(a, b) == IF a < b THEN a ELSE b

-----------------------------------------------------------------------------
(* rmt_socket                                                              *)

\* A variant of sg_cloese_socket that is wrong: the state is left as it was.
CloseOnly ==
  /\ open' = open \ {m_socket}
  /\ m_socket' = 0
  /\ UNCHANGED m_ConnectState

sg_cloese_socket ==
  IF m_socket = 0 THEN UNCHANGED socket
  ELSE /\ open' = open \ {m_socket}
       /\ m_socket' = 0
       /\ m_ConnectState' = "NOTCONNECTTED"

\* What socket() returns when the sockets in o are open; -1 stands for every
\* failure, one to make the descriptor nonblocking included.
SocketResult(o) == (Descriptor \ o) \union {-1}

\* sg_init_socket has got n, with the sockets in o open.
Got(n, o) ==
  /\ open' = IF n > 0 THEN o \union {n} ELSE o
  /\ m_socket' = IF n > 0 THEN n ELSE 0
  /\ pcR' = IF n > 0 THEN "dial" ELSE "return"

\* sg_init_socket.  0 stands for no socket; when socket() returns it, another
\* one is made and that one stays open.
Create ==
  /\ pcR = "socket"
  /\ \/ m_socket # 0 /\ UNCHANGED <<m_socket, open>> /\ pcR' = "dial"
     \/ /\ m_socket = 0
        /\ \E n \in SocketResult(open) :
             IF n # 0 THEN Got(n, open)
             ELSE \E k \in SocketResult(open \union {0}) : Got(k, open \union {0})
  /\ UNCHANGED <<m_ConnectState, flag, pcW, pcM, frames>>

\* connect(): refused, made at once, or under way.
Dial ==
  /\ pcR = "dial"
  /\ \/ sg_cloese_socket /\ pcR' = "return"
     \/ m_socket \in open /\ UNCHANGED socket /\ pcR' \in {"made", "underway"}
  /\ UNCHANGED <<flag, pcW, pcM, frames>>

\* The state is set to what came of it.
Dialled ==
  /\ pcR \in {"made", "underway"}
  /\ m_ConnectState' = IF pcR = "made" THEN "CONNECTNORMAL" ELSE "CONNECTTING"
  /\ pcR' = "return"
  /\ UNCHANGED <<m_socket, open, flag, pcW, pcM, frames>>

\* sg_connect_socket when a connection is under way: if it can be written to it
\* counts as made, ...
Select ==
  /\ pcR = "select"
  /\ \/ sg_cloese_socket /\ pcR' = "return"
     \/ /\ m_ConnectState' = "CONNECTNORMAL" /\ pcR' = "verify"
        /\ UNCHANGED <<m_socket, open>>
  /\ UNCHANGED <<flag, pcW, pcM, frames>>

\* A variant of Verify that is wrong: what it returns does not say it is connected.
VerifyQuiet ==
  /\ pcR = "verify"
  /\ \/ sg_cloese_socket /\ pcR' = "return"
     \/ m_socket \in open /\ UNCHANGED socket /\ pcR' = "look"
  /\ UNCHANGED <<flag, pcW, pcM, frames>>

\* ... and is closed if it then turns out to have an error.
Verify ==
  /\ pcR = "verify"
  /\ \/ sg_cloese_socket /\ pcR' = "return"
     \/ m_socket \in open /\ UNCHANGED socket /\ pcR' = "made"
  /\ UNCHANGED <<flag, pcW, pcM, frames>>

-----------------------------------------------------------------------------
(* sg_rpc_read_data_thread                                                 *)

\* The state says whether to connect, and sg_connect_socket what there is to do.
ReadCheck ==
  /\ pcR = "check"
  /\ pcR' = CASE m_ConnectState = "CONNECTNORMAL" -> "look"
              [] m_ConnectState = "CONNECTTING"   -> "select"
              [] m_ConnectState = "NOTCONNECTTED" -> "socket"
  /\ UNCHANGED <<socket, flag, pcW, pcM, frames>>

\* What sg_connect_socket returns is the state.
Return ==
  /\ pcR = "return"
  /\ pcR' = IF m_ConnectState = "CONNECTNORMAL" THEN "online" ELSE "look"
  /\ UNCHANGED <<socket, flag, pcW, pcM, frames>>

Online ==
  /\ pcR = "online"
  /\ g_rmt_connect_flag' = "ONLINE" /\ late' = FALSE
  /\ pcR' = "look"
  /\ UNCHANGED <<socket, pcW, pcM, frames>>

ReadLook ==
  /\ pcR = "look"
  /\ pcR' = IF m_ConnectState = "CONNECTNORMAL" THEN "read" ELSE "check"
  /\ UNCHANGED <<socket, flag, pcW, pcM, frames>>

\* sg_read_data finds nothing, or an error (a peer that has closed counts as
\* one, unless errno is left over from an earlier call) and closes the socket.
ReadNothing ==
  /\ pcR = "read"
  /\ sg_cloese_socket \/ UNCHANGED socket
  /\ pcR' = "after"
  /\ UNCHANGED <<flag, pcW, pcM, frames>>

\* sg_read_data returns bytes; sg_recvive and sg_set_recv_cnt take them over.
\* How many is not limited by those that wait: the counts may pass RECVBUFLEN.
ReadBytes ==
  /\ pcR = "read" /\ m_socket \in open
  /\ \E n \in 1 .. Chunk : \E s \in [1 .. n -> Byte] :
       /\ m_byAssistBuf' = [i \in Index |-> IF i < n THEN s[i + 1] ELSE m_byAssistBuf[i]]
       /\ m_usAssistCnt' = m_usAssistCnt + n
       /\ m_usRecvCnt' = m_usRecvCnt + n
       /\ recent' = recent \o s
  /\ pcR' = "join"
  /\ UNCHANGED <<socket, flag, pcW, pcM, m_byRecvBuf, m_usProcCnt>>

\* n bytes of buffer b are copied, from position from, into buffer a, to
\* position to.
Copied(a, to, b, from, n) ==
  [i \in Index |-> IF to <= i /\ i < to + n /\ from + i - to \in Index
                   THEN b[from + i - to] ELSE a[i]]

\* A variant of TailOf that is wrong: it forgets that the count has grown.
TailAfter(count, new) == Shorter(count, RECVBUFLEN - new)

\* Where the bytes of a read go in the buffer, of whose count they are part.
TailOf(count, new) == count - new

\* ProcBuf.  Bytes for which there is no room are copied behind the buffer.
Join ==
  /\ pcR = "join"
  /\ IF m_usRecvCnt > RECVBUFLEN
     THEN pcR' = "undefined" /\ UNCHANGED frames
     ELSE /\ m_byRecvBuf' = Copied(m_byRecvBuf, TailOf(m_usRecvCnt, m_usAssistCnt),
                                   m_byAssistBuf, 0, m_usAssistCnt)
          /\ m_byAssistBuf' = Zeroed /\ m_usAssistCnt' = 0
          /\ pcR' = "unpack"
          /\ UNCHANGED <<m_usRecvCnt, m_usProcCnt, recent>>
  /\ UNCHANGED <<socket, flag, pcW, pcM>>

\* What an int16_t makes of n, which is less than a word and a half.
AsInt16(n) == IF 2 * n < Word THEN n ELSE n - Word

\* The length of a frame, from the two bytes that follow its first one: taken for
\* an int16_t, before Overhead is added and after.
nFrmLength(lo, hi) == AsInt16(lo + Base * hi + Overhead)

\* The byte at position i of m_byRecvBuf; behind it, whatever is there.
ByteAt(i) == IF i \in Index THEN {m_byRecvBuf[i]} ELSE Byte

\* A variant of Complete that is wrong: the last byte of the buffer never counts.
CompleteEarly(n) == n < m_usRecvCnt

\* The bytes that wait are enough for a frame of length n.
Complete(n) == n <= m_usRecvCnt

\* A variant of Skip that is wrong: what is done with still counts.
SkipCounted(n) ==
  /\ m_usProcCnt' = m_usProcCnt + n
  /\ UNCHANGED <<pcR, m_usRecvCnt, m_byRecvBuf, m_byAssistBuf, recent>>

\* n bytes are done with.
Skip(n) ==
  /\ m_usProcCnt' = m_usProcCnt + n
  /\ m_usRecvCnt' = m_usRecvCnt - n
  /\ UNCHANGED <<pcR, m_byRecvBuf, m_byAssistBuf, recent>>

\* A complete frame of length n is copied and done with.  A negative length is no
\* size to copy; with length 0 the loop does not get on.
Taken(n) ==
  \/ n > 0 /\ Skip(n)
  \/ /\ n <= 0 /\ pcR' = IF n = 0 THEN "endless" ELSE "undefined"
     /\ UNCHANGED <<m_usProcCnt, m_usRecvCnt, m_byRecvBuf, m_byAssistBuf, recent>>

LastOf(s, n) == SubSeq(s, Len(s) + 1 - Shorter(n, Len(s)), Len(s))

\* AfterUnpackProc: what is left is moved to the front.  With a full buffer the
\* rest of the round is left out.
Unpacked ==
  /\ m_byRecvBuf' = Copied(Zeroed, 0, m_byRecvBuf, m_usProcCnt, m_usRecvCnt)
  /\ m_byAssistBuf' = Zeroed
  /\ m_usProcCnt' = 0
  /\ recent' = LastOf(recent, m_usRecvCnt)
  /\ pcR' = IF m_usRecvCnt = RECVBUFLEN THEN "check" ELSE "after"
  /\ UNCHANGED m_usRecvCnt

\* The loop finds the first byte of a frame.
FrameFound ==
  /\ m_byRecvBuf[m_usProcCnt] = FRAME_HEAD
  /\ \E lo \in ByteAt(m_usProcCnt + 1), hi \in ByteAt(m_usProcCnt + 2) :
       IF Complete(nFrmLength(lo, hi)) THEN Taken(nFrmLength(lo, hi)) ELSE Unpacked

\* One turn of the loop of sg_unpack_frame.  FrmHeadToApciInf has no return
\* statement: whether the head of a frame is taken for one is undefined.
Unpack ==
  /\ pcR = "unpack"
  /\ IF m_usRecvCnt = 0 THEN Unpacked ELSE Skip(1) \/ FrameFound
  /\ UNCHANGED <<socket, flag, pcW, pcM, m_usAssistCnt>>

\* A variant of ReadAfter that is wrong: it goes on as after a full buffer.
ReadAgain ==
  /\ pcR = "after"
  /\ pcR' = "check"
  /\ UNCHANGED <<socket, flag, pcW, pcM, frames>>

\* The end of a round.
ReadAfter ==
  /\ pcR = "after"
  /\ g_rmt_connect_flag' = IF m_ConnectState = "CONNECTNORMAL" THEN g_rmt_connect_flag
                           ELSE "OFFLINE"
  /\ pcR' = "check"
  /\ UNCHANGED <<socket, late, pcW, pcM, frames>>

Reader == \/ ReadCheck \/ Create \/ Dial \/ Dialled \/ Select \/ Verify \/ Return
          \/ Online \/ ReadLook \/ ReadNothing \/ ReadBytes \/ Join \/ Unpack
          \/ ReadAfter

-----------------------------------------------------------------------------
(* sg_rpc_write_data_thread                                                *)

\* With a connection it asks for something to send; sg_get_continue_send has
\* nothing for a caller that brings a buffer, and this one always does.
WriteCheck ==
  /\ pcW = "check" /\ m_ConnectState = "CONNECTNORMAL"
  /\ pcW' = "look"
  /\ UNCHANGED <<socket, flag, pcR, pcM, frames>>

WriteLook ==
  /\ pcW = "look"
  /\ pcW' = IF m_ConnectState = "CONNECTNORMAL" THEN "check" ELSE "lost"
  /\ UNCHANGED <<socket, flag, pcR, pcM, frames>>

\* What it has seen may be over when it sets the flag.  (Offline also takes back
\* the acceptance of the device, which in this mode nothing ever gives.)
WriteLost ==
  /\ pcW = "lost"
  /\ g_rmt_connect_flag' = "OFFLINE"
  /\ late' = (late \/ m_ConnectState = "CONNECTNORMAL")
  /\ pcW' = "check"
  /\ UNCHANGED <<socket, pcR, pcM, frames>>

Writer == WriteCheck \/ WriteLook \/ WriteLost

-----------------------------------------------------------------------------
(* main, once the threads are started                                      *)

\* sg_sockket_init forgets the socket, whatever the reading thread has made of it,
\* ...
ResetSocket ==
  /\ pcM = "init"
  /\ m_socket' = 0 /\ pcM' = "reset"
  /\ UNCHANGED <<m_ConnectState, open, flag, pcR, pcW, frames>>

\* ... and then the state.
ResetState ==
  /\ pcM = "reset"
  /\ m_ConnectState' = "NOTCONNECTTED" /\ pcM' = "exit"
  /\ UNCHANGED <<m_socket, open, flag, pcR, pcW, frames>>

\* sg_sockket_exit
Exit ==
  /\ pcM = "exit"
  /\ sg_cloese_socket /\ pcM' = "over"
  /\ UNCHANGED <<flag, pcR, pcW, frames>>

\* sg_exit deletes the threads, and main returns.
End ==
  /\ pcM = "over"
  /\ pcM' = "ended"
  /\ UNCHANGED <<socket, flag, pcR, pcW, frames>>

Ending == ResetState \/ Exit \/ End

-----------------------------------------------------------------------------
\* sg_set_socket_param, and the threads at their start.
Init ==
  /\ m_socket = 0 /\ m_ConnectState = "NOTCONNECTTED" /\ open = {}
  /\ g_rmt_connect_flag = "OFFLINE"
  /\ pcR = "check" /\ pcW = "check" /\ pcM = "init"
  /\ m_byRecvBuf = Zeroed /\ m_byAssistBuf = Zeroed
  /\ m_usRecvCnt = 0 /\ m_usProcCnt = 0 /\ m_usAssistCnt = 0
  /\ recent = <<>> /\ late = FALSE

\* The process is there, and what it does is defined.
Running == pcM # "ended" /\ pcR # "undefined"

Next == Running /\ (Reader \/ Writer \/ ResetSocket \/ Ending)

Spec == Init /\ [][Next]_vars

\* Both threads are scheduled, and main once it has come to its calls.
FairSpec ==
  /\ Spec
  /\ WF_vars(Running /\ Reader) /\ WF_vars(Running /\ Writer)
  /\ WF_vars(Running /\ Ending)

-----------------------------------------------------------------------------
(* Properties                                                              *)

\* The type of every variable: no position leaves the buffer, no count its 16 bits.
TypeOK ==
  /\ m_socket \in Nat /\ open \subseteq Nat
  /\ m_ConnectState \in ConnectState
  /\ g_rmt_connect_flag \in {"ONLINE", "OFFLINE"} /\ late \in BOOLEAN
  /\ pcR \in {"check", "socket", "dial", "made", "underway", "select", "verify",
              "return", "online", "look", "read", "join", "unpack", "endless",
              "undefined", "after"}
  /\ pcW \in {"check", "look", "lost"}
  /\ pcM \in {"init", "reset", "exit", "over", "ended"}
  /\ m_byRecvBuf \in [Index -> Byte] /\ m_byAssistBuf \in [Index -> Byte]
  /\ m_usRecvCnt \in 0 .. Word - 1
  /\ m_usProcCnt \in Index \union {RECVBUFLEN}
  /\ pcR \notin {"join", "undefined"} => m_usProcCnt + m_usRecvCnt <= RECVBUFLEN
  /\ m_usAssistCnt \in 0 .. RECVBUFLEN
  /\ recent \in Seq(Byte)

\* However often the socket is closed and made again, and whenever main comes to
\* its calls: the descriptor in use is open, and no others are left open but 0 and
\* one that main made the process forget.  Until then a state other than not
\* connected has a socket.
OneSocket ==
  /\ m_socket # 0 => m_socket \in open
  /\ \E d \in open \union {0} : open \subseteq {m_socket, 0, d}
  /\ pcM = "init" =>
       /\ open \subseteq {m_socket, 0}
       /\ m_ConnectState # "NOTCONNECTTED" => m_socket # 0

\* However reads cut the stream, and whatever lengths it names, what waits in the
\* buffer is the end of what was received, unbroken: no byte is lost, repeated or
\* moved before it is skipped.
WaitingIsEnd ==
  pcR \notin {"join", "undefined"} =>
    \A i \in 1 .. m_usRecvCnt :
      m_byRecvBuf[m_usProcCnt + i - 1] = recent[Len(recent) - m_usRecvCnt + i]

\* Between reads what waits is the start of a frame that is not complete.
OnlyPartWaits ==
  pcR \notin {"join", "unpack", "endless", "undefined"} /\ m_usRecvCnt > 0 =>
    /\ m_byRecvBuf[0] = FRAME_HEAD
    /\ nFrmLength(m_byRecvBuf[1], m_byRecvBuf[2]) > m_usRecvCnt

\* A loss is reported, unless a new connection comes first, or the end.
LossReported ==
  (m_ConnectState # "CONNECTNORMAL" /\ g_rmt_connect_flag = "ONLINE") ~>
    (m_ConnectState = "CONNECTNORMAL" \/ g_rmt_connect_flag = "OFFLINE" \/ ~ Running)

\* A connection that lasts is reported, unless the writing thread came too late
\* with an earlier loss, or main ends the process.
LastingReported ==
  <>[](m_ConnectState = "CONNECTNORMAL") =>
    <>[](g_rmt_connect_flag = "ONLINE") \/ <>[]late \/ <>(pcM = "ended")
=============================================================================
