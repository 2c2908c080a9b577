--------------------------- MODULE RmtLinkProofs ----------------------------
(***************************************************************************)
(* Theorems about RmtLink, for every size of the buffers and of the reads, *)
(* every base of the lengths and every set of byte values.                 *)
(***************************************************************************)
EXTENDS RmtLink, TLAPS

-----------------------------------------------------------------------------
(* Sequences and copies                                                    *)

\* The elements of the rest of a sequence.
LEMMA RestElement ==
  ASSUME NEW S, NEW s \in Seq(S), NEW a \in Int, a >= 1, NEW j \in 1 .. Len(s) - a + 1
  PROVE  SubSeq(s, a, Len(s))[j] = s[a + j - 1]
  OBVIOUS

\* The length of the rest of a sequence.
LEMMA RestType ==
  ASSUME NEW S, NEW s \in Seq(S), NEW m \in Nat, m <= Len(s)
  PROVE  /\ SubSeq(s, Len(s) + 1 - m, Len(s)) \in Seq(S)
         /\ Len(SubSeq(s, Len(s) + 1 - m, Len(s))) = m
  OBVIOUS

\* The last n elements of a sequence are its end, counted from behind.
LEMMA LastOfEnd ==
  ASSUME NEW s \in Seq(Byte), NEW n \in Nat
  PROVE  /\ LastOf(s, n) \in Seq(Byte)
         /\ Len(LastOf(s, n)) = Shorter(n, Len(s))
         /\ \A k \in 1 .. Shorter(n, Len(s)) :
              LastOf(s, n)[Shorter(n, Len(s)) - k + 1] = s[Len(s) - k + 1]
<1> DEFINE m == Shorter(n, Len(s))
<1>1. m \in 0 .. Len(s)
  BY DEF Shorter
<1>2. LastOf(s, n) = SubSeq(s, Len(s) + 1 - m, Len(s))
  BY DEF LastOf
<1>3. LastOf(s, n) \in Seq(Byte) /\ Len(LastOf(s, n)) = m
  <2>1. Len(s) \in Nat /\ m \in Nat /\ m <= Len(s)
    BY <1>1
  <2>2. QED
    BY <1>2, <2>1, RestType
<1>4. ASSUME NEW k \in 1 .. m
      PROVE  LastOf(s, n)[m - k + 1] = s[Len(s) - k + 1]
  <2> DEFINE a == Len(s) + 1 - m
             i == m - k + 1
  <2>1. Len(s) \in Nat /\ m \in Nat /\ m <= Len(s)
    BY <1>1
  <2>2. a \in Int /\ a >= 1 /\ i \in 1 .. Len(s) - a + 1 /\ a + i - 1 = Len(s) - k + 1
    BY <2>1
  <2>3. SubSeq(s, a, Len(s))[i] = s[a + i - 1]
    <3> HIDE DEF a, i
    <3>1. QED
      BY <2>2, RestElement
  <2>4. QED
    BY <1>2, <2>2, <2>3
<1>5. QED
  BY <1>3, <1>4

\* A sequence that is appended is found at the end, what was there before it.
LEMMA AppendedEnd ==
  ASSUME NEW r \in Seq(Byte), NEW n \in Nat, NEW s \in [1 .. n -> Byte]
  PROVE  /\ r \o s \in Seq(Byte) /\ Len(r \o s) = Len(r) + n
         /\ \A i \in 1 .. n : (r \o s)[Len(r) + i] = s[i]
         /\ \A i \in 1 .. Len(r) : (r \o s)[i] = r[i]
<1>1. s \in Seq(Byte) /\ Len(s) = n
  OBVIOUS
<1>2. QED
  BY <1>1

\* A copy has the type of a buffer.
LEMMA CopiedType ==
  ASSUME NEW a \in [Index -> Byte], NEW b \in [Index -> Byte],
         NEW to \in Nat, NEW from \in Nat, NEW n \in Nat
  PROVE  Copied(a, to, b, from, n) \in [Index -> Byte]
  BY RmtAssumption DEF Copied, Index

\* The values of 16 bits are as many as a number says.
LEMMA WordType == Word \in Nat
  BY RmtAssumption DEF Word

\* A length is an integer, negative ones included.
LEMMA LengthType ==
  ASSUME NEW lo \in Nat, NEW hi \in Nat
  PROVE  nFrmLength(lo, hi) \in Int
<1>1. Base * hi \in Nat
  BY RmtAssumption
<1>2. QED
  BY <1>1, WordType, RmtAssumption DEF nFrmLength, AsInt16

\* A length whose high byte is 0 does not turn negative.
LEMMA ShortLength ==
  ASSUME NEW lo \in 0 .. Base - 1
  PROVE  nFrmLength(lo, 0) = lo + Overhead
<1>1. Base * 0 = 0
  BY RmtAssumption
<1>2. 2 * (lo + Overhead) < Word
  <2>1. 2 * (Base + Overhead) <= Word /\ lo < Base /\ Base \in Nat /\ Overhead \in Nat
    BY RmtAssumption
  <2>2. QED
    BY <2>1, WordType
<1>3. QED
  BY <1>1, <1>2, WordType, RmtAssumption DEF nFrmLength, AsInt16

-----------------------------------------------------------------------------
(* The invariant                                                           *)

\* What the steps between two reads leave for one another, as long as they are
\* defined: positions and counts fit together, and each of the two buffers holds
\* its part of the end of the stream.
Layout ==
  /\ pcR \notin {"unpack", "endless", "undefined"} => m_usProcCnt = 0
  /\ pcR \notin {"join", "undefined"} => m_usAssistCnt = 0
  /\ pcR # "undefined" =>
       /\ m_usAssistCnt <= m_usRecvCnt
       /\ m_usRecvCnt <= Len(recent)
       /\ \A i \in 1 .. m_usRecvCnt - m_usAssistCnt :
            m_byRecvBuf[m_usProcCnt + i - 1] = recent[Len(recent) - m_usRecvCnt + i]
       /\ \A i \in 1 .. m_usAssistCnt :
            m_byAssistBuf[i - 1] = recent[Len(recent) - m_usAssistCnt + i]

Inv == TypeOK /\ Layout /\ OnlyPartWaits

\* The buffers are empty to begin with.
LEMMA InitInv == Init => Inv
<1> SUFFICES ASSUME Init PROVE Inv
  OBVIOUS
<1> USE RmtAssumption DEF Init
<1>1. Zeroed \in [Index -> Byte]
  BY DEF Zeroed
<1>2. TypeOK
  <2>1. recent \in Seq(Byte)
    OBVIOUS
  <2>2. /\ m_usRecvCnt \in 0 .. Word - 1 /\ m_usProcCnt \in Index \union {RECVBUFLEN}
        /\ m_usProcCnt + m_usRecvCnt <= RECVBUFLEN
        /\ m_usAssistCnt \in 0 .. RECVBUFLEN
    BY WordType DEF Index
  <2>3. QED
    BY <1>1, <2>1, <2>2 DEF TypeOK, ConnectState
<1>3. Layout
  BY DEF Layout
<1>4. OnlyPartWaits
  BY DEF OnlyPartWaits
<1>5. QED
  BY <1>2, <1>3, <1>4 DEF Inv

\* What sg_init_socket gets is a descriptor or none.
LEMMA CreateType ==
  ASSUME TypeOK, Create
  PROVE  m_socket' \in Nat /\ open' \subseteq Nat /\ pcR' \in {"dial", "return"}
<1>1. ASSUME NEW o \in SUBSET Nat, NEW n \in SocketResult(o), Got(n, o)
      PROVE  m_socket' \in Nat /\ open' \subseteq Nat /\ pcR' \in {"dial", "return"}
  BY <1>1, RmtAssumption DEF SocketResult, Got
<1>2. open \in SUBSET Nat /\ open \union {0} \in SUBSET Nat /\ m_socket \in Nat
  BY DEF TypeOK
<1>3. CASE m_socket # 0 /\ UNCHANGED <<m_socket, open>> /\ pcR' = "dial"
  BY <1>2, <1>3
<1>4. CASE \E n \in SocketResult(open) :
             IF n # 0 THEN Got(n, open)
             ELSE \E k \in SocketResult(open \union {0}) : Got(k, open \union {0})
  BY <1>1, <1>2, <1>4
<1>5. QED
  BY <1>3, <1>4 DEF Create

\* Steps that have nothing to do with the buffers.
Elsewhere ==
  \/ ReadCheck \/ Create \/ Dial \/ Dialled \/ Select \/ Verify \/ Return \/ Online
  \/ ReadLook \/ ReadNothing \/ ReadAfter \/ Writer \/ ResetSocket \/ Ending
  \/ UNCHANGED vars

\* They leave the buffers alone and do not come to a step that uses them.
LEMMA ElsewhereFrames ==
  ASSUME TypeOK, Elsewhere
  PROVE  /\ UNCHANGED frames
         /\ \/ pcR' = pcR
            \/ /\ pcR \notin {"join", "unpack", "endless", "undefined"}
               /\ pcR' \notin {"join", "unpack", "endless", "undefined"}
<1>1. CASE ReadCheck
  <2>1. pcR' \in {"look", "select", "socket"}
    BY <1>1 DEF ReadCheck, TypeOK, ConnectState
  <2>2. QED
    BY <1>1, <2>1 DEF ReadCheck
<1>2. CASE Create
  BY <1>2, CreateType DEF Create
<1>3. CASE Dial
  BY <1>3 DEF Dial
<1>4. CASE Dialled \/ Return \/ Online \/ ReadLook
  BY <1>4 DEF Dialled, Return, Online, ReadLook
<1>5. CASE Select \/ Verify
  BY <1>5 DEF Select, Verify
<1>6. CASE ReadNothing \/ ReadAfter
  BY <1>6 DEF ReadNothing, ReadAfter
<1>7. CASE Writer
  BY <1>7 DEF Writer, WriteCheck, WriteLook, WriteLost
<1>8. CASE ResetSocket \/ Ending
  BY <1>8 DEF ResetSocket, Ending, ResetState, Exit, End
<1>9. CASE UNCHANGED vars
  BY <1>9 DEF vars
<1>10. QED
  BY <1>1, <1>2, <1>3, <1>4, <1>5, <1>6, <1>7, <1>8, <1>9 DEF Elsewhere

\* Nor do they leave the types of the socket, the flag and the places.
LEMMA ElsewhereTypes ==
  ASSUME TypeOK, Elsewhere
  PROVE  TypeOK'
<1>1. /\ UNCHANGED frames
      /\ \/ pcR' = pcR
         \/ /\ pcR \notin {"join", "unpack", "endless", "undefined"}
            /\ pcR' \notin {"join", "unpack", "endless", "undefined"}
  BY ElsewhereFrames
<1> DEFINE Places == {"check", "socket", "dial", "made", "underway", "select", "verify",
                      "return", "online", "look", "read", "join", "unpack", "endless",
                      "undefined", "after"}
           Others == /\ m_socket' \in Nat /\ open' \subseteq Nat
                     /\ m_ConnectState' \in ConnectState
                     /\ g_rmt_connect_flag' \in {"ONLINE", "OFFLINE"} /\ late' \in BOOLEAN
                     /\ pcR' \in Places /\ pcW' \in {"check", "look", "lost"}
                     /\ pcM' \in {"init", "reset", "exit", "over", "ended"}
<1>2. /\ m_socket \in Nat /\ open \subseteq Nat /\ m_ConnectState \in ConnectState
      /\ g_rmt_connect_flag \in {"ONLINE", "OFFLINE"} /\ late \in BOOLEAN
      /\ pcR \in Places /\ pcW \in {"check", "look", "lost"}
      /\ pcM \in {"init", "reset", "exit", "over", "ended"}
  BY DEF TypeOK
<1>3. sg_cloese_socket => m_socket' \in Nat /\ open' \subseteq Nat /\ m_ConnectState' \in ConnectState
  <2>1. CASE m_socket = 0
    BY <1>2, <2>1 DEF sg_cloese_socket, socket
  <2>2. CASE m_socket # 0
    <3>1. sg_cloese_socket => /\ open' = open \ {m_socket} /\ m_socket' = 0
                              /\ m_ConnectState' = "NOTCONNECTTED"
      BY <2>2 DEF sg_cloese_socket
    <3>2. open \ {m_socket} \subseteq Nat /\ 0 \in Nat
      BY <1>2
    <3>3. "NOTCONNECTTED" \in ConnectState
      BY DEF ConnectState
    <3>4. QED
      BY <3>1, <3>2, <3>3
  <2>3. QED
    BY <2>1, <2>2
<1>4. UNCHANGED socket => m_socket' \in Nat /\ open' \subseteq Nat /\ m_ConnectState' \in ConnectState
  BY <1>2 DEF socket
<1>5. Others
  <2>1. CASE ReadCheck
    <3>1. pcR' \in {"look", "select", "socket"}
      BY <2>1 DEF ReadCheck, TypeOK, ConnectState
    <3>2. QED
      BY <1>2, <1>4, <2>1, <3>1 DEF ReadCheck, flag
  <2>2. CASE Create
    BY <1>2, <2>2, CreateType DEF Create, flag
  <2>3. CASE Dial
    BY <1>2, <1>3, <1>4, <2>3 DEF Dial, flag
  <2>4. CASE Dialled
    BY <1>2, <2>4 DEF Dialled, flag, ConnectState
  <2>5. CASE Select
    BY <1>2, <1>3, <2>5 DEF Select, flag, ConnectState
  <2>6. CASE Verify
    BY <1>2, <1>3, <1>4, <2>6 DEF Verify, flag
  <2>7. CASE Return \/ Online \/ ReadLook \/ ReadAfter
    BY <1>2, <1>4, <2>7 DEF Return, Online, ReadLook, ReadAfter, flag
  <2>8. CASE ReadNothing
    BY <1>2, <1>3, <1>4, <2>8 DEF ReadNothing, flag
  <2>9. CASE Writer
    <3>1. (late \/ m_ConnectState = "CONNECTNORMAL") \in BOOLEAN
      OBVIOUS
    <3>2. QED
      BY <1>2, <1>4, <2>9, <3>1 DEF Writer, WriteCheck, WriteLook, WriteLost, flag
  <2>10. CASE ResetSocket \/ ResetState
    <3>1. 0 \in Nat /\ "NOTCONNECTTED" \in ConnectState
      BY DEF ConnectState
    <3>2. /\ m_socket' \in {0, m_socket} /\ UNCHANGED <<open, flag, pcR, pcW>>
          /\ m_ConnectState' \in {"NOTCONNECTTED", m_ConnectState}
          /\ pcM' \in {"reset", "exit"}
      BY <2>10 DEF ResetSocket, ResetState
    <3>3. QED
      BY <1>2, <3>1, <3>2 DEF flag
  <2>11. CASE Exit \/ End
    BY <1>2, <1>3, <1>4, <2>11 DEF Exit, End, flag
  <2>12. CASE UNCHANGED vars
    BY <1>2, <2>12 DEF vars, socket, flag
  <2>13. QED
    BY <2>1, <2>2, <2>3, <2>4, <2>5, <2>6, <2>7, <2>8, <2>9, <2>10, <2>11, <2>12
    DEF Elsewhere, Ending
<1>6. QED
  BY <1>1, <1>5 DEF TypeOK, frames

\* So they keep the invariant.
LEMMA ElsewhereKeeps ==
  ASSUME Inv, Elsewhere
  PROVE  Inv'
<1>1. /\ UNCHANGED frames
      /\ \/ pcR' = pcR
         \/ /\ pcR \notin {"join", "unpack", "endless", "undefined"}
            /\ pcR' \notin {"join", "unpack", "endless", "undefined"}
  BY ElsewhereFrames DEF Inv
<1>2. TypeOK'
  BY ElsewhereTypes DEF Inv
<1>3. Layout'
  BY <1>1 DEF Inv, Layout, frames
<1>4. OnlyPartWaits'
  BY <1>1 DEF Inv, OnlyPartWaits, nFrmLength, AsInt16, frames
<1>5. QED
  BY <1>2, <1>3, <1>4 DEF Inv

\* What a read returns is the end of the stream, and waits in the second buffer.
LEMMA ReadKeeps ==
  ASSUME Inv, ReadBytes
  PROVE  Inv'
<1> USE RmtAssumption DEF Inv
<1>0. PICK n \in 1 .. Chunk :
        \E s \in [1 .. n -> Byte] :
          /\ m_byAssistBuf' = [i \in Index |-> IF i < n THEN s[i + 1] ELSE m_byAssistBuf[i]]
          /\ m_usAssistCnt' = m_usAssistCnt + n
          /\ m_usRecvCnt' = m_usRecvCnt + n
          /\ recent' = recent \o s
  BY DEF ReadBytes
<1>1. PICK s \in [1 .. n -> Byte] :
        /\ m_byAssistBuf' = [i \in Index |-> IF i < n THEN s[i + 1] ELSE m_byAssistBuf[i]]
        /\ m_usAssistCnt' = m_usAssistCnt + n
        /\ m_usRecvCnt' = m_usRecvCnt + n
        /\ recent' = recent \o s
  BY <1>0
<1>2. /\ pcR = "read" /\ pcR' = "join"
      /\ UNCHANGED <<socket, flag, pcW, pcM, m_byRecvBuf, m_usProcCnt>>
  BY DEF ReadBytes
<1>3. m_usProcCnt = 0 /\ m_usAssistCnt = 0
  BY <1>2 DEF Layout
<1>4. n \in Nat /\ n >= 1 /\ n <= RECVBUFLEN
  OBVIOUS
<1>5. /\ recent \in Seq(Byte) /\ Len(recent) \in Nat
      /\ m_usRecvCnt \in Nat /\ m_usRecvCnt <= RECVBUFLEN
  BY <1>2, <1>3, WordType DEF TypeOK
<1>6. /\ recent' \in Seq(Byte) /\ Len(recent') = Len(recent) + n
      /\ \A i \in 1 .. n : recent'[Len(recent) + i] = s[i]
      /\ \A i \in 1 .. Len(recent) : recent'[i] = recent[i]
  <2>1. /\ recent \o s \in Seq(Byte) /\ Len(recent \o s) = Len(recent) + n
        /\ \A i \in 1 .. n : (recent \o s)[Len(recent) + i] = s[i]
        /\ \A i \in 1 .. Len(recent) : (recent \o s)[i] = recent[i]
    <3>1. recent \in Seq(Byte) /\ n \in Nat /\ s \in [1 .. n -> Byte]
      BY <1>4, <1>5
    <3>2. QED
      BY <3>1, AppendedEnd, Zenon
  <2>2. recent' = recent \o s
    BY <1>1
  <2>3. QED
    BY <2>1, <2>2, Zenon
<1>7. TypeOK'
  <2>1. m_byAssistBuf' \in [Index -> Byte]
    BY <1>1, <1>4 DEF TypeOK, Index
  <2>2. m_usAssistCnt' \in 0 .. RECVBUFLEN /\ m_usRecvCnt' \in 0 .. Word - 1
    BY <1>1, <1>3, <1>4, <1>5, WordType
  <2>3. QED
    BY <1>2, <1>6, <2>1, <2>2 DEF TypeOK, socket, flag
<1>8. Layout'
  <2>1. m_usRecvCnt <= Len(recent)
    BY <1>2 DEF Layout
  <2>2. ASSUME NEW i \in 1 .. m_usRecvCnt
        PROVE  m_byRecvBuf'[i - 1] = recent'[Len(recent) - m_usRecvCnt + i]
    <3>1. m_byRecvBuf[i - 1] = recent[Len(recent) - m_usRecvCnt + i]
      <4>1. m_byRecvBuf[m_usProcCnt + i - 1] = recent[Len(recent) - m_usRecvCnt + i]
        <5>1. i \in 1 .. m_usRecvCnt - m_usAssistCnt
          BY <1>3, <1>5
        <5>2. QED
          BY <1>2, <5>1 DEF Layout
      <4>2. m_usProcCnt + i - 1 = i - 1
        BY <1>3
      <4>3. QED
        BY <4>1, <4>2
    <3>2. Len(recent) - m_usRecvCnt + i \in 1 .. Len(recent)
      BY <1>5, <2>1
    <3>3. QED
      BY <1>2, <1>6, <3>1, <3>2
  <2>3. ASSUME NEW i \in 1 .. n
        PROVE  m_byAssistBuf'[i - 1] = recent'[Len(recent) + i]
    <3>1. i - 1 \in Index /\ i - 1 < n
      BY <1>4 DEF Index
    <3>2. m_byAssistBuf'[i - 1] = s[i]
      BY <1>1, <1>4, <3>1
    <3>3. QED
      BY <1>6, <3>2
  <2>4. /\ m_usAssistCnt' = n /\ m_usRecvCnt' = m_usRecvCnt + n
        /\ m_usRecvCnt' - m_usAssistCnt' = m_usRecvCnt /\ m_usProcCnt' = 0
        /\ Len(recent') - m_usRecvCnt' = Len(recent) - m_usRecvCnt
        /\ Len(recent') - m_usAssistCnt' = Len(recent)
        /\ m_usAssistCnt' <= m_usRecvCnt' /\ m_usRecvCnt' <= Len(recent')
    BY <1>1, <1>2, <1>3, <1>4, <1>5, <1>6, <2>1
  <2>5. \A i \in 1 .. m_usRecvCnt' - m_usAssistCnt' :
          m_byRecvBuf'[m_usProcCnt' + i - 1] = recent'[Len(recent') - m_usRecvCnt' + i]
    <3>1. \A i \in 1 .. m_usRecvCnt : 0 + i - 1 = i - 1
      BY <1>5
    <3>2. QED
      BY <2>2, <2>4, <3>1
  <2>6. QED
    BY <1>2, <2>3, <2>4, <2>5 DEF Layout
<1>9. OnlyPartWaits'
  BY <1>2 DEF OnlyPartWaits
<1>10. QED
  BY <1>7, <1>8, <1>9

\* A step to where nothing is promised any more leaves nothing to show.
LEMMA UndefinedKeeps ==
  ASSUME Inv, pcR' = "undefined", UNCHANGED <<socket, flag, pcW, pcM, frames>>
  PROVE  Inv'
  BY DEF Inv, TypeOK, Layout, OnlyPartWaits, socket, flag, frames

\* Appended at its place, what was read stands behind what waited.
LEMMA JoinKeeps ==
  ASSUME Inv, Join
  PROVE  Inv'
<1> USE RmtAssumption DEF Inv
<1> DEFINE rest == m_usRecvCnt - m_usAssistCnt
<1>0. CASE m_usRecvCnt > RECVBUFLEN
  BY <1>0, UndefinedKeeps DEF Join
<1>1. CASE m_usRecvCnt <= RECVBUFLEN
  <2>1. /\ pcR = "join" /\ pcR' = "unpack"
        /\ UNCHANGED <<socket, flag, pcW, pcM, m_usRecvCnt, m_usProcCnt, recent>>
        /\ m_byAssistBuf' = Zeroed /\ m_usAssistCnt' = 0
        /\ m_byRecvBuf' = Copied(m_byRecvBuf, rest, m_byAssistBuf, 0, m_usAssistCnt)
    <3>1. m_usRecvCnt \in Int
      BY WordType DEF TypeOK
    <3>2. QED
      BY <1>1, <3>1 DEF Join, TailOf
  <2>2. m_usProcCnt = 0
    BY <2>1 DEF Layout
  <2>3. /\ m_usRecvCnt \in Nat /\ m_usAssistCnt \in Nat /\ rest \in Nat
        /\ m_usRecvCnt <= Len(recent) /\ Len(recent) \in Nat
    BY <1>1, <2>1, WordType DEF TypeOK, Layout
  <2>4. TypeOK'
    <3>1. m_byRecvBuf' \in [Index -> Byte]
      BY <2>1, <2>3, CopiedType DEF TypeOK
    <3>2. m_byAssistBuf' \in [Index -> Byte]
      BY <2>1 DEF Zeroed
    <3>3. m_usProcCnt' + m_usRecvCnt' <= RECVBUFLEN
      BY <1>1, <2>1, <2>2, <2>3
    <3>4. QED
      BY <2>1, <3>1, <3>2, <3>3 DEF TypeOK, socket, flag
  <2>5. ASSUME NEW i \in 1 .. m_usRecvCnt
        PROVE  m_byRecvBuf'[i - 1] = recent[Len(recent) - m_usRecvCnt + i]
    <3>1. i - 1 \in Index
      BY <1>1, <2>3 DEF Index
    <3>2. CASE i <= rest
      <4>1. m_byRecvBuf'[i - 1] = m_byRecvBuf[i - 1]
        BY <2>1, <2>3, <3>1, <3>2 DEF Copied
      <4>2. m_byRecvBuf[i - 1] = recent[Len(recent) - m_usRecvCnt + i]
        BY <1>1, <2>1, <2>2, <2>3, <3>2 DEF Layout
      <4>3. QED
        BY <4>1, <4>2
    <3>3. CASE i > rest
      <4> DEFINE j == i - rest
      <4>1. j \in 1 .. m_usAssistCnt /\ 0 + (i - 1) - rest = j - 1 /\ j - 1 \in Index
            /\ rest <= i - 1 /\ i - 1 < rest + m_usAssistCnt
        BY <1>1, <2>3, <3>3 DEF Index
      <4>2. m_byRecvBuf'[i - 1] = m_byAssistBuf[j - 1]
        <5>1. m_byRecvBuf'[i - 1] = m_byAssistBuf[0 + (i - 1) - rest]
          <6> HIDE DEF rest, j
          <6>1. 0 + (i - 1) - rest \in Index
            BY <4>1
          <6>2. QED
            BY <2>1, <3>1, <4>1, <6>1 DEF Copied
        <5>2. QED
          BY <4>1, <5>1
      <4>3. m_byAssistBuf[j - 1] = recent[Len(recent) - m_usAssistCnt + j]
        BY <1>1, <2>1, <4>1 DEF Layout
      <4>4. Len(recent) - m_usAssistCnt + j = Len(recent) - m_usRecvCnt + i
        BY <2>3
      <4>5. QED
        BY <4>2, <4>3, <4>4
    <3>4. QED
      BY <2>3, <3>2, <3>3
  <2>6. Layout'
    BY <2>1, <2>2, <2>3, <2>5 DEF Layout
  <2>7. OnlyPartWaits'
    BY <2>1 DEF OnlyPartWaits
  <2>8. QED
    BY <2>4, <2>6, <2>7
<1>2. QED
  <2>1. m_usRecvCnt \in Int
    BY WordType DEF TypeOK
  <2>2. QED
    BY <1>0, <1>1, <2>1

\* Bytes that are done with leave the others where they are.
LEMMA SkipKeeps ==
  ASSUME Inv, pcR = "unpack", NEW n \in 1 .. m_usRecvCnt, Skip(n),
         UNCHANGED <<socket, flag, pcW, pcM, m_usAssistCnt>>
  PROVE  Inv'
<1> USE RmtAssumption DEF Inv
<1>1. /\ m_usProcCnt' = m_usProcCnt + n /\ m_usRecvCnt' = m_usRecvCnt - n
      /\ UNCHANGED <<pcR, m_byRecvBuf, m_byAssistBuf, recent>>
  BY DEF Skip
<1>2. /\ m_usAssistCnt = 0 /\ m_usRecvCnt \in Nat /\ m_usProcCnt \in Nat
      /\ m_usProcCnt + m_usRecvCnt <= RECVBUFLEN
      /\ m_usRecvCnt <= Len(recent) /\ Len(recent) \in Nat
  BY WordType DEF TypeOK, Layout, Index
<1>3. TypeOK'
  <2>1. /\ m_usRecvCnt' \in 0 .. Word - 1 /\ m_usProcCnt' \in Index \union {RECVBUFLEN}
        /\ m_usProcCnt' + m_usRecvCnt' <= RECVBUFLEN
    BY <1>1, <1>2, WordType DEF Index
  <2>2. QED
    BY <1>1, <1>2, <2>1 DEF TypeOK, socket, flag
<1>4. ASSUME NEW i \in 1 .. m_usRecvCnt - n
      PROVE  m_byRecvBuf'[m_usProcCnt' + i - 1] = recent[Len(recent) - (m_usRecvCnt - n) + i]
  <2> DEFINE j == n + i
  <2>1. /\ j \in 1 .. m_usRecvCnt /\ m_usProcCnt' + i - 1 = m_usProcCnt + j - 1
        /\ Len(recent) - (m_usRecvCnt - n) + i = Len(recent) - m_usRecvCnt + j
    BY <1>1, <1>2
  <2>2. m_byRecvBuf[m_usProcCnt + j - 1] = recent[Len(recent) - m_usRecvCnt + j]
    <3>1. m_usRecvCnt - m_usAssistCnt = m_usRecvCnt /\ m_usRecvCnt <= RECVBUFLEN
      BY <1>2
    <3>2. QED
      BY <2>1, <3>1 DEF Layout
  <2>3. QED
    BY <1>1, <2>1, <2>2
<1>5. Layout'
  <2>1. m_usRecvCnt' - m_usAssistCnt' = m_usRecvCnt - n /\ m_usAssistCnt' = 0
        /\ recent' = recent /\ m_usRecvCnt' <= Len(recent') /\ m_usRecvCnt' >= 0
    BY <1>1, <1>2
  <2>2. pcR' = "unpack"
    BY <1>1
  <2>3. QED
    BY <1>1, <1>4, <2>1, <2>2 DEF Layout
<1>6. OnlyPartWaits'
  BY <1>1 DEF OnlyPartWaits
<1>7. QED
  BY <1>3, <1>5, <1>6

\* Moved to the front, what waits is what waited; when it is the start of a
\* frame it still is one.  Length bytes that had not come are 0 now, and then the
\* length is small but longer than what waits.
LEMMA UnpackedKeeps ==
  ASSUME Inv, pcR = "unpack", Unpacked,
         NEW lo \in ByteAt(m_usProcCnt + 1), NEW hi \in ByteAt(m_usProcCnt + 2),
         m_usRecvCnt > 0 => /\ m_byRecvBuf[m_usProcCnt] = FRAME_HEAD
                            /\ ~ Complete(nFrmLength(lo, hi)),
         UNCHANGED <<socket, flag, pcW, pcM, m_usAssistCnt>>
  PROVE  Inv'
<1> USE RmtAssumption DEF Inv
<1>1. /\ m_byRecvBuf' = Copied(Zeroed, 0, m_byRecvBuf, m_usProcCnt, m_usRecvCnt)
      /\ m_byAssistBuf' = Zeroed /\ m_usProcCnt' = 0 /\ pcR' \in {"check", "after"}
      /\ UNCHANGED m_usRecvCnt /\ recent' = LastOf(recent, m_usRecvCnt)
  BY DEF Unpacked
<1>2. /\ m_usAssistCnt = 0 /\ m_usRecvCnt \in Nat /\ m_usProcCnt \in Nat
      /\ m_usProcCnt + m_usRecvCnt <= RECVBUFLEN
      /\ m_usRecvCnt <= Len(recent) /\ Len(recent) \in Nat
  BY WordType DEF TypeOK, Layout, Index
<1>3. Zeroed \in [Index -> Byte] /\ \A k \in Index : Zeroed[k] = 0
  BY DEF Zeroed
<1>4. m_byRecvBuf' \in [Index -> Byte]
  BY <1>1, <1>2, <1>3, CopiedType DEF TypeOK
<1>5. TypeOK'
  <2>1. m_usProcCnt' \in Index \union {RECVBUFLEN} /\ m_usProcCnt' + m_usRecvCnt' <= RECVBUFLEN
    BY <1>1, <1>2 DEF Index
  <2>2. recent' \in Seq(Byte)
    BY <1>1, <1>2, LastOfEnd DEF TypeOK
  <2>3. QED
    BY <1>1, <1>2, <1>3, <1>4, <2>1, <2>2 DEF TypeOK, socket, flag
<1>6. \A k \in 0 .. m_usRecvCnt - 1 :
        /\ k \in Index /\ m_usProcCnt + k \in Index
        /\ m_byRecvBuf'[k] = m_byRecvBuf[m_usProcCnt + k]
  BY <1>1, <1>2 DEF Copied, Index
<1>7. \A k \in Index : k >= m_usRecvCnt => m_byRecvBuf'[k] = 0
  BY <1>1, <1>2, <1>3 DEF Copied, Index
<1>8. Layout'
  <2>1. Shorter(m_usRecvCnt, Len(recent)) = m_usRecvCnt
    BY <1>2 DEF Shorter
  <2>2. /\ Len(recent') = m_usRecvCnt
        /\ \A k \in 1 .. m_usRecvCnt :
             recent'[m_usRecvCnt - k + 1] = recent[Len(recent) - k + 1]
    <3>1. recent \in Seq(Byte)
      BY DEF TypeOK
    <3>2. QED
      BY <1>1, <1>2, <2>1, <3>1, LastOfEnd
  <2>3. ASSUME NEW i \in 1 .. m_usRecvCnt
        PROVE  m_byRecvBuf'[i - 1] = recent'[i]
    <3>1. m_byRecvBuf'[i - 1] = m_byRecvBuf[m_usProcCnt + (i - 1)]
      BY <1>2, <1>6
    <3>2. m_byRecvBuf[m_usProcCnt + i - 1] = recent[Len(recent) - m_usRecvCnt + i]
      <4>1. m_usRecvCnt - m_usAssistCnt = m_usRecvCnt
        BY <1>2
      <4>2. QED
        BY <4>1 DEF Layout
    <3>3. m_usProcCnt + (i - 1) = m_usProcCnt + i - 1
      BY <1>2
    <3>4. recent'[i] = recent[Len(recent) - m_usRecvCnt + i]
      <4> DEFINE k == m_usRecvCnt - i + 1
      <4>1. k \in 1 .. m_usRecvCnt /\ m_usRecvCnt - k + 1 = i
        BY <1>2
      <4>2. Len(recent) - k + 1 = Len(recent) - m_usRecvCnt + i
        BY <1>2
      <4>3. recent'[m_usRecvCnt - k + 1] = recent[Len(recent) - k + 1]
        <5> HIDE DEF k
        <5>1. QED
          BY <2>2, <4>1
      <4>4. QED
        BY <4>1, <4>2, <4>3
    <3>5. QED
      BY <3>1, <3>2, <3>3, <3>4
  <2>4. /\ \A i \in 1 .. m_usRecvCnt' - m_usAssistCnt' :
             m_byRecvBuf'[m_usProcCnt' + i - 1] = recent'[Len(recent') - m_usRecvCnt' + i]
        /\ m_usAssistCnt' = 0 /\ m_usRecvCnt' <= Len(recent')
    <3>1. /\ m_usProcCnt' = 0 /\ m_usAssistCnt' = 0 /\ m_usRecvCnt' = m_usRecvCnt
          /\ Len(recent') = m_usRecvCnt
      BY <1>1, <1>2, <2>2
    <3>2. \A i \in 1 .. m_usRecvCnt : 0 + i - 1 = i - 1 /\ m_usRecvCnt - m_usRecvCnt + i = i
      BY <1>2
    <3>3. QED
      BY <1>2, <2>3, <3>1, <3>2
  <2>5. QED
    BY <1>1, <1>2, <2>4 DEF Layout
<1>9. OnlyPartWaits'
  <2> DEFINE next == nFrmLength(m_byRecvBuf'[1], m_byRecvBuf'[2])
  <2> SUFFICES ASSUME m_usRecvCnt > 0
               PROVE  m_byRecvBuf'[0] = FRAME_HEAD /\ next > m_usRecvCnt
    BY <1>1 DEF OnlyPartWaits, nFrmLength, AsInt16
  <2>1. m_byRecvBuf'[0] = FRAME_HEAD
    BY <1>2, <1>6
  <2>2. 1 \in Index /\ 2 \in Index /\ m_byRecvBuf'[1] \in 0 .. Base - 1
    <3>1. RECVBUFLEN \in Nat /\ RECVBUFLEN > 2 /\ Byte \subseteq 0 .. Base - 1
      BY RmtAssumption
    <3>2. 1 \in Index /\ 2 \in Index
      BY <3>1 DEF Index
    <3>3. QED
      BY <1>4, <3>1, <3>2
  <2>3. CASE m_usRecvCnt <= 2
    <3>1. m_byRecvBuf'[2] = 0
      BY <1>7, <2>2, <2>3
    <3>2. next = m_byRecvBuf'[1] + Overhead
      BY <2>2, <3>1, ShortLength
    <3>3. QED
      BY <1>2, <2>1, <2>2, <2>3, <3>2
  <2>4. CASE m_usRecvCnt > 2
    <3>1. /\ m_usProcCnt + 1 \in Index /\ m_usProcCnt + 2 \in Index
          /\ m_byRecvBuf'[1] = m_byRecvBuf[m_usProcCnt + 1]
          /\ m_byRecvBuf'[2] = m_byRecvBuf[m_usProcCnt + 2]
      BY <1>2, <1>6, <2>4
    <3>2. lo = m_byRecvBuf'[1] /\ hi = m_byRecvBuf'[2]
      BY <3>1 DEF ByteAt
    <3>3. lo \in Nat /\ hi \in Nat
      BY <1>4, <2>2, <3>2
    <3>4. nFrmLength(lo, hi) \in Int /\ ~ (nFrmLength(lo, hi) <= m_usRecvCnt)
      BY <3>3, LengthType DEF Complete
    <3>5. QED
      BY <1>2, <2>1, <3>2, <3>4
  <2>5. QED
    BY <1>2, <2>3, <2>4
<1>10. QED
  BY <1>5, <1>8, <1>9

\* With a length of 0 nothing moves.
LEMMA EndlessKeeps ==
  ASSUME Inv, pcR = "unpack", pcR' = "endless", UNCHANGED <<socket, flag, pcW, pcM, frames>>
  PROVE  Inv'
  BY DEF Inv, TypeOK, Layout, OnlyPartWaits, socket, flag, frames

\* A turn of the loop skips a byte or a frame, moves what is left, or is the last.
LEMMA UnpackKeeps ==
  ASSUME Inv, Unpack
  PROVE  Inv'
<1>1. /\ pcR = "unpack"
      /\ UNCHANGED <<socket, flag, pcW, pcM, m_usAssistCnt>>
  BY DEF Unpack
<1>2. m_usRecvCnt \in Nat /\ m_usProcCnt \in Nat /\ RECVBUFLEN \in Nat
  BY RmtAssumption, WordType DEF Inv, TypeOK, Index
<1>3. \A i \in Nat : ByteAt(i) \subseteq Nat /\ ByteAt(i) # {}
  <2>1. m_byRecvBuf \in [Index -> Byte]
    BY DEF Inv, TypeOK
  <2>2. Byte \subseteq Nat /\ Byte # {}
    <3>1. Base \in Nat /\ Byte \subseteq 0 .. Base - 1 /\ 0 \in Byte
      BY RmtAssumption
    <3>2. QED
      BY <3>1
  <2>3. QED
    BY <2>1, <2>2 DEF ByteAt
<1>4. CASE m_usRecvCnt = 0 /\ Unpacked
  <2>1. PICK lo \in ByteAt(m_usProcCnt + 1), hi \in ByteAt(m_usProcCnt + 2) : TRUE
    BY <1>2, <1>3
  <2>2. QED
    BY <1>1, <1>4, <2>1, UnpackedKeeps
<1>5. CASE m_usRecvCnt # 0 /\ Skip(1)
  <2>1. 1 \in 1 .. m_usRecvCnt
    BY <1>2, <1>5
  <2>2. QED
    BY <1>1, <1>5, <2>1, SkipKeeps
<1>6. CASE FrameFound
  <2>1. PICK lo \in ByteAt(m_usProcCnt + 1), hi \in ByteAt(m_usProcCnt + 2) :
          IF Complete(nFrmLength(lo, hi)) THEN Taken(nFrmLength(lo, hi)) ELSE Unpacked
    BY <1>6 DEF FrameFound
  <2> DEFINE n == nFrmLength(lo, hi)
  <2>2. n \in Int
    <3>1. lo \in Nat /\ hi \in Nat
      BY <1>2, <1>3
    <3>2. QED
      BY <3>1, LengthType
  <2>3. CASE ~ Complete(n) /\ Unpacked
    BY <1>1, <1>6, <2>3, UnpackedKeeps DEF FrameFound
  <2>4. CASE Complete(n) /\ n > 0 /\ Skip(n)
    <3>1. n \in 1 .. m_usRecvCnt
      <4> HIDE DEF n
      <4>1. QED
        BY <1>2, <2>2, <2>4 DEF Complete
    <3>2. QED
      BY <1>1, <2>4, <3>1, SkipKeeps
  <2>5. CASE /\ pcR' = IF n = 0 THEN "endless" ELSE "undefined"
             /\ UNCHANGED <<m_usProcCnt, m_usRecvCnt, m_byRecvBuf, m_byAssistBuf, recent>>
    <3>1. UNCHANGED <<socket, flag, pcW, pcM, frames>> /\ pcR' \in {"endless", "undefined"}
      BY <1>1, <2>5 DEF frames
    <3>2. QED
      BY <1>1, <3>1, EndlessKeeps, UndefinedKeeps
  <2>6. QED
    BY <2>1, <2>3, <2>4, <2>5 DEF Taken
<1>7. QED
  BY <1>4, <1>5, <1>6 DEF Unpack

LEMMA StepInv == Inv /\ [Next]_vars => Inv'
  BY ElsewhereKeeps, ReadKeeps, JoinKeeps, UnpackKeeps DEF Next, Reader, Elsewhere

LEMMA InvAlways == Spec => []Inv
  BY InitInv, StepInv, PTL DEF Spec

-----------------------------------------------------------------------------
(* The descriptors                                                         *)

\* What OneSocket needs besides: until main comes to its calls, a reader that has
\* a connection in its hands has a descriptor, ...
HandsFull ==
  pcM = "init" /\ pcR \in {"dial", "made", "underway", "select", "verify"} => m_socket # 0

\* ... and at no time more than one descriptor besides 0 is left behind.
SocketInv ==
  /\ m_socket # 0 => m_socket \in open
  /\ \E d \in open \union {0} : open \subseteq {m_socket, 0, d}
  /\ pcM = "init" => open \subseteq {m_socket, 0}
  /\ pcM = "init" /\ m_ConnectState # "NOTCONNECTTED" => m_socket # 0
  /\ HandsFull

\* Closing leaves the others as they were.
LEMMA CloseKeeps ==
  ASSUME SocketInv, sg_cloese_socket, pcM' # "init" \/ pcM' = pcM,
         pcR' = "return" \/ pcR' = "after" \/ pcM' # "init"
  PROVE  SocketInv'
<1>1. CASE m_socket = 0
  BY <1>1 DEF SocketInv, HandsFull, sg_cloese_socket, socket
<1>2. CASE m_socket # 0
  <2>1. open' = open \ {m_socket} /\ m_socket' = 0 /\ m_ConnectState' = "NOTCONNECTTED"
    BY <1>2 DEF sg_cloese_socket
  <2>2. PICK d \in open \union {0} : open \subseteq {m_socket, 0, d}
    BY DEF SocketInv
  <2>3. \E e \in open' \union {0} : open' \subseteq {m_socket', 0, e}
    <3>1. CASE d = m_socket
      BY <2>1, <2>2, <3>1
    <3>2. CASE d # m_socket
      BY <2>1, <2>2, <3>2
    <3>3. QED
      BY <3>1, <3>2
  <2>4. QED
    BY <2>1, <2>3 DEF SocketInv, HandsFull
<1>3. QED
  BY <1>1, <1>2

\* A descriptor is only made when there is none.
LEMMA GotKeeps ==
  ASSUME SocketInv, m_socket = 0, NEW o \in {open, open \union {0}}, NEW n \in Int,
         n # 0, Got(n, o), UNCHANGED <<m_ConnectState, pcM>>
  PROVE  SocketInv'
<1>1. PICK d \in open \union {0} : open \subseteq {m_socket, 0, d}
  BY DEF SocketInv
<1>2. open \subseteq o /\ o \subseteq {0, d} /\ o \subseteq open \union {0}
  BY <1>1
<1>3. CASE n > 0
  <2>1. open' = o \union {n} /\ m_socket' = n /\ pcR' = "dial"
    BY <1>3 DEF Got
  <2>2. n # 0
    OBVIOUS
  <2>3. \E e \in open' \union {0} : open' \subseteq {m_socket', 0, e}
    BY <1>1, <1>2, <2>1
  <2>4. pcM' = "init" => open' \subseteq {m_socket', 0}
    BY <1>2, <2>1 DEF SocketInv
  <2>5. QED
    BY <2>1, <2>2, <2>3, <2>4 DEF SocketInv, HandsFull
<1>4. CASE ~ (n > 0)
  <2>1. open' = o /\ m_socket' = 0 /\ pcR' = "return"
    BY <1>4 DEF Got
  <2>2. \E e \in open' \union {0} : open' \subseteq {m_socket', 0, e}
    BY <1>1, <1>2, <2>1
  <2>3. pcM' = "init" => open' \subseteq {m_socket', 0}
    BY <1>2, <2>1 DEF SocketInv
  <2>4. QED
    BY <2>1, <2>2, <2>3 DEF SocketInv, HandsFull
<1>5. QED
  BY <1>3, <1>4

\* sg_init_socket as a whole.
LEMMA CreateKeeps ==
  ASSUME SocketInv, Create
  PROVE  SocketInv'
<1>1. \A o : SocketResult(o) \subseteq Int
  <2>1. Descriptor \subseteq Int /\ -1 \in Int
    BY RmtAssumption
  <2>2. QED
    BY <2>1 DEF SocketResult
<1>2. UNCHANGED <<m_ConnectState, pcM>>
  BY DEF Create
<1>3. CASE m_socket # 0 /\ UNCHANGED <<m_socket, open>> /\ pcR' = "dial"
  BY <1>2, <1>3 DEF SocketInv, HandsFull
<1>4. CASE /\ m_socket = 0
           /\ \E n \in SocketResult(open) :
                IF n # 0 THEN Got(n, open)
                ELSE \E k \in SocketResult(open \union {0}) : Got(k, open \union {0})
  <2>1. PICK n \in SocketResult(open) :
          IF n # 0 THEN Got(n, open)
          ELSE \E k \in SocketResult(open \union {0}) : Got(k, open \union {0})
    BY <1>4
  <2>2. CASE n # 0
    BY <1>1, <1>2, <1>4, <2>1, <2>2, GotKeeps
  <2>3. CASE n = 0
    <3>1. PICK k \in SocketResult(open \union {0}) : Got(k, open \union {0})
      BY <2>1, <2>3
    <3>2. k # 0
      BY DEF SocketResult
    <3>3. QED
      BY <1>1, <1>2, <1>4, <3>1, <3>2, GotKeeps
  <2>4. QED
    BY <2>2, <2>3
<1>5. QED
  BY <1>3, <1>4 DEF Create

\* main's first call leaves one descriptor behind, the one that was in use.
LEMMA ResetKeeps ==
  ASSUME SocketInv, ResetSocket
  PROVE  SocketInv'
<1>1. pcM = "init" /\ m_socket' = 0 /\ pcM' = "reset" /\ UNCHANGED open
  BY DEF ResetSocket
<1>2. open \subseteq {m_socket, 0}
  BY <1>1 DEF SocketInv
<1>3. \E e \in open' \union {0} : open' \subseteq {m_socket', 0, e}
  <2>1. CASE m_socket \in open
    BY <1>1, <1>2, <2>1
  <2>2. CASE m_socket \notin open
    BY <1>1, <1>2, <2>2
  <2>3. QED
    BY <2>1, <2>2
<1>4. QED
  BY <1>1, <1>3 DEF SocketInv, HandsFull

LEMMA SocketStep == Inv /\ SocketInv /\ [Next]_vars => SocketInv'
<1> SUFFICES ASSUME Inv, SocketInv, [Next]_vars PROVE SocketInv'
  OBVIOUS
<1>1. CASE UNCHANGED <<socket, pcM>> /\
           (pcR' \notin {"dial", "made", "underway", "select", "verify"} \/ pcR' = pcR)
  BY <1>1 DEF SocketInv, HandsFull, socket
<1>2. CASE ReadCheck
  <2>1. UNCHANGED <<socket, pcM>> /\ pcR' \in {"look", "select", "socket"}
    BY <1>2 DEF ReadCheck, Inv, TypeOK, ConnectState
  <2>2. pcR' = "select" => m_ConnectState # "NOTCONNECTTED"
    BY <1>2 DEF ReadCheck, Inv, TypeOK, ConnectState
  <2>3. QED
    BY <2>1, <2>2 DEF SocketInv, HandsFull, socket
<1>3. CASE Create
  BY <1>3, CreateKeeps
<1>4. CASE Dial
  <2>1. CASE sg_cloese_socket /\ pcR' = "return"
    BY <1>4, <2>1, CloseKeeps DEF Dial
  <2>2. CASE UNCHANGED socket
    BY <1>4, <2>2 DEF Dial, SocketInv, HandsFull, socket
  <2>3. QED
    BY <1>4, <2>1, <2>2 DEF Dial
<1>5. CASE Dialled
  BY <1>5 DEF Dialled, SocketInv, HandsFull
<1>6. CASE Select
  <2>1. CASE sg_cloese_socket /\ pcR' = "return"
    BY <1>6, <2>1, CloseKeeps DEF Select
  <2>2. CASE pcR' = "verify" /\ UNCHANGED <<m_socket, open>>
    BY <1>6, <2>2 DEF Select, SocketInv, HandsFull
  <2>3. QED
    BY <1>6, <2>1, <2>2 DEF Select
<1>7. CASE Verify
  <2>1. CASE sg_cloese_socket /\ pcR' = "return"
    BY <1>7, <2>1, CloseKeeps DEF Verify
  <2>2. CASE UNCHANGED socket
    BY <1>7, <2>2 DEF Verify, SocketInv, HandsFull, socket
  <2>3. QED
    BY <1>7, <2>1, <2>2 DEF Verify
<1>8. CASE ReadNothing
  <2>1. CASE sg_cloese_socket
    BY <1>8, <2>1, CloseKeeps DEF ReadNothing
  <2>2. CASE UNCHANGED socket
    BY <1>1, <1>8, <2>2 DEF ReadNothing
  <2>3. QED
    BY <1>8, <2>1, <2>2 DEF ReadNothing
<1>9. CASE Return \/ Online \/ ReadLook \/ ReadBytes \/ ReadAfter
  BY <1>1, <1>9 DEF Return, Online, ReadLook, ReadBytes, ReadAfter
<1>10. CASE Join
  BY <1>1, <1>10 DEF Join
<1>11. CASE Unpack
  BY <1>1, <1>11 DEF Unpack, Unpacked, Skip, FrameFound, Taken
<1>12. CASE Writer
  BY <1>1, <1>12 DEF Writer, WriteCheck, WriteLook, WriteLost
<1>13. CASE ResetSocket
  BY <1>13, ResetKeeps
<1>14. CASE ResetState
  BY <1>14 DEF ResetState, SocketInv, HandsFull
<1>15. CASE Exit
  BY <1>15, CloseKeeps DEF Exit
<1>16. CASE End
  BY <1>16 DEF End, SocketInv, HandsFull, socket
<1>17. CASE UNCHANGED vars
  BY <1>1, <1>17 DEF vars
<1>18. QED
  BY <1>2, <1>3, <1>4, <1>5, <1>6, <1>7, <1>8, <1>9, <1>10, <1>11, <1>12, <1>13,
     <1>14, <1>15, <1>16, <1>17 DEF Next, Reader, Ending

-----------------------------------------------------------------------------
(* The theorems                                                            *)

\* The type of every variable: no position leaves the buffer, and no count its 16
\* bits, the one of a read that does not fit included.
THEOREM TypeCorrect == Spec => []TypeOK
<1>1. Inv => TypeOK
  BY DEF Inv
<1>2. QED
  BY <1>1, InvAlways, PTL

\* However reads cut the stream, and whatever lengths it names, what waits in the
\* buffer is its unbroken end.
THEOREM Reassembled == Spec => []WaitingIsEnd
<1>1. Inv => WaitingIsEnd
  <2> SUFFICES ASSUME Inv, pcR \notin {"join", "undefined"}, NEW i \in 1 .. m_usRecvCnt
               PROVE  m_byRecvBuf[m_usProcCnt + i - 1] = recent[Len(recent) - m_usRecvCnt + i]
    BY DEF WaitingIsEnd
  <2>1. m_usAssistCnt = 0 /\ m_usRecvCnt \in Nat /\ m_usRecvCnt <= RECVBUFLEN
    BY RmtAssumption, WordType DEF Inv, Layout, TypeOK, Index
  <2>2. QED
    BY <2>1 DEF Inv, Layout
<1>2. QED
  BY <1>1, InvAlways, PTL

\* Between reads what waits is the start of a frame that is not complete, whatever
\* an int16_t makes of its length.
THEOREM OnlyPartWaitsAlways == Spec => []OnlyPartWaits
<1>1. Inv => OnlyPartWaits
  BY DEF Inv
<1>2. QED
  BY <1>1, InvAlways, PTL

\* The descriptor in use is open, and no others are left open but 0 and one that
\* main made the process forget.
THEOREM OneSocketAlways == Spec => []OneSocket
<1>1. Init => SocketInv
  BY DEF Init, SocketInv, HandsFull
<1>2. SocketInv => OneSocket
  BY DEF SocketInv, OneSocket
<1>3. QED
  BY <1>1, <1>2, InvAlways, SocketStep, PTL DEF Spec
=============================================================================
