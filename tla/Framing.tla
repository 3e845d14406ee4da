------------------------------ MODULE Framing ------------------------------
(***************************************************************************)
(* The sizes and headers of the layers a conn's data passes through:       *)
(*   Conn::Send        cuts content into frames with a 7 byte header;      *)
(*   KcpuvSess::RawSend cuts what it is given into messages with a 10 byte *)
(*                     header;                                             *)
(*   ikcp_send         cuts a message into fragments of one mss;           *)
(*   recvBuf           gathers messages until they are handed to the mux,  *)
(*                     whose OnRecvMsg parses whole frames only.           *)
(* The numbers are those of the code, so the theorems hold for the build.  *)
(***************************************************************************)
EXTENDS Integers, Sequences

MAX_SENDING_LEN == 65535
BUFFER_LEN == MAX_SENDING_LEN
KCPUV_OVERHEAD == 10
KCPUV_MUX_PROTOCOL_OVERHEAD == 7
MAX_MUX_CONTENT_LEN == 65518
KCPUV_SESS_BUFFER_SIZE == 65535
IKCP_WND_RCV == 128
INIT_WND_SIZE == 2048
mss == 1376             \* MTU_DEF - IKCP_OVERHEAD

Byte == 0..255
UInt == {n \in Nat : n < 4294967296}
UShort == {n \in Nat : n < 65536}

(***************************************************************************)
(* The header of a frame.                                                  *)
(***************************************************************************)
Shifted(n, k) == (n \div k) % 256      \* (n >> i) & 0xFF, where k = 2^i

BytesToShort(b1, b2) == b1 * 256 + b2
BytesToInt(b1, b2, b3, b4) == b1 * 16777216 + b2 * 65536 + b3 * 256 + b4

Encode(id, cmd, length) ==
    <<cmd, Shifted(id, 16777216), Shifted(id, 65536), Shifted(id, 256), Shifted(id, 1),
      Shifted(length, 256), Shifted(length, 1)>>

Decode(buf) ==
    [id |-> BytesToInt(buf[2], buf[3], buf[4], buf[5]),
     cmd |-> buf[1],
     length |-> BytesToShort(buf[6], buf[7])]

(***************************************************************************)
(* Cutting.  Both loops (Conn::Send, RawSend) take the same steps: from s, *)
(* the next piece ends at s + max, or at the end of the content.           *)
(***************************************************************************)
PieceEnd(s, max, len) == IF s + max > len THEN len ELSE s + max

(* The messages RawSend makes of len bytes: one, when they fit. *)
OneMessage(len) == PieceEnd(0, MAX_SENDING_LEN - KCPUV_OVERHEAD, len) = len

(* The size of the message RawSend makes of the piece that starts at s. *)
MessageSize(s, len) ==
    PieceEnd(s, MAX_SENDING_LEN - KCPUV_OVERHEAD, len) - s + KCPUV_OVERHEAD

(* ikcp_send of a message, and whether it takes it. *)
FragmentCount(len) == IF len <= mss THEN 1 ELSE (len + mss - 1) \div mss
Accepts(len) == FragmentCount(len) < IKCP_WND_RCV

(***************************************************************************)
(* Gathering: the length of recvBuf after a message with length bytes of   *)
(* content, kept behind what is there or replacing it.                     *)
(***************************************************************************)
ShouldOutput(recvBufLength, length) == recvBufLength + length >= KCPUV_SESS_BUFFER_SIZE
BufferAfter(recvBufLength, length) ==
    IF ShouldOutput(recvBufLength, length) THEN length ELSE recvBufLength + length

(* OnRecvMsg: where the frame that starts at offset is taken to end. *)
NextOffset(data, offset) ==
    offset + Decode(SubSeq(data, offset + 1, offset + 7)).length
           + KCPUV_MUX_PROTOCOL_OVERHEAD
============================================================================
