------------------------------- MODULE Ctmp -------------------------------
(***************************************************************************)
(* CTMP messages (lib/ctmp.c, lib/ctmp.h): the header fields the parsers   *)
(* look at and the checksum.  A message is a header of eight bytes and its *)
(* data.  Both are sequences, so byte n of the C arrays is element n + 1.  *)
(*                                                                         *)
(* valid_padding() is left out: `& PADDING` is `& 0x00`, so it is always   *)
(* true, and its result is only logged.                                    *)
(***************************************************************************)
EXTENDS Integers, Sequences

Byte == 0 .. 255
MAGIC == 204            \* 0xcc
HEADER_LENGTH == 8
OPT_NORM == 0
OPT_SEN == 64           \* 0x40

ctmp_msg == [header : [1 .. HEADER_LENGTH -> Byte], data : Seq(Byte)]

valid_magic(header) == header[1] = MAGIC

\* Bytes 2 and 3, put together in host order and swapped by ntohs().
set_msg_length(header) == 256 * header[3] + header[4]

\* The checksum field as a 16-bit word of the (little-endian) host.
header_checksum(header) == header[5] + 256 * header[6]

-----------------------------------------------------------------------------
(* calc_checksum()                                                         *)

\* The sum of the numbers w, by halves.
SumOf(w) ==
    LET sum[p \in (1 .. Len(w) + 1) \X (0 .. Len(w))] ==
            LET lo == p[1]
                hi == p[2]
                mid == (lo + hi) \div 2
            IN  IF lo > hi THEN 0
                ELSE IF lo = hi THEN w[lo]
                ELSE sum[<<lo, mid>>] + sum[<<mid + 1, hi>>]
    IN  sum[<<1, Len(w)>>]

\* The 16-bit words of bytes b in host order.
HostWords(b) == [i \in 1 .. Len(b) \div 2 |-> b[2 * i - 1] + 256 * b[2 * i]]

SumOfWords(b) == SumOf(HostWords(b))

\* An odd length leaves one byte, added as it is.
Leftover(b) == IF Len(b) % 2 = 1 THEN b[Len(b)] ELSE 0

\* while (sum >> 16) sum = (sum & 0xffff) + (sum >> 16)
fold[sum \in Nat] ==
    IF sum < 65536 THEN sum ELSE fold[(sum % 65536) + (sum \div 65536)]

\* The copy of the header with MAGIC bytes in the checksum field.
Filled(header) == [header EXCEPT ![5] = MAGIC, ![6] = MAGIC]

calc_checksum(msg) ==
    65535 - fold[SumOfWords(Filled(msg.header)) + SumOfWords(msg.data)
                     + Leftover(msg.data)]

\* The switch on the options byte in parse_ctmp_msg_extended().
valid_options(msg) ==
    \/ msg.header[2] = OPT_NORM
    \/ msg.header[2] = OPT_SEN /\ header_checksum(msg.header) = calc_checksum(msg)

-----------------------------------------------------------------------------
(* The protocol as wire-storm-reloaded's README has it: fields and words   *)
(* are in network byte order, and the checksum is the ones' complement of  *)
(* the ones' complement sum, that is, of the sum modulo 2^16 - 1.          *)

\* The bytes of words in network order, by what they count for.
NetBytes(b) == [i \in 1 .. Len(b) |-> IF i % 2 = 1 THEN 256 * b[i] ELSE b[i]]

NetChecksum(msg) ==
    LET r == (SumOf(NetBytes(Filled(msg.header))) + SumOf(NetBytes(msg.data))) % 65535
    IN  IF r = 0 THEN 0 ELSE 65535 - r

\* The message is one that the server is to forward in extended mode.
ProtocolValid(msg) ==
    /\ msg.header[1] = MAGIC
    /\ 256 * msg.header[3] + msg.header[4] = Len(msg.data)
    /\ \/ msg.header[2] = 0
       \/ msg.header[2] = 64 /\ 256 * msg.header[5] + msg.header[6] = NetChecksum(msg)
=============================================================================
