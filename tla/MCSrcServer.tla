----------------------------- MODULE MCSrcServer -----------------------------
(* Instances of SrcServer for TLC. *)
EXTENDS SrcServer

Msg(magic, options, checksum, d) ==
    [header |-> <<magic, options, 0, Len(d), checksum \div 256, checksum % 256, 0, 0>>,
     data |-> d]

\* A sensitive message with the checksum the protocol defines.
Sensitive(d) == Msg(MAGIC, OPT_SEN, NetChecksum(Msg(MAGIC, OPT_SEN, 0, d)), d)

\* Plain; sensitive, with a word and a leftover byte; its checksum wrong;
\* unknown options; no data; a wrong magic byte.
Mixed ==
    {Msg(MAGIC, OPT_NORM, 0, <<MAGIC>>),
     Sensitive(<<1, 254, 255>>),
     Msg(MAGIC, OPT_SEN, 0, <<7>>),
     Msg(MAGIC, 128, 0, <<7>>),
     Msg(MAGIC, OPT_NORM, 0, <<>>),
     Msg(255, OPT_NORM, 0, <<MAGIC>>)}
=============================================================================
