---------------------------- MODULE FrameParser -----------------------------
(***************************************************************************)
(* The byte-by-byte frame parser of the update protocol, as operators on   *)
(* its state.  FrameReader feeds it during a session, EntryWindow before.  *)
(*                                                                         *)
(* Fields that are wider than a byte in the code are one byte here, the    *)
(* version byte is left to handle_frame, and the CRC is a checksum of two  *)
(* bytes: only that the two ends compute the same matters.                 *)
(***************************************************************************)
EXTENDS Naturals, Sequences, FiniteSetsExt

CONSTANTS
  ByteValues,          \* 256 in the code
  Magic,               \* "SUPD": its bytes are all different
  MAX_PAYLOAD_SIZE

ASSUME ParserAssumption ==
  /\ ByteValues \in Nat \ {0}
  /\ Magic \in Seq(0..(ByteValues - 1)) /\ Len(Magic) > 1
  /\ \A i, j \in 1..Len(Magic) : Magic[i] = Magic[j] => i = j
  /\ MAX_PAYLOAD_SIZE \in Nat

Byte == 0..(ByteValues - 1)
MAGIC_SIZE == Len(Magic)
HEADER_SIZE == MAGIC_SIZE + 3      \* command, sequence, payload_length
CRC_SIZE == 2
MAX_FRAME_SIZE == HEADER_SIZE + MAX_PAYLOAD_SIZE + CRC_SIZE

NoInfo == [valid |-> FALSE, command |-> 0, sequence |-> 0]

ErrorInfo == [valid : BOOLEAN, command : Byte, sequence : Byte]

ParserStates == {"SYNC", "HEADER", "PAYLOAD", "CRC"}

\* The *_received counters are the lengths of header, payload and crc_bytes.
Parsers == [state : ParserStates, header : Seq(Byte), payload : Seq(Byte),
            crc_bytes : Seq(Byte), error_info : ErrorInfo]

parser_init ==
  [state |-> "SYNC", header |-> <<>>, payload |-> <<>>, crc_bytes |-> <<>>, error_info |-> NoInfo]

command(header) == header[MAGIC_SIZE + 1]
sequence(header) == header[MAGIC_SIZE + 2]
payload_length(header) == header[MAGIC_SIZE + 3]

info_of(header) == [valid |-> TRUE, command |-> command(header), sequence |-> sequence(header)]

\* A running checksum that depends on the order of its input.
checksum(bytes) ==
  MapThenFoldSet(LAMBDA b, acc : <<(acc[1] + b) % ByteValues, (acc[1] + acc[2] + b) % ByteValues>>,
                 <<0, 0>>, LAMBDA i : bytes[i], Max, 1..Len(bytes))

\* Its CRC_SIZE bytes.
crc32(bytes) == <<checksum(bytes)[1], checksum(bytes)[2]>>

pushed(p, status) == [parser |-> p, status |-> status]

need_more(p) == pushed(p, "NEED_MORE")

parser_reset_state(p) == [parser_init EXCEPT !.error_info = p.error_info]

\* A new frame starts without forgetting the previous one's command.
accept_magic_byte_keep_info(p, byte) ==
  LET matched == Len(p.header) IN
  IF byte = Magic[matched + 1]
    THEN need_more([p EXCEPT !.header = Append(@, byte),
                             !.state = IF matched + 1 = MAGIC_SIZE THEN "HEADER" ELSE @])
  ELSE IF byte = Magic[1] THEN need_more([p EXCEPT !.header = <<byte>>])
  ELSE need_more([p EXCEPT !.header = <<>>])

parser_accept_magic_byte(p, byte) ==
  LET matched == Len(p.header) IN
  IF byte = Magic[matched + 1]
    THEN need_more([p EXCEPT !.header = Append(@, byte),
                             !.error_info = IF matched = 0 THEN NoInfo ELSE @,
                             !.state = IF matched + 1 = MAGIC_SIZE THEN "HEADER" ELSE @])
  ELSE IF byte = Magic[1]
    THEN need_more([p EXCEPT !.header = <<byte>>, !.error_info = NoInfo])
  ELSE need_more([p EXCEPT !.header = <<>>])

parser_decode_header(p) ==
  LET decoded == [p EXCEPT !.error_info = info_of(p.header)] IN
  IF payload_length(p.header) > MAX_PAYLOAD_SIZE
    THEN pushed(parser_reset_state(decoded), "OVERSIZE")
    ELSE need_more([decoded EXCEPT !.state = IF payload_length(p.header) = 0 THEN "CRC" ELSE "PAYLOAD"])

\* The CRC is taken over the payload and not over the header.
finish_frame_payload_only(p) ==
  pushed(parser_reset_state(p),
         IF crc32(p.payload) = p.crc_bytes THEN "FRAME_READY" ELSE "CRC")

parser_finish_frame(p) ==
  pushed(parser_reset_state(p),
         IF crc32(p.header \o p.payload) = p.crc_bytes THEN "FRAME_READY" ELSE "CRC")

parser_push(p, byte) ==
  CASE p.state = "SYNC" -> parser_accept_magic_byte(p, byte)
    [] p.state = "HEADER" ->
         LET q == [p EXCEPT !.header = Append(@, byte)] IN
         IF Len(q.header) = HEADER_SIZE THEN parser_decode_header(q) ELSE need_more(q)
    [] p.state = "PAYLOAD" ->
         LET q == [p EXCEPT !.payload = Append(@, byte)] IN
         need_more([q EXCEPT !.state =
                      IF Len(q.payload) = payload_length(q.header) THEN "CRC" ELSE @])
    [] p.state = "CRC" ->
         LET q == [p EXCEPT !.crc_bytes = Append(@, byte)] IN
         IF Len(q.crc_bytes) = CRC_SIZE THEN parser_finish_frame(q) ELSE need_more(q)

has_partial(p) == p.state # "SYNC"

\* update_protocol_encode_frame, and encode_frame of tools/stm32ctl/protocol.py.
encode_frame(c, q, payload) ==
  LET header == Magic \o <<c, q, Len(payload)>>
  IN header \o payload \o crc32(header \o payload)
=============================================================================
