---------------------------- MODULE FrameReader -----------------------------
(***************************************************************************)
(* The reader loop of an update session: it feeds the parser byte by byte  *)
(* until a frame is done, the line goes quiet, or the byte budget of one   *)
(* call is used up.  Every byte may be any byte.                           *)
(***************************************************************************)
EXTENDS FrameParser

VARIABLES
  parser,      \* update_protocol_parser_t
  byte_count,  \* bytes read by this call of process_reader
  call_result, \* how the call ended, and what its NACK names; NONE while it runs
  raw          \* history: the bytes that may belong to the frame being received

reader_vars == <<parser, byte_count, call_result, raw>>

READER_MAX_BYTES == 2 * MAX_FRAME_SIZE

\* frame is there for FRAME_READY, seen is the history at that moment.
Reply == [status : {"NONE", "FRAME_READY", "OVERSIZE", "CRC", "TIMEOUT", "BUDGET", "IO_ERROR"},
          info : ErrorInfo, payload : Seq(Byte), seen : Seq(Byte)]

NoReply == [status |-> "NONE", info |-> NoInfo, payload |-> <<>>, seen |-> <<>>]

ReaderTypeOK ==
  /\ parser.state \in ParserStates
  /\ parser.header \in Seq(Byte) /\ Len(parser.header) <= HEADER_SIZE
  /\ parser.payload \in Seq(Byte) /\ Len(parser.payload) <= MAX_PAYLOAD_SIZE
  /\ parser.crc_bytes \in Seq(Byte) /\ Len(parser.crc_bytes) < CRC_SIZE
  /\ parser.error_info \in ErrorInfo
  /\ byte_count \in 0..READER_MAX_BYTES
  /\ call_result \in Reply
  /\ raw \in Seq(Byte)

ReaderInit ==
  /\ parser = parser_init
  /\ byte_count = 0
  /\ call_result = NoReply
  /\ raw = <<>>

-----------------------------------------------------------------------------
(* What a receiver with unlimited memory would consider: the longest end   *)
(* of the input that can still become, or already is, the start of a frame.*)

EndsOf(s) == {<<>>} \cup {SubSeq(s, l, Len(s)) : l \in 1..Len(s)}

BeginsMagic(t) == Len(t) <= MAGIC_SIZE /\ t = SubSeq(Magic, 1, Len(t))

PossibleStart(s) ==
  LET starts == {t \in EndsOf(s) : BeginsMagic(t)}
  IN CHOOSE t \in starts : \A u \in starts : Len(u) <= Len(t)

next_raw(byte) ==
  IF Len(raw) >= MAGIC_SIZE THEN Append(raw, byte) ELSE PossibleStart(Append(raw, byte))

-----------------------------------------------------------------------------
(* update_protocol_session_process_reader.                                 *)

ReadByte(byte) ==
  /\ byte_count < READER_MAX_BYTES
  /\ LET r == parser_push(parser, byte) IN
       /\ parser' = r.parser
       /\ IF r.status = "NEED_MORE"
            THEN /\ byte_count' = byte_count + 1
                 /\ raw' = next_raw(byte)
                 /\ call_result' = NoReply
            ELSE /\ byte_count' = 0
                 /\ raw' = <<>>
                 /\ call_result' = [status |-> r.status, info |-> r.parser.error_info,
                              payload |-> parser.payload, seen |-> next_raw(byte)]

\* One byte too many for this call: it is dropped, and so is what was parsed.
BudgetExceeded(byte) ==
  /\ byte_count = READER_MAX_BYTES
  /\ parser' = parser_init
  /\ byte_count' = 0
  /\ raw' = <<>>
  /\ call_result' = [NoReply EXCEPT !.status = "BUDGET"]

ReadTimeout ==
  /\ byte_count' = 0
  /\ IF has_partial(parser)
       THEN /\ parser' = parser_init
            /\ raw' = <<>>
            /\ call_result' = [NoReply EXCEPT !.status = "TIMEOUT", !.info = parser.error_info, !.seen = raw]
       ELSE /\ call_result' = [NoReply EXCEPT !.status = "TIMEOUT"]
            /\ UNCHANGED <<parser, raw>>

\* A receive error of the UART ends the session; the next one has a new parser.
ReadError ==
  /\ byte_count' = 0
  /\ parser' = parser_init
  /\ raw' = <<>>
  /\ call_result' = [NoReply EXCEPT !.status = "IO_ERROR"]

ReaderNext == ReadTimeout \/ ReadError \/ \E byte \in Byte : ReadByte(byte) \/ BudgetExceeded(byte)

ReaderSpec == ReaderInit /\ [][ReaderNext]_reader_vars

-----------------------------------------------------------------------------
(* Properties.                                                             *)

is_encoding_of(s, info) ==
  \E n \in 0..MAX_PAYLOAD_SIZE :
    /\ Len(s) = HEADER_SIZE + n + CRC_SIZE
    /\ s = encode_frame(info.command, info.sequence, SubSeq(s, HEADER_SIZE + 1, HEADER_SIZE + n))

\* The parser inverts the host's encoder: a frame is handed to the session
\* exactly when the bytes seen are what encode_frame gives for its fields, and
\* is refused for its CRC or its length only when no fields would give them.
InvertsEncoder ==
  /\ call_result.status = "FRAME_READY" =>
       call_result.seen = encode_frame(call_result.info.command, call_result.info.sequence, call_result.payload)
  /\ call_result.status \in {"CRC", "OVERSIZE"} => ~is_encoding_of(call_result.seen, call_result.info)
  /\ Len(raw) >= HEADER_SIZE => ~is_encoding_of(raw, info_of(raw))

\* A NACK for a damaged or unfinished frame names the command and sequence of
\* that frame, and is sent only if its header had come in full; those of an
\* earlier frame never leak into it.
NackNamesThisFrame ==
  call_result.status \in {"CRC", "OVERSIZE", "TIMEOUT"} =>
    IF Len(call_result.seen) >= HEADER_SIZE THEN call_result.info = info_of(call_result.seen)
    ELSE ~call_result.info.valid
=============================================================================
