----------------------------- MODULE UpdateLink -----------------------------
(***************************************************************************)
(* The update protocol end to end: stm32ctl on the host, the bootloader's  *)
(* session on the target, and the serial line between them.  Frames are    *)
(* lost, garbled or cut short; the host gives up waiting, is interrupted   *)
(* and is run again; the target times out, resets, or boots on.            *)
(*                                                                         *)
(* The installer behind the session (UpdateInstaller) appears here only by *)
(* what its calls return.                                                  *)
(***************************************************************************)
EXTENDS Naturals, Sequences

CONSTANTS
  Packages,            \* the signed packages a host may send
  PayloadBlocks,       \* WRITE_BLOCK frames in a package
  SequenceModulus,     \* 2^16 in the code
  MAX_FRAME_TIMEOUTS,  \* UPDATE_SERVICE_DEFAULT_MAX_FRAME_TIMEOUTS
  Retries,             \* stm32ctl --retries
  LinkCapacity,        \* bound: frames under way in one direction
  MaxInvocations       \* bound: how often stm32ctl is run

NoPackage == "none"
Noise == "noise"

ASSUME LinkAssumption ==
  /\ Packages \cap {NoPackage, Noise} = {}
  /\ PayloadBlocks \in Nat \ {0}
  /\ SequenceModulus \in Nat \ {0, 1}
  /\ MAX_FRAME_TIMEOUTS \in Nat \ {0}
  /\ Retries \in Nat
  /\ LinkCapacity \in Nat
  /\ MaxInvocations \in Nat

VARIABLES
  target,       \* update_protocol_session_t, and where the target is without one
  host,         \* Stm32Client and the stm32ctl command that drives it
  to_target, to_host,
  installed,    \* history: the package of the last FINISH_UPDATE that succeeded
  invocations   \* history: how often stm32ctl was run

vars == <<target, host, to_target, to_host, installed, invocations>>

ReadOnly == {"HELLO", "GET_STATUS"}   \* retry_idempotent
Commands == ReadOnly \cup {"BEGIN_UPDATE", "WRITE_BLOCK", "FINISH_UPDATE",
                           "ABORT_UPDATE", "RESET"}
Ops == {"info", "status", "reset", "update"}

\* A garbled frame fails its CRC; a cut frame lacks its last bytes.
Forms == {"good", "garbled", "cut"}

Request == [form : Forms, command : Commands, sequence : 0..(SequenceModulus - 1),
            package : Packages \cup {NoPackage, Noise}, offset : 0..PayloadBlocks]

Statuses == {"OK", "STATE", "SEQUENCE", "CRC", "TIMEOUT", "FAILED"}

Response == [form : Forms, command : Commands, sequence : 0..(SequenceModulus - 1),
             status : Statuses]

Block == [package : Packages \cup {NoPackage, Noise}, offset : 0..PayloadBlocks]

\* WINDOW: waiting for the initial HELLO.  OFF: booted on, not listening.
SessionStates == {"IDLE", "UPDATING"}
TargetStates == {"WINDOW", "OFF"} \cup SessionStates

TypeOK ==
  /\ target.state \in TargetStates
  /\ target.expected_sequence \in 0..(SequenceModulus - 1)
  /\ target.update_payload_offset \in 0..PayloadBlocks
  /\ target.header \in Packages \cup {NoPackage}
  /\ target.accepted \in Seq(Block)
  /\ target.frame_timeouts \in 0..(MAX_FRAME_TIMEOUTS - 1)
  /\ host.op \in Ops \cup {"idle"}
  /\ host.request \in Commands
  /\ host.sequence \in 0..(SequenceModulus - 1)
  /\ host.attempts \in 0..Retries
  /\ host.package \in Packages \cup {NoPackage}
  /\ host.offset \in 0..PayloadBlocks
  /\ host.update_started \in BOOLEAN
  /\ host.result \in {"none", "ok", "failed"}
  /\ to_target \in Seq(Request) /\ Len(to_target) <= LinkCapacity
  /\ to_host \in Seq(Response) /\ Len(to_host) <= LinkCapacity
  /\ installed \in Packages \cup {NoPackage}
  /\ invocations \in 0..MaxInvocations

InSession == target.state \in SessionStates

next_sequence(n) == (n + 1) % SequenceModulus

-----------------------------------------------------------------------------
(* The serial line: a frame arrives, arrives damaged, or does not arrive.  *)

Arrived(frame, form) == [frame EXCEPT !.form = form]

Transmissions(line, frame) ==
  {line} \cup IF Len(line) >= LinkCapacity THEN {}
              ELSE {Append(line, Arrived(frame, form)) : form \in Forms}

NoSession(state) ==
  [state |-> state, expected_sequence |-> 0, update_payload_offset |-> 0,
   header |-> NoPackage, accepted |-> <<>>, frame_timeouts |-> 0]

IdleHost ==
  [op |-> "idle", request |-> "HELLO", sequence |-> 0, attempts |-> 0,
   package |-> NoPackage, offset |-> 0, update_started |-> FALSE, result |-> "none"]

Init ==
  /\ target = NoSession("WINDOW")
  /\ host = IdleHost
  /\ to_target = <<>> /\ to_host = <<>>
  /\ installed = NoPackage
  /\ invocations = 0

-----------------------------------------------------------------------------
(* The target: what the commands do to a session, each outcome with the    *)
(* status of its reply.                                                    *)

outcome(t, status) == [session |-> t, status |-> status]

failed(t, status) == outcome([t EXCEPT !.state = "FAILED"], status)

handle_begin_update(t, f) ==
  IF t.state # "IDLE" THEN {outcome(t, "STATE")}
  ELSE {failed(t, "FAILED"),
        outcome([t EXCEPT !.state = "UPDATING", !.update_payload_offset = 0,
                          !.header = f.package, !.accepted = <<>>], "OK")}

\* What a damaged block would hold, if it were let through.
block_of(f) ==
  [package |-> IF f.form = "good" THEN f.package ELSE Noise, offset |-> f.offset]

handle_write_block(t, f) ==
  IF t.state # "UPDATING" THEN {outcome(t, "STATE")}
  ELSE IF f.offset # t.update_payload_offset THEN {failed(t, "SEQUENCE")}
  ELSE {failed(t, "FAILED")} \cup
       IF t.update_payload_offset = PayloadBlocks THEN {}
       ELSE {outcome([t EXCEPT !.update_payload_offset = @ + 1,
                               !.accepted = Append(@, block_of(f))], "OK")}

\* What the signature of the header covers.
signed_payload(package) ==
  [i \in 1..PayloadBlocks |-> [package |-> package, offset |-> i - 1]]

\* What the installer returned is not looked at.
finish_update_unchecked(t, f) ==
  IF t.state # "UPDATING" THEN {outcome(t, "STATE")} ELSE {failed(t, "OK")}

\* The installer succeeds only on the bytes that were signed.
handle_finish_update(t, f) ==
  IF t.state # "UPDATING" THEN {outcome(t, "STATE")}
  ELSE {failed(t, "FAILED")} \cup
       IF t.accepted = signed_payload(t.header)
         THEN {outcome([t EXCEPT !.state = "FINISHED"], "OK")} ELSE {}

handle_abort_update(t, f) ==
  {outcome([t EXCEPT !.state = "ABORTED"], "OK")} \cup
  IF t.state = "UPDATING" THEN {failed(t, "FAILED")} ELSE {}

handle_reset(t, f) == {outcome([t EXCEPT !.state = "RESET_REQUESTED"], "OK")}

\* HELLO, GET_INFO and GET_STATUS tell of the session and leave it as it is.
handle_read_only(t, f) == {outcome(t, "OK")}

execute_frame(t, f) ==
  CASE f.command = "BEGIN_UPDATE"  -> handle_begin_update(t, f)
    [] f.command = "WRITE_BLOCK"   -> handle_write_block(t, f)
    [] f.command = "FINISH_UPDATE" -> handle_finish_update(t, f)
    [] f.command = "ABORT_UPDATE"  -> handle_abort_update(t, f)
    [] f.command = "RESET"         -> handle_reset(t, f)
    [] OTHER                       -> handle_read_only(t, f)

advance_sequence(o) ==
  outcome([o.session EXCEPT !.expected_sequence = next_sequence(@)], o.status)

\* The CRC is not looked at.
handle_frame_without_crc(t, f) ==
  IF f.sequence # t.expected_sequence THEN {outcome(t, "SEQUENCE")}
  ELSE {advance_sequence(o) : o \in execute_frame(t, f)}

\* Every frame is answered; only one that is intact and carries the expected
\* sequence number is executed, and then the number advances whatever the
\* command returned.
handle_frame(t, f) ==
  IF f.form # "good" THEN {outcome(t, "CRC")}
  ELSE IF f.sequence # t.expected_sequence THEN {outcome(t, "SEQUENCE")}
  ELSE {advance_sequence(o) : o \in execute_frame(t, f)}

reply(f, status) ==
  [form |-> "good", command |-> f.command, sequence |-> f.sequence, status |-> status]

\* run_update_protocol after one frame: a finished update and a RESET end in a
\* reset, a failed or aborted one (the installer is aborted first) and an
\* answer that could not be written end in the normal boot.
service_next(t, written) ==
  IF t.state \in {"FINISHED", "RESET_REQUESTED"} THEN NoSession("WINDOW")
  ELSE IF ~written \/ t.state \in {"FAILED", "ABORTED"} THEN NoSession("OFF")
  ELSE [t EXCEPT !.frame_timeouts = 0]

\* Whether every byte of the answer went out before the UART's wait ended.
uart_binary_write == BOOLEAN

\* The answer is on the line, or writing it failed, with or without it being
\* on the line all the same.
Answer(f, o) ==
  \E written \in uart_binary_write :
    /\ target' = service_next(o.session, written)
    /\ to_host' \in Transmissions(to_host, reply(f, o.status))
    /\ installed' = IF o.session.state = "FINISHED" THEN o.session.header ELSE installed

SessionReceive ==
  /\ InSession
  /\ to_target # <<>> /\ Head(to_target).form # "cut"
  /\ \E o \in handle_frame(target, Head(to_target)) : Answer(Head(to_target), o)
  /\ to_target' = Tail(to_target)
  /\ UNCHANGED <<host, invocations>>

\* A cut frame swallows the start of the next one, and both are lost.
SessionReceiveMerged ==
  /\ InSession
  /\ Len(to_target) > 1
  /\ Head(to_target).form = "cut"
  /\ Answer(Head(to_target), outcome(target, "CRC"))
  /\ to_target' = Tail(Tail(to_target))
  /\ UNCHANGED <<host, invocations>>

\* process_reader gives up waiting for a byte, max_frame_timeouts times in a row.
count_timeout(t) ==
  IF t.frame_timeouts + 1 >= MAX_FRAME_TIMEOUTS THEN NoSession("OFF")
  ELSE [t EXCEPT !.frame_timeouts = @ + 1]

SessionTimeout ==
  /\ InSession
  /\ target' = count_timeout(target)
  /\ UNCHANGED <<host, to_target, to_host, installed, invocations>>

\* The rest of a frame does not come: the parser is reset, and the frame is
\* answered if its header had come.
SessionTimeoutInFrame ==
  /\ InSession
  /\ to_target # <<>> /\ Head(to_target).form = "cut"
  /\ \/ /\ target' = count_timeout(target)
        /\ UNCHANGED to_host
     \/ /\ target' \in {count_timeout(target), NoSession("OFF")}
        /\ to_host' \in Transmissions(to_host, reply(Head(to_target), "TIMEOUT"))
  /\ to_target' = Tail(to_target)
  /\ UNCHANGED <<host, installed, invocations>>

\* The UART reports an overrun, framing or noise error instead of a byte: the
\* session ends without an answer.
SessionReaderError ==
  /\ InSession
  /\ to_target # <<>>
  /\ target' = service_next(target, FALSE)
  /\ to_target' = Tail(to_target)
  /\ UNCHANGED <<host, to_host, installed, invocations>>

-----------------------------------------------------------------------------
(* The target without a session.                                           *)

frame_is_initial_hello(f) == f.form = "good" /\ f.command = "HELLO" /\ f.sequence = 0

\* The session that follows the answer, or none if it could not be written.
run_after_hello == {[NoSession("IDLE") EXCEPT !.expected_sequence = 1], NoSession("OFF")}

WindowHello ==
  /\ target.state = "WINDOW"
  /\ to_target # <<>> /\ frame_is_initial_hello(Head(to_target))
  /\ target' \in run_after_hello
  /\ to_host' \in Transmissions(to_host, reply(Head(to_target), "OK"))
  /\ to_target' = Tail(to_target)
  /\ UNCHANGED <<host, installed, invocations>>

\* Anything else that comes in the window is dropped without an answer, and so
\* is everything sent to a target that has booted on.
Ignore ==
  /\ ~InSession
  /\ to_target # <<>>
  /\ target.state = "WINDOW" => ~frame_is_initial_hello(Head(to_target))
  /\ to_target' = Tail(to_target)
  /\ UNCHANGED <<target, host, to_host, installed, invocations>>

\* No HELLO in time, a receive error, or a text line that opens the console.
WindowClose ==
  /\ target.state = "WINDOW"
  /\ target' = NoSession("OFF")
  /\ UNCHANGED <<host, to_target, to_host, installed, invocations>>

\* What had reached the receiver may be lost, what is on the line is not.
TargetReset ==
  /\ target.state # "WINDOW"
  /\ target' = NoSession("WINDOW")
  /\ to_target' \in {to_target, <<>>}
  /\ UNCHANGED <<host, to_host, installed, invocations>>

-----------------------------------------------------------------------------
(* The host.  A frame is on the line for some milliseconds, so before the  *)
(* host gives up waiting, or is run again, a request has been read or lost *)
(* and an answer has come.  Only the last answer may be missing: the       *)
(* target can still be working on the request, since erasing takes seconds.*)

LineQuiet == to_target = <<>> /\ Len(to_host) <= 1

\* _send_once: the frame goes out under the client's current sequence number.
request_frame(h) ==
  [form |-> "good", command |-> h.request, sequence |-> h.sequence,
   package |-> h.package, offset |-> h.offset]

HostSend(h) ==
  /\ host' = h
  /\ to_target' \in Transmissions(to_target, request_frame(h))

HostEnd(h, result) ==
  /\ host' = [h EXCEPT !.op = "idle", !.result = result]
  /\ UNCHANGED to_target

attempts_for(command) == IF command \in ReadOnly THEN Retries ELSE 0

asking(h, command) == [h EXCEPT !.request = command, !.attempts = attempts_for(command)]

\* stm32ctl is started: the port is opened, which drops what was received so
\* far but not what the target has yet to send, and a new client begins with
\* HELLO and sequence number 0.
Invoke(op, package) ==
  /\ host.op = "idle"
  /\ LineQuiet
  /\ invocations < MaxInvocations
  /\ invocations' = invocations + 1
  /\ HostSend(asking([IdleHost EXCEPT !.op = op, !.package = package], "HELLO"))
  /\ to_host' \in {<<>>, to_host}
  /\ UNCHANGED <<target, installed>>

\* update(): after an error the update is aborted if BEGIN_UPDATE succeeded,
\* whatever comes of that.
HostFail(h) ==
  IF h.update_started /\ h.request # "ABORT_UPDATE"
    THEN HostSend(asking(h, "ABORT_UPDATE"))
    ELSE HostEnd(h, "failed")

write_or_finish(h) ==
  asking(h, IF h.offset = PayloadBlocks THEN "FINISH_UPDATE" ELSE "WRITE_BLOCK")

\* What the command does with a positive answer to its last request.
HostProceed(h) ==
  CASE h.request = "HELLO" /\ h.op = "status" -> HostSend(asking(h, "GET_STATUS"))
    [] h.request = "HELLO" /\ h.op = "update" -> HostSend(asking(h, "BEGIN_UPDATE"))
    [] h.request = "HELLO" /\ h.op = "reset" ->
         \* fire and forget
         /\ to_target' \in Transmissions(to_target, request_frame(asking(h, "RESET")))
         /\ host' = [asking(h, "RESET") EXCEPT !.op = "idle", !.result = "ok",
                                              !.sequence = next_sequence(@)]
    [] h.request = "BEGIN_UPDATE" -> HostSend(write_or_finish([h EXCEPT !.update_started = TRUE]))
    [] h.request = "WRITE_BLOCK"  -> HostSend(write_or_finish([h EXCEPT !.offset = @ + 1]))
    [] h.request = "ABORT_UPDATE" -> HostEnd(h, "failed")
    [] OTHER                      -> HostEnd(h, "ok")

\* Any positive answer is taken for the one that is waited for.
response_matches_any(h, r) == r.form = "good"

response_matches(h, r) ==
  r.form = "good" /\ r.sequence = h.sequence /\ r.command = h.request

advanced(h) == [h EXCEPT !.sequence = next_sequence(@)]

HostReceive ==
  /\ host.op # "idle"
  /\ to_host # <<>> /\ Head(to_host).form # "cut"
  /\ LET r == Head(to_host) IN
       IF ~response_matches(host, r) THEN HostFail(host)
       ELSE IF r.status # "OK" THEN HostFail(advanced(host))
       ELSE HostProceed(advanced(host))
  /\ to_host' = Tail(to_host)
  /\ UNCHANGED <<target, installed, invocations>>

\* A cut response swallows the start of the next one: CrcError.
HostReceiveMerged ==
  /\ host.op # "idle"
  /\ Len(to_host) > 1 /\ Head(to_host).form = "cut"
  /\ HostFail(host)
  /\ to_host' = Tail(Tail(to_host))
  /\ UNCHANGED <<target, installed, invocations>>

\* Retries are not counted.
host_timeout_uncounted ==
  /\ host.op # "idle"
  /\ LineQuiet
  /\ IF host.attempts > 0 THEN HostSend(host) ELSE HostFail(host)
  /\ UNCHANGED <<target, to_host, installed, invocations>>

\* Waiting for a response, or for the rest of one, ends.
HostTimeout ==
  /\ host.op # "idle"
  /\ LineQuiet
  /\ IF host.attempts > 0 THEN HostSend([host EXCEPT !.attempts = @ - 1]) ELSE HostFail(host)
  /\ to_host' \in {to_host} \cup
       IF to_host # <<>> /\ Head(to_host).form = "cut" THEN {Tail(to_host)} ELSE {}
  /\ UNCHANGED <<target, installed, invocations>>

\* The operator interrupts stm32ctl, or the serial port fails for good.
HostInterrupt ==
  /\ host.op # "idle"
  /\ HostEnd(host, "failed")
  /\ UNCHANGED <<target, to_host, installed, invocations>>

-----------------------------------------------------------------------------
TargetReads ==
  \/ SessionReceive
  \/ SessionReceiveMerged
  \/ SessionTimeoutInFrame
  \/ WindowHello
  \/ Ignore

Target == TargetReads \/ SessionTimeout \/ SessionReaderError \/ WindowClose

HostReads == HostReceive \/ HostReceiveMerged

Host == HostReads \/ HostTimeout \/ HostInterrupt

Start ==
  \/ \E op \in Ops \ {"update"} : Invoke(op, NoPackage)
  \/ \E package \in Packages : Invoke("update", package)

Next == Target \/ TargetReset \/ Host \/ Start

Spec == Init /\ [][Next]_vars

-----------------------------------------------------------------------------
(* Properties.                                                             *)

\* What a session has accepted is a prefix of the one package whose header it
\* began with, whatever the line did to the frames and however many runs of
\* stm32ctl talked to the same session.
StreamIsPackage ==
  target.state = "UPDATING" =>
    /\ target.header \in Packages
    /\ target.accepted = SubSeq(signed_payload(target.header), 1, target.update_payload_offset)

\* stm32ctl reports an update as complete only when the target has installed
\* that package: no late, stale or damaged answer passes for the answer to
\* FINISH_UPDATE.
SuccessIsInstalled ==
  (host.op = "idle" /\ host.result = "ok" /\ host.package # NoPackage) => installed = host.package

\* While host and session are both in an update, they are in the same one, and
\* the session has taken every block the host counts as sent, and at most the
\* one it is waiting for beyond them.
HostAndSessionAgree ==
  (host.op = "update" /\ host.update_started /\ target.state = "UPDATING") =>
    /\ target.header = host.package
    /\ target.update_payload_offset \in {host.offset, host.offset + 1}
    /\ host.request # "ABORT_UPDATE" =>
         target.expected_sequence \in {host.sequence, next_sequence(host.sequence)}

-----------------------------------------------------------------------------
(* Liveness.  Both sides read what arrives and their timeouts fire; the    *)
(* line, the operator and the power are free to do anything.               *)

Fairness ==
  /\ WF_vars(HostReads)
  /\ WF_vars(HostTimeout)
  /\ WF_vars(TargetReads)
  /\ WF_vars(SessionTimeout)

FairSpec == Spec /\ Fairness

\* Noise on an idle line that happens to look like a frame.
Garbage ==
  /\ to_target = <<>>
  /\ \E f \in {"garbled", "cut"} :
       to_target' = <<[request_frame(IdleHost) EXCEPT !.form = f]>>
  /\ UNCHANGED <<target, host, to_host, installed, invocations>>

\* Nobody waits for ever: every run of stm32ctl ends, whatever the line loses;
\* and when no further run comes, a session it left open is closed by the frame
\* timeouts of run_update_protocol.
LinkEnds ==
  /\ (host.op # "idle") ~> (host.op = "idle")
  /\ (InSession /\ host.op = "idle" /\ invocations = MaxInvocations) ~> ~InSession

\* docs/uart-binary-protocol.md: "Continuous garbage cannot keep the bootloader
\* in the update path indefinitely; after the configured byte or poll budget is
\* exhausted, the update path returns to the normal boot decision unless a valid
\* frame was completed."  Here no host is left that could send one.
GarbageEndsSession ==
  (InSession /\ host.op = "idle" /\ invocations = MaxInvocations) ~> ~InSession
=============================================================================
