-------------------------- MODULE UpdateLinkProofs ---------------------------
(***************************************************************************)
(* The update protocol for every set of packages, every package length,    *)
(* every sequence modulus from two up, every number of retries and every   *)
(* capacity of the line: what a session accepts is one signed package, a   *)
(* success stm32ctl reports is an installed one, and the two sides never   *)
(* disagree about where they are.                                          *)
(***************************************************************************)
EXTENDS UpdateLink, SequenceTheorems, TLAPS

Numbers == 0..(SequenceModulus - 1)
TargetType ==
  [state : TargetStates, expected_sequence : Numbers, update_payload_offset : 0..PayloadBlocks,
   header : Packages \cup {NoPackage}, accepted : Seq(Block),
   frame_timeouts : 0..(MAX_FRAME_TIMEOUTS - 1)]
HostType ==
  [op : Ops \cup {"idle"}, request : Commands, sequence : Numbers, attempts : 0..Retries,
   package : Packages \cup {NoPackage}, offset : 0..PayloadBlocks, update_started : BOOLEAN,
   result : {"none", "ok", "failed"}]

\* The type of every variable, the two records included.
TypeInv ==
  /\ target \in TargetType
  /\ host \in HostType
  /\ to_target \in Seq(Request) /\ Len(to_target) <= LinkCapacity
  /\ to_host \in Seq(Response) /\ Len(to_host) <= LinkCapacity
  /\ installed \in Packages \cup {NoPackage}
  /\ invocations \in 0..MaxInvocations

InUpdate == {"WRITE_BLOCK", "FINISH_UPDATE", "ABORT_UPDATE"}

\* The target has no session.
Down == target.state \in {"WINDOW", "OFF"}

\* At most two frames are under way, the answers before the requests; the requests
\* are those of the last run of stm32ctl, at most a HELLO before the last one made.
LineInv ==
  /\ Len(to_target) + Len(to_host) <= 2
  /\ \A i \in 1..Len(to_target) :
       LET f == to_target[i] IN
       /\ f.package = host.package
       /\ f.command = host.request \/ (f.command = "HELLO" /\ ~host.update_started)
       /\ f.command = "HELLO" => f.sequence = 0
       /\ f.command = "BEGIN_UPDATE" =>
            f.sequence = 1 /\ f.package \in Packages /\ i = Len(to_target)
       /\ f.command \in {"WRITE_BLOCK", "FINISH_UPDATE"} =>
            /\ Len(to_target) = 1 /\ to_host = <<>>
            /\ f.sequence = host.sequence /\ f.offset = host.offset

\* Where stm32ctl is in its command.
Consistent(h) ==
  /\ h.update_started <=> h.request \in InUpdate
  /\ ~h.update_started => h.offset = 0
  /\ h.update_started => h.package \in Packages
  /\ h.request = "WRITE_BLOCK" => h.offset < PayloadBlocks
  /\ h.request = "FINISH_UPDATE" => h.offset = PayloadBlocks
  /\ h.op # "idle" =>
       /\ h.op = "update" <=> h.package \in Packages
       /\ h.request \notin ReadOnly => h.attempts = 0
       /\ h.request = "HELLO" => h.sequence = 0
       /\ h.request = "BEGIN_UPDATE" => h.sequence = 1
       /\ h.request \in {"HELLO", "GET_STATUS", "BEGIN_UPDATE"} \cup InUpdate
       /\ h.op = "update" => h.request # "GET_STATUS"
       /\ h.op # "update" => h.request \in ReadOnly
HostInv ==
  /\ Consistent(host)
  /\ host.op = "idle" /\ host.result = "ok" /\ host.package # NoPackage => to_target = <<>>

\* The session's place when it has taken the block the host waits for, or not yet.
Behind == /\ target.update_payload_offset = host.offset
          /\ target.expected_sequence = host.sequence
Ahead == /\ target.update_payload_offset = host.offset + 1
         /\ target.expected_sequence = next_sequence(host.sequence)

\* A host that has begun an update faces that update or no session.
SyncInv ==
  host.update_started =>
    \/ Down
    \/ /\ target.state = "UPDATING" /\ target.header = host.package
       /\ target.update_payload_offset \in {host.offset, host.offset + 1}
       /\ host.request = "ABORT_UPDATE" \/ Behind \/ (Ahead /\ to_target = <<>>)

\* What an answer under way says of the target.
BeginAnswered ==
  \A i \in 1..Len(to_host) :
    LET r == to_host[i] IN
    /\ r.command \in {"HELLO", "BEGIN_UPDATE"}
    /\ r.command = "HELLO" => r.sequence = 0
    /\ r.command = "BEGIN_UPDATE" => i = Len(to_host) /\ to_target = <<>>
    /\ r.command = "BEGIN_UPDATE" /\ r.status = "OK" =>
         \/ Down
         \/ /\ target.state = "UPDATING" /\ target.header = host.package
            /\ target.update_payload_offset = 0 /\ target.expected_sequence = next_sequence(1)
UpdateAnswered ==
  /\ Len(to_target) + Len(to_host) < 2
  /\ \A i \in 1..Len(to_host) :
       LET r == to_host[i] IN
       /\ r.command = host.request /\ r.sequence = host.sequence
       /\ r.status = "OK" /\ host.request = "WRITE_BLOCK" => Down \/ Ahead
       /\ r.status = "OK" /\ host.request = "FINISH_UPDATE" => Down /\ installed = host.package

AnswerInv ==
  host.op # "idle" =>
    /\ host.request = "HELLO" /\ Len(to_host) = 2 =>
         to_host[2].command = "HELLO" /\ to_host[2].sequence = 0
    /\ host.request = "BEGIN_UPDATE" => BeginAnswered
    /\ host.request \in {"WRITE_BLOCK", "FINISH_UPDATE"} => UpdateAnswered

IInv == /\ TypeInv /\ LineInv /\ HostInv /\ SyncInv /\ AnswerInv
        /\ StreamIsPackage /\ SuccessIsInstalled
-----------------------------------------------------------------------------
(* Numbers and lines *)

\* The sequence number wraps inside its range; the second one is not the first.
LEMMA Sequence ==
  /\ 0 \in Numbers /\ 1 \in Numbers
  /\ \A n \in Numbers : next_sequence(n) \in Numbers
  /\ next_sequence(0) = 1
BY LinkAssumption DEF Numbers, next_sequence

\* Counting up to two.
LEMMA Counting ==
  \A m, n \in Nat : /\ m >= 1 /\ m + n < 2 => m = 1 /\ n = 0
                    /\ m = 0 /\ (n = 0 \/ n = 0 + 1) => n < 2 /\ m + n < 2
                    /\ m <= 1 /\ n \in 1..m => m = 1
                    /\ m + n < 2 => n # 2 /\ \A k \in Nat : k <= m + 1 => k + n <= 2
OBVIOUS

\* A line without its first frame.
LEMMA TailOfLine ==
  ASSUME NEW S, NEW s \in Seq(S), s # <<>>
  PROVE  /\ Tail(s) \in Seq(S) /\ Len(Tail(s)) = Len(s) - 1 /\ Len(s) \in Nat /\ Len(s) > 0
         /\ \A i \in 1..Len(Tail(s)) : i + 1 \in 1..Len(s) /\ Tail(s)[i] = s[i + 1]
         /\ Head(s) = s[1] /\ s[1] \in S
BY HeadTailProperties

\* A line with one more frame.
LEMMA AppendToLine ==
  ASSUME NEW S, NEW s \in Seq(S), NEW x \in S
  PROVE  /\ Append(s, x) \in Seq(S) /\ Len(Append(s, x)) = Len(s) + 1
         /\ \A i \in 1..Len(s) : Append(s, x)[i] = s[i]
         /\ Append(s, x)[Len(s) + 1] = x
BY AppendProperties

\* What a transmission leaves on the line.
LEMMA Transmitted ==
  ASSUME NEW S, NEW line \in Seq(S), Len(line) <= LinkCapacity, NEW frame,
         \A form \in Forms : Arrived(frame, form) \in S,
         NEW sent \in Transmissions(line, frame)
  PROVE  /\ sent \in Seq(S) /\ Len(sent) <= LinkCapacity
         /\ \/ sent = line
            \/ \E form \in Forms : sent = Append(line, Arrived(frame, form))
<1>1. Len(line) \in Nat /\ LinkCapacity \in Nat
  BY LinkAssumption, LenProperties
<1>2. \/ sent = line
      \/ Len(line) < LinkCapacity /\ \E form \in Forms : sent = Append(line, Arrived(frame, form))
  BY <1>1 DEF Transmissions
<1>3. ASSUME NEW form \in Forms, sent = Append(line, Arrived(frame, form)), Len(line) < LinkCapacity
      PROVE  sent \in Seq(S) /\ Len(sent) <= LinkCapacity
  <2>1. sent \in Seq(S) /\ Len(sent) = Len(line) + 1
    BY <1>3, AppendToLine
  <2>. QED  BY <1>1, <1>3, <2>1
<1>. QED  BY <1>2, <1>3

\* A prefix of a sequence with the element after it is the next longer prefix.
LEMMA LongerPrefix ==
  ASSUME NEW S, NEW s \in Seq(S), NEW n \in Nat, n < Len(s)
  PROVE  Append(SubSeq(s, 1, n), s[n + 1]) = SubSeq(s, 1, n + 1)
<1>. DEFINE a == Append(SubSeq(s, 1, n), s[n + 1])
            b == SubSeq(s, 1, n + 1)
<1>0. Len(s) \in Nat /\ s[n + 1] \in S
  BY LenProperties, ElementOfSeq
<1>1. SubSeq(s, 1, n) \in Seq(S) /\ Len(SubSeq(s, 1, n)) = n
      /\ \A i \in 1..n : SubSeq(s, 1, n)[i] = s[i]
  BY <1>0, SubSeqProperties
<1>2. b \in Seq(S) /\ Len(b) = n + 1 /\ \A i \in 1..(n + 1) : b[i] = s[i]
  BY <1>0, SubSeqProperties
<1>3. a \in Seq(S) /\ Len(a) = n + 1 /\ (\A i \in 1..n : a[i] = s[i]) /\ a[n + 1] = s[n + 1]
  BY <1>0, <1>1, AppendToLine
<1>4. \A i \in 1..(n + 1) : a[i] = b[i]
  BY <1>2, <1>3
<1>. HIDE DEF a, b
<1>5. a = b
  BY <1>2, <1>3, <1>4, SeqEqual
<1>. QED  BY <1>5 DEF a, b

\* What the header's signature covers is a sequence of blocks of its package.
LEMMA SignedPayload ==
  ASSUME NEW package \in Packages
  PROVE  /\ signed_payload(package) \in Seq(Block) /\ Len(signed_payload(package)) = PayloadBlocks
         /\ \A n \in 0..(PayloadBlocks - 1) :
              signed_payload(package)[n + 1] = [package |-> package, offset |-> n]
BY LinkAssumption DEF signed_payload, Block
-----------------------------------------------------------------------------
(* What a frame does to a session *)

\* The session with the sequence number advanced.
Next_(t) == [t EXCEPT !.expected_sequence = next_sequence(@)]

\* The ways a frame can end: not executed; answered without an effect; an update
\* begun, a block written, an update finished; or the end of the session.
Refused(f, o) == o.session = target /\ o.status \in Statuses \ {"OK"}
Passed(f, o) ==
  /\ o.session = Next_(target) /\ o.status \in Statuses
  /\ o.status = "OK" => f.command \in ReadOnly
  /\ f.command = "BEGIN_UPDATE" => target.state # "IDLE"
  /\ f.command \in {"WRITE_BLOCK", "FINISH_UPDATE"} => target.state # "UPDATING"
  /\ f.command \notin {"ABORT_UPDATE", "RESET"}
Begun(f, o) ==
  /\ f.command = "BEGIN_UPDATE" /\ target.state = "IDLE" /\ o.status = "OK"
  /\ o.session = Next_([target EXCEPT !.state = "UPDATING", !.update_payload_offset = 0,
                                      !.header = f.package, !.accepted = <<>>])
Written(f, o) ==
  /\ f.command = "WRITE_BLOCK" /\ target.state = "UPDATING" /\ o.status = "OK"
  /\ f.offset = target.update_payload_offset /\ f.offset # PayloadBlocks
  /\ o.session = Next_([target EXCEPT !.update_payload_offset = target.update_payload_offset + 1,
                                      !.accepted = Append(target.accepted, block_of(f))])
Finished(f, o) ==
  /\ f.command = "FINISH_UPDATE" /\ target.state = "UPDATING" /\ o.status = "OK"
  /\ target.accepted = signed_payload(target.header)
  /\ o.session = Next_([target EXCEPT !.state = "FINISHED"])
Ended(f, o) ==
  /\ o.session.state \in {"FAILED", "ABORTED", "RESET_REQUESTED"} /\ o.status \in Statuses
  /\ o.status = "OK" => f.command \in {"ABORT_UPDATE", "RESET"}

\* handle_frame and the commands it executes.
LEMMA Executed ==
  ASSUME target \in TargetType, NEW f \in Request, NEW o \in handle_frame(target, f)
  PROVE  \/ Refused(f, o)
         \/ /\ f.form = "good" /\ f.sequence = target.expected_sequence
            /\ Passed(f, o) \/ Begun(f, o) \/ Written(f, o) \/ Finished(f, o) \/ Ended(f, o)
<1>1. CASE o = outcome(target, "CRC") \/ o = outcome(target, "SEQUENCE")
  BY <1>1 DEF outcome, Refused, Statuses
<1>2. CASE /\ f.form = "good" /\ f.sequence = target.expected_sequence
           /\ \E e \in execute_frame(target, f) : o = advance_sequence(e)
  <2>. SUFFICES Passed(f, o) \/ Begun(f, o) \/ Written(f, o) \/ Finished(f, o) \/ Ended(f, o)
    BY <1>2
  <2>1. PICK e \in execute_frame(target, f) : o = advance_sequence(e)
    BY <1>2
  <2>2. o.session = Next_(e.session) /\ o.status = e.status
    BY <2>1 DEF advance_sequence, outcome, Next_
  <2>3. CASE f.command = "BEGIN_UPDATE"
    <3>1. e \in handle_begin_update(target, f)
      BY <2>3 DEF execute_frame
    <3>2. CASE target.state # "IDLE" /\ e = outcome(target, "STATE")
      BY <2>2, <2>3, <3>2 DEF outcome, Passed, Statuses
    <3>3. CASE e = failed(target, "FAILED")
      BY <2>2, <3>3 DEF outcome, failed, Ended, Statuses, Next_, TargetType
    <3>4. CASE target.state = "IDLE" /\
               e = outcome([target EXCEPT !.state = "UPDATING", !.update_payload_offset = 0,
                                          !.header = f.package, !.accepted = <<>>], "OK")
      BY <2>2, <2>3, <3>4 DEF outcome, Begun
    <3>. QED  BY <3>1, <3>2, <3>3, <3>4 DEF handle_begin_update
  <2>4. CASE f.command = "WRITE_BLOCK"
    <3>1. e \in handle_write_block(target, f)
      BY <2>4 DEF execute_frame
    <3>2. CASE target.state # "UPDATING" /\ e = outcome(target, "STATE")
      BY <2>2, <2>4, <3>2 DEF outcome, Passed, Statuses
    <3>3. CASE e = failed(target, "FAILED") \/ e = failed(target, "SEQUENCE")
      BY <2>2, <3>3 DEF outcome, failed, Ended, Statuses, Next_, TargetType
    <3>4. CASE /\ target.state = "UPDATING" /\ f.offset = target.update_payload_offset
               /\ f.offset # PayloadBlocks
               /\ e = outcome([target EXCEPT !.update_payload_offset = @ + 1,
                                             !.accepted = Append(@, block_of(f))], "OK")
      BY <2>2, <2>4, <3>4 DEF outcome, Written
    <3>. QED  BY <3>1, <3>2, <3>3, <3>4 DEF handle_write_block
  <2>5. CASE f.command = "FINISH_UPDATE"
    <3>1. e \in handle_finish_update(target, f)
      BY <2>5 DEF execute_frame
    <3>2. CASE target.state # "UPDATING" /\ e = outcome(target, "STATE")
      BY <2>2, <2>5, <3>2 DEF outcome, Passed, Statuses
    <3>3. CASE e = failed(target, "FAILED")
      BY <2>2, <3>3 DEF outcome, failed, Ended, Statuses, Next_, TargetType
    <3>4. CASE /\ target.state = "UPDATING" /\ target.accepted = signed_payload(target.header)
               /\ e = outcome([target EXCEPT !.state = "FINISHED"], "OK")
      BY <2>2, <2>5, <3>4 DEF outcome, Finished
    <3>. QED  BY <3>1, <3>2, <3>3, <3>4 DEF handle_finish_update
  <2>6. CASE f.command = "ABORT_UPDATE"
    <3>1. e \in handle_abort_update(target, f)
      BY <2>6 DEF execute_frame
    <3>2. CASE e = failed(target, "FAILED") \/ e = outcome([target EXCEPT !.state = "ABORTED"], "OK")
      BY <2>2, <2>6, <3>2 DEF outcome, failed, Ended, Statuses, Next_, TargetType
    <3>. QED  BY <3>1, <3>2 DEF handle_abort_update
  <2>7. CASE f.command = "RESET"
    <3>1. e = outcome([target EXCEPT !.state = "RESET_REQUESTED"], "OK")
      BY <2>7 DEF execute_frame, handle_reset
    <3>. QED  BY <2>2, <2>7, <3>1 DEF outcome, Ended, Statuses, Next_, TargetType
  <2>8. CASE f.command \in ReadOnly
    <3>1. e = outcome(target, "OK")
      BY <2>8 DEF execute_frame, handle_read_only, ReadOnly
    <3>. QED  BY <2>2, <2>8, <3>1 DEF outcome, Passed, Statuses, ReadOnly
  <2>. QED  BY <2>3, <2>4, <2>5, <2>6, <2>7, <2>8 DEF Request, Commands
<1>. QED  BY <1>1, <1>2 DEF handle_frame
-----------------------------------------------------------------------------
(* What a step of the target does to the lines *)

\* The first frame is gone, or with it the one it was merged with.
Shorter ==
  /\ to_target # <<>>
  /\ to_target' \in Seq(Request) /\ Len(to_target') <= LinkCapacity
  /\ Len(to_target') = Len(to_target) - 1 \/ Len(to_target') = 0
  /\ \A i \in 1..Len(to_target') : i + 1 \in 1..Len(to_target) /\ to_target'[i] = to_target[i + 1]

\* An answer to f is on the line, damaged or not, or it was lost.
AnswerTo(f, status) ==
  /\ to_host' \in Seq(Response) /\ Len(to_host') <= LinkCapacity
  /\ \/ to_host' = to_host
     \/ \E r \in Response : /\ r.command = f.command /\ r.sequence = f.sequence
                            /\ r.status = status /\ to_host' = Append(to_host, r)

\* Reading a frame leaves the others.
LEMMA ReadFrame ==
  ASSUME TypeInv, LineInv, to_target # <<>>,
         \/ to_target' = Tail(to_target)
         \/ Len(to_target) > 1 /\ to_target' = Tail(Tail(to_target))
  PROVE  Shorter /\ Head(to_target) = to_target[1] /\ to_target[1] \in Request
<1>. DEFINE t == Tail(to_target)
<1>1. /\ t \in Seq(Request) /\ Len(t) = Len(to_target) - 1 /\ Len(to_target) \in Nat
      /\ \A i \in 1..Len(t) : i + 1 \in 1..Len(to_target) /\ t[i] = to_target[i + 1]
      /\ Head(to_target) = to_target[1] /\ to_target[1] \in Request
  BY TailOfLine DEF TypeInv
<1>2. Len(to_target) <= 2 /\ Len(to_target) <= LinkCapacity /\ LinkCapacity \in Nat
  <2>1. Len(to_target) \in Nat /\ Len(to_host) \in Nat /\ Len(to_target) + Len(to_host) <= 2
    BY LenProperties DEF TypeInv, LineInv
  <2>. QED  BY <2>1, LinkAssumption DEF TypeInv
<1>. HIDE DEF t
<1>3. CASE to_target' = t
  BY <1>1, <1>2, <1>3 DEF Shorter
<1>4. CASE Len(to_target) > 1 /\ to_target' = Tail(t)
  <2>1. t # <<>>
    BY <1>1, <1>4
  <2>2. Tail(t) \in Seq(Request) /\ Len(Tail(t)) = Len(t) - 1
    BY <1>1, <2>1, TailOfLine
  <2>3. Len(Tail(t)) = 0
    <3>1. Len(to_target) = 2
      BY <1>1, <1>2, <1>4
    <3>2. Len(t) = 1
      BY <1>1, <3>1
    <3>. QED  BY <2>2, <3>2
  <2>4. to_target' \in Seq(Request) /\ Len(to_target') = 0
    BY <1>4, <2>2, <2>3
  <2>. QED  BY <1>1, <1>2, <2>4 DEF Shorter
<1>. QED  BY <1>1, <1>3, <1>4 DEF t

\* write_response: the frame it makes, on the line in any form.
LEMMA WriteAnswer ==
  ASSUME TypeInv, NEW f \in Request, NEW status \in Statuses,
         to_host' \in Transmissions(to_host, reply(f, status))
  PROVE  AnswerTo(f, status)
<1>1. \A form \in Forms : /\ Arrived(reply(f, status), form) \in Response
                          /\ Arrived(reply(f, status), form).command = f.command
                          /\ Arrived(reply(f, status), form).sequence = f.sequence
                          /\ Arrived(reply(f, status), form).status = status
  BY DEF reply, Response, Request, Forms, Arrived
<1>2. to_host \in Seq(Response) /\ Len(to_host) <= LinkCapacity
  BY DEF TypeInv
<1>3. /\ to_host' \in Seq(Response) /\ Len(to_host') <= LinkCapacity
      /\ \/ to_host' = to_host
         \/ \E form \in Forms : to_host' = Append(to_host, Arrived(reply(f, status), form))
  BY <1>1, <1>2, Transmitted
<1>. QED  BY <1>1, <1>3 DEF AnswerTo

\* An answer makes the line to the host at most one longer.
LEMMA AnswerLength ==
  ASSUME TypeInv, NEW f, NEW status, AnswerTo(f, status)
  PROVE  /\ Len(to_host) \in Nat /\ Len(to_host') \in Nat
         /\ \A i \in 1..Len(to_host) : to_host'[i] = to_host[i]
         /\ \/ to_host' = to_host
            \/ /\ Len(to_host') = Len(to_host) + 1
               /\ to_host'[Len(to_host')].command = f.command
               /\ to_host'[Len(to_host')].sequence = f.sequence
               /\ to_host'[Len(to_host')].status = status
<1>1. to_host \in Seq(Response) /\ to_host' \in Seq(Response)
      /\ Len(to_host) \in Nat /\ Len(to_host') \in Nat
  BY LenProperties DEF TypeInv, AnswerTo
<1>2. CASE to_host' = to_host
  BY <1>1, <1>2
<1>3. ASSUME NEW r \in Response, r.command = f.command, r.sequence = f.sequence,
             r.status = status, to_host' = Append(to_host, r)
      PROVE  /\ Len(to_host') = Len(to_host) + 1 /\ to_host'[Len(to_host')] = r
             /\ \A i \in 1..Len(to_host) : to_host'[i] = to_host[i]
  BY <1>1, <1>3, AppendToLine
<1>. QED  BY <1>1, <1>2, <1>3 DEF AnswerTo

\* Lines and host after a frame was read and answered.
LEMMA LineAfterRead ==
  ASSUME TypeInv, LineInv, HostInv, UNCHANGED host, Shorter, NEW status,
         AnswerTo(to_target[1], status)
  PROVE  LineInv' /\ HostInv'
<1>1. /\ Len(to_host) \in Nat /\ Len(to_host') \in Nat /\ Len(to_host') <= Len(to_host) + 1
      /\ Len(to_target) \in Nat /\ Len(to_target') \in Nat /\ Len(to_target) > 0
      /\ Len(to_target) + Len(to_host) <= 2
  BY AnswerLength, LenProperties DEF Shorter, TypeInv, LineInv
<1>2. Len(to_target') + Len(to_host') <= 2
  BY <1>1 DEF Shorter
<1>3. ASSUME NEW i \in 1..Len(to_target')
      PROVE  /\ Len(to_target') = Len(to_target) - 1
             /\ i + 1 \in 1..Len(to_target) /\ i + 1 # 1 /\ to_target'[i] = to_target[i + 1]
  BY <1>1 DEF Shorter
<1>4. LineInv'
  <2>1. ASSUME NEW i \in 1..Len(to_target')
        PROVE  /\ to_target[i + 1].command \notin {"WRITE_BLOCK", "FINISH_UPDATE"}
               /\ i + 1 = Len(to_target) => i = Len(to_target')
    BY <1>1, <1>3 DEF LineInv
  <2>. QED  BY <1>2, <1>3, <2>1 DEF LineInv
<1>5. HostInv'
  BY <1>1 DEF HostInv, Consistent, Shorter
<1>. QED  BY <1>4, <1>5

\* A positive answer to f says what the step that sends it has done.
Truthful(f, status) ==
  status = "OK" =>
    /\ f.command = "BEGIN_UPDATE" =>
         \/ Down'
         \/ /\ target'.state = "UPDATING" /\ target'.header = host.package
            /\ target'.update_payload_offset = 0 /\ target'.expected_sequence = next_sequence(1)
    /\ f.command = "WRITE_BLOCK" => Down' \/ Ahead'
    /\ f.command = "FINISH_UPDATE" => Down' /\ installed' = host.package

\* What the answers under way say after a frame was read and answered, given what
\* the answer itself says.
LEMMA AnswerAfterRead ==
  ASSUME TypeInv, LineInv, HostInv, AnswerInv, UNCHANGED host, Shorter, NEW status,
         AnswerTo(to_target[1], status), Truthful(to_target[1], status)
  PROVE  AnswerInv'
<1>. SUFFICES ASSUME host.op # "idle" PROVE AnswerInv'
  BY DEF AnswerInv
<1>. DEFINE f == to_target[1]
            n == Len(to_host)
<1>1. /\ n \in Nat /\ Len(to_host') \in Nat /\ Len(to_target) \in Nat /\ Len(to_target') \in Nat
      /\ 1 \in 1..Len(to_target) /\ to_target # <<>> /\ Len(to_target) + n <= 2
      /\ Len(to_target') = Len(to_target) - 1 \/ Len(to_target') = 0
  BY AnswerLength, LenProperties DEF Shorter, TypeInv, LineInv
<1>2. /\ f.command = host.request \/ (f.command = "HELLO" /\ ~host.update_started)
      /\ f.command = "HELLO" => f.sequence = 0
      /\ f.command = "BEGIN_UPDATE" => Len(to_target) = 1
      /\ f.command \in {"WRITE_BLOCK", "FINISH_UPDATE"} => f.sequence = host.sequence
  <2>. HIDE DEF n
  <2>. QED  BY <1>1, Zenon DEF LineInv
<1>3. /\ \A i \in 1..n : to_host'[i] = to_host[i]
      /\ \/ to_host' = to_host /\ Len(to_host') = n
         \/ /\ Len(to_host') = n + 1
            /\ to_host'[n + 1].command = f.command
            /\ to_host'[n + 1].sequence = f.sequence
            /\ to_host'[n + 1].status = status
  BY AnswerLength
<1>. HIDE DEF f, n
<1>4. ASSUME host.request = "HELLO", Len(to_host') = 2
      PROVE  to_host'[2].command = "HELLO" /\ to_host'[2].sequence = 0
  <2>1. n <= 1 /\ f.command = "HELLO" /\ f.sequence = 0
    BY <1>1, <1>2, <1>4
  <2>2. Len(to_host') # n
    BY <1>1, <1>4, <2>1
  <2>3. n + 1 = 2
    BY <1>3, <1>4, <2>2
  <2>. QED  BY <1>3, <2>1, <2>2, <2>3
<1>5. ASSUME host.request = "BEGIN_UPDATE"
      PROVE  BeginAnswered'
  <2>1. ASSUME NEW i \in 1..n
        PROVE  to_host[i].command = "HELLO" /\ to_host[i].sequence = 0
    BY <1>1, <1>5, <2>1 DEF AnswerInv, BeginAnswered, n
  <2>2. f.command \in {"HELLO", "BEGIN_UPDATE"}
    BY <1>2, <1>5
  <2>3. f.command = "BEGIN_UPDATE" => to_target' = <<>>
    BY <1>1, <1>2 DEF Shorter
  <2>4. CASE to_host' = to_host
    BY <2>1, <2>4, Zenon DEF BeginAnswered, n
  <2>5. CASE Len(to_host') = n + 1
    <3>1. ASSUME NEW i \in 1..Len(to_host'), i # n + 1
          PROVE  to_host'[i].command = "HELLO" /\ to_host'[i].sequence = 0
      BY <1>1, <1>3, <2>1, <2>5, <3>1
    <3>2. /\ to_host'[n + 1].command = f.command /\ to_host'[n + 1].sequence = f.sequence
          /\ to_host'[n + 1].status = status
      BY <1>1, <1>3, <2>5 DEF n
    <3>3. f.command = "BEGIN_UPDATE" /\ status = "OK" =>
            \/ Down'
            \/ /\ target'.state = "UPDATING" /\ target'.header = host'.package
               /\ target'.update_payload_offset = 0
               /\ target'.expected_sequence = next_sequence(1)
      BY DEF Truthful, f
    <3>. QED  BY <1>2, <2>2, <2>3, <2>5, <3>1, <3>2, <3>3 DEF BeginAnswered
  <2>. QED  BY <1>3, <2>4, <2>5
<1>6. ASSUME host.request \in {"WRITE_BLOCK", "FINISH_UPDATE"}
      PROVE  UpdateAnswered'
  <2>1. host.update_started /\ f.command = host.request /\ n = 0 /\ Len(to_target) = 1
    <3>1. host.update_started
      BY <1>6 DEF HostInv, Consistent, InUpdate
    <3>2. Len(to_target) + n < 2
      BY <1>6 DEF AnswerInv, UpdateAnswered, n
    <3>3. Len(to_target) >= 1
      BY <1>1
    <3>4. n = 0 /\ Len(to_target) = 1
      <4>1. n \in Nat /\ Len(to_target) \in Nat
        BY <1>1
      <4>. QED  BY <3>2, <3>3, <4>1, Counting, Zenon
    <3>. QED  BY <1>2, <3>1, <3>4
  <2>2. Len(to_target') + Len(to_host') < 2
    <3>1. Len(to_target') = 0
      BY <1>1, <2>1
    <3>2. Len(to_host') = 0 \/ Len(to_host') = 0 + 1
      BY <1>3, <2>1
    <3>3. Len(to_target') \in Nat /\ Len(to_host') \in Nat
      BY <1>1
    <3>. QED  BY <3>1, <3>2, <3>3, Counting, Zenon
  <2>3. ASSUME NEW i \in 1..Len(to_host')
        PROVE  /\ to_host'[i].command = f.command /\ to_host'[i].sequence = f.sequence
               /\ to_host'[i].status = status
    BY <1>1, <1>3, <2>1 DEF n
  <2>4. /\ f.command = "WRITE_BLOCK" /\ status = "OK" => Down' \/ Ahead'
        /\ f.command = "FINISH_UPDATE" /\ status = "OK" => Down' /\ installed' = host.package
    BY DEF Truthful, f
  <2>. QED  BY <1>2, <1>6, <2>1, <2>2, <2>3, <2>4 DEF UpdateAnswered
<1>. QED  BY <1>4, <1>5, <1>6 DEF AnswerInv

\* A step that leaves the answers alone and the target where it was, or down.
LEMMA AnswerUntouched ==
  ASSUME TypeInv, AnswerInv, UNCHANGED <<host, to_host, installed>>,
         to_target' = to_target \/ to_target' = <<>>,
         \/ Down'
         \/ /\ ~Down /\ target'.state = target.state /\ target'.header = target.header
            /\ target'.update_payload_offset = target.update_payload_offset
            /\ target'.expected_sequence = target.expected_sequence
  PROVE  AnswerInv'
<1>. SUFFICES ASSUME host.op # "idle" PROVE AnswerInv'
  BY DEF AnswerInv
<1>1. Len(to_target) \in Nat /\ Len(to_host) \in Nat /\ Len(to_target') \in Nat
      /\ Len(to_target') <= Len(to_target)
  BY LenProperties DEF TypeInv
<1>2. BeginAnswered => BeginAnswered'
  BY DEF BeginAnswered, Down
<1>3. UpdateAnswered => UpdateAnswered'
  BY <1>1 DEF UpdateAnswered, Down, Ahead
<1>. QED  BY <1>2, <1>3 DEF AnswerInv

\* The same for the lines and the host.
LEMMA LineUntouched ==
  ASSUME TypeInv, LineInv, HostInv, UNCHANGED <<host, to_host>>,
         to_target' = to_target \/ to_target' = <<>>
  PROVE  LineInv' /\ HostInv' /\ to_target' \in Seq(Request) /\ Len(to_target') <= LinkCapacity
<1>1. Len(to_target) \in Nat /\ Len(to_host) \in Nat /\ Len(to_target') \in Nat
      /\ Len(to_target') <= Len(to_target) /\ LinkCapacity \in Nat
  BY LenProperties, LinkAssumption DEF TypeInv
<1>2. LineInv'
  BY <1>1 DEF LineInv
<1>3. HostInv'
  BY DEF HostInv, Consistent
<1>4. to_target' \in Seq(Request)
  <2>1. to_target \in Seq(Request) /\ <<>> \in Seq(Request)
    BY DEF TypeInv
  <2>. QED  BY <2>1, Zenon
<1>5. Len(to_target') <= LinkCapacity
  BY <1>1 DEF TypeInv
<1>. QED  BY <1>2, <1>3, <1>4, <1>5

\* The host's side of SyncInv and of the promises, when the target goes down or
\* stays as it is.
LEMMA SyncUntouched ==
  ASSUME SyncInv, StreamIsPackage, UNCHANGED host,
         to_target = <<>> => to_target' = <<>>,
         \/ Down'
         \/ /\ target'.state = target.state /\ target'.header = target.header
            /\ target'.update_payload_offset = target.update_payload_offset
            /\ target'.expected_sequence = target.expected_sequence
            /\ target'.accepted = target.accepted
  PROVE  SyncInv' /\ StreamIsPackage'
<1>1. CASE Down'
  BY <1>1 DEF SyncInv, StreamIsPackage, Down
<1>2. CASE /\ target'.state = target.state /\ target'.header = target.header
           /\ target'.update_payload_offset = target.update_payload_offset
           /\ target'.expected_sequence = target.expected_sequence
           /\ target'.accepted = target.accepted
  <2>1. SyncInv'
    BY <1>2 DEF SyncInv, Down, Behind, Ahead
  <2>2. signed_payload(target'.header) = signed_payload(target.header)
    BY <1>2
  <2>3. StreamIsPackage'
    BY <1>2, <2>2, Zenon DEF StreamIsPackage, signed_payload
  <2>. QED  BY <2>1, <2>3
<1>. QED  BY <1>1, <1>2

\* A target without a session.
LEMMA NoSessionType ==
  ASSUME NEW state \in {"WINDOW", "OFF"}
  PROVE  NoSession(state) \in TargetType /\ NoSession(state).state = state
<1>1. <<>> \in Seq(Block) /\ 0 \in Numbers /\ 0 \in 0..PayloadBlocks
      /\ 0 \in 0..(MAX_FRAME_TIMEOUTS - 1)
  BY Sequence, LinkAssumption
<1>. QED  BY <1>1 DEF NoSession, TargetType, TargetStates

\* count_timeout ends the session or counts.
LEMMA CountTimeout ==
  ASSUME target \in TargetType, NEW t, t = count_timeout(target)
  PROVE  /\ t \in TargetType
         /\ \/ t.state = "OFF"
            \/ /\ t.state = target.state /\ t.header = target.header
               /\ t.update_payload_offset = target.update_payload_offset
               /\ t.expected_sequence = target.expected_sequence
               /\ t.accepted = target.accepted
<1>1. CASE t = NoSession("OFF")
  BY <1>1, NoSessionType
<1>2. CASE target.frame_timeouts + 1 < MAX_FRAME_TIMEOUTS
           /\ t = [target EXCEPT !.frame_timeouts = target.frame_timeouts + 1]
  <2>1. target.frame_timeouts + 1 \in 0..(MAX_FRAME_TIMEOUTS - 1)
    BY <1>2, LinkAssumption DEF TargetType
  <2>. QED  BY <1>2, <2>1 DEF TargetType
<1>3. target.frame_timeouts \in Nat /\ MAX_FRAME_TIMEOUTS \in Nat
  BY LinkAssumption DEF TargetType
<1>. QED  BY <1>1, <1>2, <1>3 DEF count_timeout

\* A step that takes no frame: a frame timeout, the end of the window, a reset.
LEMMA QuietStep ==
  ASSUME IInv, target' \in TargetType, UNCHANGED <<host, to_host, installed, invocations>>,
         to_target' = to_target \/ to_target' = <<>>,
         \/ Down'
         \/ /\ ~Down /\ target'.state = target.state /\ target'.header = target.header
            /\ target'.update_payload_offset = target.update_payload_offset
            /\ target'.expected_sequence = target.expected_sequence
            /\ target'.accepted = target.accepted
  PROVE  IInv'
<1>1. LineInv' /\ HostInv' /\ to_target' \in Seq(Request) /\ Len(to_target') <= LinkCapacity
  BY LineUntouched DEF IInv
<1>2. AnswerInv'
  BY AnswerUntouched DEF IInv
<1>3. SyncInv' /\ StreamIsPackage'
  BY SyncUntouched DEF IInv
<1>4. SuccessIsInstalled'
  BY DEF IInv, SuccessIsInstalled
<1>5. TypeInv'
  BY <1>1 DEF IInv, TypeInv
<1>. QED  BY <1>1, <1>2, <1>3, <1>4, <1>5 DEF IInv
-----------------------------------------------------------------------------
(* The invariant is inductive: the target *)

\* The power-on state, and no run of stm32ctl yet.
LEMMA InitInv == Init => IInv
<1>. SUFFICES ASSUME Init PROVE IInv
  OBVIOUS
<1>1. Len(to_target) = 0 /\ Len(to_host) = 0 /\ to_target \in Seq(Request) /\ to_host \in Seq(Response)
  BY DEF Init
<1>2. host \in HostType
  BY Sequence, LinkAssumption DEF Init, IdleHost, HostType, Commands, ReadOnly
<1>3. TypeInv
  BY <1>1, <1>2, NoSessionType, LinkAssumption DEF Init, TypeInv
<1>4. LineInv
  BY <1>1 DEF LineInv
<1>5. HostInv /\ SyncInv /\ AnswerInv /\ SuccessIsInstalled
  BY DEF Init, IdleHost, HostInv, Consistent, SyncInv, AnswerInv, SuccessIsInstalled, InUpdate
<1>6. StreamIsPackage
  BY NoSessionType DEF Init, StreamIsPackage
<1>. QED  BY <1>3, <1>4, <1>5, <1>6 DEF IInv

\* A frame timeout of process_reader with nothing received.
LEMMA SessionTimeoutInv == IInv /\ SessionTimeout => IInv'
<1>. SUFFICES ASSUME IInv, SessionTimeout PROVE IInv'
  OBVIOUS
<1>1. target \in TargetType /\ target' = count_timeout(target) /\ ~Down
  BY DEF IInv, TypeInv, SessionTimeout, InSession, SessionStates, Down
<1>. QED  BY <1>1, CountTimeout, QuietStep DEF SessionTimeout, Down

\* The entry window closes.
LEMMA WindowCloseInv == IInv /\ WindowClose => IInv'
BY NoSessionType, QuietStep DEF WindowClose, Down

\* The target resets, in a session or not.
LEMMA TargetResetInv == IInv /\ TargetReset => IInv'
BY NoSessionType, QuietStep DEF TargetReset, Down

\* A step that reads a frame, answers it or not, and does to the session what the
\* last hypotheses say.
LEMMA ReadStep ==
  ASSUME IInv, UNCHANGED <<host, invocations>>, Shorter, NEW status,
         AnswerTo(to_target[1], status), Truthful(to_target[1], status),
         target' \in TargetType, installed' \in Packages \cup {NoPackage},
         SyncInv', StreamIsPackage', SuccessIsInstalled'
  PROVE  IInv'
<1>1. LineInv' /\ HostInv'
  BY LineAfterRead DEF IInv
<1>2. AnswerInv'
  BY AnswerAfterRead DEF IInv
<1>3. TypeInv'
  BY DEF IInv, TypeInv, Shorter, AnswerTo
<1>. QED  BY <1>1, <1>2, <1>3 DEF IInv

\* Reading a frame that the session does not execute.
LEMMA UnexecutedStep ==
  ASSUME IInv, UNCHANGED <<host, invocations, installed>>, Shorter,
         NEW status, status # "OK", AnswerTo(to_target[1], status), target' \in TargetType,
         \/ Down'
         \/ /\ target'.state = target.state /\ target'.header = target.header
            /\ target'.update_payload_offset = target.update_payload_offset
            /\ target'.expected_sequence = target.expected_sequence
            /\ target'.accepted = target.accepted
  PROVE  IInv'
<1>1. to_target # <<>>
  BY DEF Shorter
<1>2. SyncInv' /\ StreamIsPackage'
  BY <1>1, SyncUntouched DEF IInv
<1>3. SuccessIsInstalled'
  BY DEF IInv, SuccessIsInstalled
<1>4. Truthful(to_target[1], status)
  BY DEF Truthful
<1>5. installed' \in Packages \cup {NoPackage}
  BY DEF IInv, TypeInv
<1>. QED  BY <1>2, <1>3, <1>4, <1>5, ReadStep

\* No answer at all.
LEMMA NoAnswer ==
  ASSUME TypeInv, UNCHANGED to_host, NEW f
  PROVE  AnswerTo(f, "TIMEOUT")
BY DEF TypeInv, AnswerTo

\* service_next on the session as it was: it goes on, or the target boots on.
LEMMA ServiceOn ==
  ASSUME target \in TargetType, InSession, NEW written \in BOOLEAN, NEW t,
         t = service_next(target, written)
  PROVE  /\ t \in TargetType
         /\ \/ t.state = "OFF"
            \/ /\ written /\ t.state = target.state /\ t.header = target.header
               /\ t.update_payload_offset = target.update_payload_offset
               /\ t.expected_sequence = target.expected_sequence
               /\ t.accepted = target.accepted
<1>1. CASE t = NoSession("OFF")
  BY <1>1, NoSessionType
<1>2. CASE written /\ t = [target EXCEPT !.frame_timeouts = 0]
  <2>1. 0 \in 0..(MAX_FRAME_TIMEOUTS - 1)
    BY LinkAssumption
  <2>. QED  BY <1>2, <2>1, Zenon DEF TargetType
<1>. QED  BY <1>1, <1>2 DEF service_next, InSession, SessionStates

\* A cut frame and the one it swallowed.
LEMMA MergedInv == IInv /\ SessionReceiveMerged => IInv'
<1>. SUFFICES ASSUME IInv, SessionReceiveMerged PROVE IInv'
  OBVIOUS
<1>1. to_target # <<>> /\ Len(to_target) > 1 /\ to_target' = Tail(Tail(to_target)) /\ InSession
      /\ UNCHANGED <<host, invocations>>
  BY DEF SessionReceiveMerged
<1>2. Shorter /\ Head(to_target) = to_target[1] /\ to_target[1] \in Request
  BY <1>1, ReadFrame DEF IInv
<1>3. PICK written \in BOOLEAN :
        /\ target' = service_next(target, written)
        /\ to_host' \in Transmissions(to_host, reply(to_target[1], "CRC"))
        /\ installed' = IF target.state = "FINISHED" THEN target.header ELSE installed
  BY <1>2, Zenon DEF SessionReceiveMerged, Answer, uart_binary_write, outcome
<1>4. AnswerTo(to_target[1], "CRC")
  BY <1>2, <1>3, WriteAnswer DEF IInv, Statuses
<1>5. installed' = installed /\ target \in TargetType
  BY <1>1, <1>3, Zenon DEF InSession, SessionStates, IInv, TypeInv
<1>. QED  BY <1>1, <1>2, <1>3, <1>4, <1>5, ServiceOn, UnexecutedStep DEF Down

\* The rest of a frame does not come.
LEMMA TimeoutInFrameInv == IInv /\ SessionTimeoutInFrame => IInv'
<1>. SUFFICES ASSUME IInv, SessionTimeoutInFrame PROVE IInv'
  OBVIOUS
<1>1. to_target # <<>> /\ to_target' = Tail(to_target) /\ UNCHANGED <<host, invocations, installed>>
  BY DEF SessionTimeoutInFrame
<1>2. Shorter /\ Head(to_target) = to_target[1] /\ to_target[1] \in Request
  BY <1>1, ReadFrame DEF IInv
<1>3. AnswerTo(to_target[1], "TIMEOUT")
  <2>1. UNCHANGED to_host \/ to_host' \in Transmissions(to_host, reply(to_target[1], "TIMEOUT"))
    BY <1>2 DEF SessionTimeoutInFrame
  <2>. QED  BY <1>2, <2>1, NoAnswer, WriteAnswer DEF IInv, Statuses
<1>4. target' = count_timeout(target) \/ target' = NoSession("OFF")
  BY DEF SessionTimeoutInFrame
<1>5. target \in TargetType
  BY DEF IInv, TypeInv
<1>. QED  BY <1>1, <1>2, <1>3, <1>4, <1>5, CountTimeout, NoSessionType, UnexecutedStep DEF Down

\* A receive error of the UART.
LEMMA ReaderErrorInv == IInv /\ SessionReaderError => IInv'
<1>. SUFFICES ASSUME IInv, SessionReaderError PROVE IInv'
  OBVIOUS
<1>1. to_target # <<>> /\ to_target' = Tail(to_target) /\ InSession
      /\ UNCHANGED <<host, to_host, invocations, installed>>
      /\ target' = service_next(target, FALSE) /\ target \in TargetType
  BY DEF SessionReaderError, IInv, TypeInv
<1>2. Shorter /\ AnswerTo(to_target[1], "TIMEOUT")
  BY <1>1, ReadFrame, NoAnswer DEF IInv
<1>. QED  BY <1>1, <1>2, ServiceOn, UnexecutedStep, Zenon DEF Down

\* A frame that nobody listens to.
LEMMA IgnoreInv == IInv /\ Ignore => IInv'
<1>. SUFFICES ASSUME IInv, Ignore PROVE IInv'
  OBVIOUS
<1>1. to_target # <<>> /\ to_target' = Tail(to_target)
      /\ UNCHANGED <<target, host, to_host, invocations, installed>> /\ target \in TargetType
  BY DEF Ignore, IInv, TypeInv
<1>2. Shorter /\ AnswerTo(to_target[1], "TIMEOUT")
  BY <1>1, ReadFrame, NoAnswer DEF IInv
<1>. QED  BY <1>1, <1>2, UnexecutedStep

\* The HELLO that opens a session.
LEMMA WindowHelloInv == IInv /\ WindowHello => IInv'
<1>. SUFFICES ASSUME IInv, WindowHello PROVE IInv'
  OBVIOUS
<1>1. to_target # <<>> /\ to_target' = Tail(to_target)
      /\ UNCHANGED <<host, invocations, installed>>
  BY DEF WindowHello
<1>2. Shorter /\ Head(to_target) = to_target[1] /\ to_target[1] \in Request
  BY <1>1, ReadFrame DEF IInv
<1>3. to_target[1].command = "HELLO" /\ AnswerTo(to_target[1], "OK")
  BY <1>2, WriteAnswer, Zenon DEF WindowHello, frame_is_initial_hello, IInv, Statuses
<1>4. ~host.update_started
  <2>1. 1 \in 1..Len(to_target)
    BY <1>1, LenProperties DEF IInv, TypeInv
  <2>. QED  BY <1>3, <2>1 DEF IInv, LineInv, HostInv, Consistent, InUpdate
<1>5. Truthful(to_target[1], "OK")
  BY <1>3 DEF Truthful
<1>6. target' \in TargetType /\ target'.state \in {"IDLE", "OFF"}
  <2>1. CASE target' = NoSession("OFF")
    BY <2>1, NoSessionType
  <2>2. CASE target' = [NoSession("IDLE") EXCEPT !.expected_sequence = 1]
    <3>1. <<>> \in Seq(Block) /\ 1 \in Numbers /\ 0 \in 0..PayloadBlocks
          /\ 0 \in 0..(MAX_FRAME_TIMEOUTS - 1)
      BY Sequence, LinkAssumption
    <3>. QED  BY <2>2, <3>1, Zenon DEF NoSession, TargetType, TargetStates, SessionStates
  <2>. QED  BY <2>1, <2>2 DEF WindowHello, run_after_hello
<1>7. SyncInv' /\ StreamIsPackage'
  BY <1>1, <1>4, <1>6, Zenon DEF SyncInv, StreamIsPackage
<1>8. SuccessIsInstalled' /\ installed' \in Packages \cup {NoPackage}
  BY <1>1 DEF IInv, SuccessIsInstalled, TypeInv
<1>. QED  BY <1>1, <1>2, <1>3, <1>5, <1>6, <1>7, <1>8, ReadStep, Zenon

\* What the line says of the frame a session is about to read.
LEMMA FirstRequest ==
  ASSUME IInv, InSession, to_target # <<>>, NEW f, f = to_target[1]
  PROVE  /\ f \in Request /\ f.package = host.package
         /\ f.command = host.request \/ (f.command = "HELLO" /\ ~host.update_started)
         /\ f.command = "BEGIN_UPDATE" => f.sequence = 1 /\ f.package \in Packages
         /\ f.command \in {"WRITE_BLOCK", "FINISH_UPDATE"} =>
              Len(to_target) = 1 /\ f.sequence = host.sequence /\ f.offset = host.offset
         /\ f.command \in InUpdate <=> host.update_started
         /\ f.command \in InUpdate =>
              /\ target.state = "UPDATING" /\ target.header = host.package
              /\ host.package \in Packages
         /\ ~(host.op = "idle" /\ host.result = "ok" /\ host.package # NoPackage)
<1>1. 1 \in 1..Len(to_target) /\ f \in Request
  BY LenProperties, TailOfLine DEF IInv, TypeInv
<1>2. /\ f.package = host.package
      /\ f.command = host.request \/ (f.command = "HELLO" /\ ~host.update_started)
      /\ f.command = "BEGIN_UPDATE" => f.sequence = 1 /\ f.package \in Packages
      /\ f.command \in {"WRITE_BLOCK", "FINISH_UPDATE"} =>
           Len(to_target) = 1 /\ f.sequence = host.sequence /\ f.offset = host.offset
  BY <1>1, Zenon DEF IInv, LineInv
<1>3. f.command \in InUpdate <=> host.update_started
  BY <1>2 DEF IInv, HostInv, Consistent, InUpdate
<1>4. host.update_started => /\ target.state = "UPDATING" /\ target.header = host.package
                             /\ host.package \in Packages
  BY DEF IInv, SyncInv, HostInv, Consistent, InSession, SessionStates, Down
<1>5. ~(host.op = "idle" /\ host.result = "ok" /\ host.package # NoPackage)
  BY DEF IInv, HostInv, Consistent
<1>. QED  BY <1>1, <1>2, <1>3, <1>4, <1>5, Zenon

\* The session after a command that left it open, and after one that closed it.
LEMMA ServiceSession ==
  ASSUME NEW t, NEW written \in BOOLEAN, target' = service_next(t, written)
  PROVE  /\ t.state \in {"FAILED", "ABORTED", "RESET_REQUESTED", "FINISHED"} =>
              target' \in TargetType /\ Down'
         /\ t \in TargetType /\ t.state \in SessionStates =>
              /\ target' \in TargetType
              /\ \/ Down'
                 \/ /\ target'.state = t.state /\ target'.header = t.header
                    /\ target'.update_payload_offset = t.update_payload_offset
                    /\ target'.expected_sequence = t.expected_sequence
                    /\ target'.accepted = t.accepted
<1>1. CASE t.state \in {"FAILED", "ABORTED", "RESET_REQUESTED", "FINISHED"}
  BY <1>1, NoSessionType DEF service_next, Down, SessionStates
<1>2. CASE t \in TargetType /\ t.state \in SessionStates
  <2>1. CASE target' = NoSession("OFF")
    BY <1>2, <2>1, NoSessionType DEF Down, SessionStates
  <2>2. CASE target' = [t EXCEPT !.frame_timeouts = 0]
    <3>1. 0 \in 0..(MAX_FRAME_TIMEOUTS - 1)
      BY LinkAssumption
    <3>. QED  BY <1>2, <2>2, <3>1 DEF TargetType, SessionStates
  <2>. QED  BY <1>2, <2>1, <2>2, Zenon DEF service_next, SessionStates
<1>. QED  BY <1>1, <1>2

\* Advancing the sequence number changes nothing else.
LEMMA NextSession ==
  ASSUME NEW t \in TargetType
  PROVE  /\ Next_(t) \in TargetType /\ Next_(t).expected_sequence = next_sequence(t.expected_sequence)
         /\ Next_(t).state = t.state /\ Next_(t).header = t.header
         /\ Next_(t).update_payload_offset = t.update_payload_offset
         /\ Next_(t).accepted = t.accepted
BY Sequence, Zenon DEF Next_, TargetType

\* A frame with its last byte: refused, executed, and answered.
LEMMA SessionReceiveInv == IInv /\ SessionReceive => IInv'
<1>. SUFFICES ASSUME IInv, SessionReceive PROVE IInv'
  OBVIOUS
<1>. DEFINE f == to_target[1]
<1>1. to_target # <<>> /\ to_target' = Tail(to_target) /\ InSession
      /\ UNCHANGED <<host, invocations>> /\ target \in TargetType
  BY DEF SessionReceive, IInv, TypeInv
<1>2. Shorter /\ Head(to_target) = f /\ f \in Request
  BY <1>1, ReadFrame DEF IInv
<1>3. PICK o \in handle_frame(target, f) : Answer(f, o)
  BY <1>2, Zenon DEF SessionReceive
<1>4. PICK written \in BOOLEAN :
        /\ target' = service_next(o.session, written)
        /\ to_host' \in Transmissions(to_host, reply(f, o.status))
        /\ installed' = IF o.session.state = "FINISHED" THEN o.session.header ELSE installed
  BY <1>3 DEF Answer, uart_binary_write
<1>. HIDE DEF f
<1>5. /\ f.package = host.package
      /\ f.command = host.request \/ (f.command = "HELLO" /\ ~host.update_started)
      /\ f.command = "BEGIN_UPDATE" => f.sequence = 1 /\ f.package \in Packages
      /\ f.command \in {"WRITE_BLOCK", "FINISH_UPDATE"} =>
           Len(to_target) = 1 /\ f.sequence = host.sequence /\ f.offset = host.offset
      /\ f.command \in InUpdate <=> host.update_started
      /\ f.command \in InUpdate =>
           /\ target.state = "UPDATING" /\ target.header = host.package
           /\ host.package \in Packages
      /\ ~(host.op = "idle" /\ host.result = "ok" /\ host.package # NoPackage)
  BY <1>1, FirstRequest, Zenon DEF f
<1>6. ASSUME NEW status \in Statuses, o.status = status
      PROVE  AnswerTo(to_target[1], status)
  BY <1>2, <1>4, <1>6, WriteAnswer DEF IInv, f
<1>7. SuccessIsInstalled'
  BY <1>1, <1>5, Zenon DEF SuccessIsInstalled
<1>8. installed \in Packages \cup {NoPackage} /\ target.state \in SessionStates
  BY <1>1, Zenon DEF IInv, TypeInv, InSession
<1>9. CASE Refused(f, o)
  <2>1. AnswerTo(to_target[1], o.status) /\ o.status # "OK" /\ o.session = target
    BY <1>6, <1>9, Zenon DEF Refused
  <2>2. UNCHANGED installed
    BY <1>4, <1>8, <2>1, Zenon DEF SessionStates
  <2>. QED  BY <1>1, <1>2, <1>4, <1>8, <2>1, <2>2, ServiceSession, UnexecutedStep, Zenon
<1>10. CASE f.form = "good" /\ f.sequence = target.expected_sequence /\ Passed(f, o)
  <2>1. ~host.update_started
    BY <1>5, <1>10, Zenon DEF Passed, InUpdate
  <2>2. AnswerTo(to_target[1], o.status)
    BY <1>6, <1>10 DEF Passed
  <2>3. Truthful(to_target[1], o.status)
    BY <1>10, Zenon DEF Passed, Truthful, f, ReadOnly
  <2>4. o.session \in TargetType /\ o.session.state = target.state /\ o.session.header = target.header
        /\ o.session.update_payload_offset = target.update_payload_offset
        /\ o.session.accepted = target.accepted
    BY <1>1, <1>10, Sequence, SMTT(30) DEF Passed, Next_, TargetType
  <2>5. UNCHANGED installed
    BY <1>4, <1>8, <2>4, Zenon DEF SessionStates
  <2>6. target' \in TargetType /\ (Down' \/
           /\ target'.state = target.state /\ target'.header = target.header
           /\ target'.update_payload_offset = target.update_payload_offset
           /\ target'.accepted = target.accepted)
    BY <1>4, <1>8, <2>4, ServiceSession
  <2>7. SyncInv'
    BY <1>1, <2>1, Zenon DEF SyncInv
  <2>8. StreamIsPackage'
    BY <2>6, Zenon DEF IInv, StreamIsPackage, signed_payload, Down
  <2>. QED  BY <1>1, <1>2, <1>7, <1>8, <2>2, <2>3, <2>5, <2>6, <2>7, <2>8, ReadStep, Zenon
<1>11. CASE f.form = "good" /\ f.sequence = target.expected_sequence /\ Begun(f, o)
  <2>1. ~host.update_started /\ f.package \in Packages /\ f.package = host.package
        /\ target.expected_sequence = 1
    BY <1>5, <1>11, Zenon DEF Begun, InUpdate
  <2>2. AnswerTo(to_target[1], o.status)
    BY <1>6, <1>11 DEF Begun, Statuses
  <2>3. o.session \in TargetType /\ o.session.state = "UPDATING" /\ o.session.header = f.package
        /\ o.session.update_payload_offset = 0 /\ o.session.accepted = <<>>
        /\ o.session.expected_sequence = next_sequence(1)
    <3>1. 0 \in 0..PayloadBlocks /\ <<>> \in Seq(Block) /\ next_sequence(1) \in Numbers
      BY Sequence, LinkAssumption
    <3>. DEFINE t == [target EXCEPT !.state = "UPDATING", !.update_payload_offset = 0,
                                    !.header = f.package, !.accepted = <<>>]
    <3>2. /\ t \in TargetType /\ t.state = "UPDATING" /\ t.header = f.package
          /\ t.update_payload_offset = 0 /\ t.accepted = <<>> /\ t.expected_sequence = 1
      BY <1>1, <2>1, <3>1, Zenon DEF TargetType, TargetStates, SessionStates
    <3>3. o.session = Next_(t)
      BY <1>11 DEF Begun
    <3>. HIDE DEF t
    <3>. QED  BY <3>2, <3>3, NextSession
  <2>4. UNCHANGED installed
    BY <1>4, <2>3, Zenon
  <2>5. target' \in TargetType /\ (Down' \/
           /\ target'.state = "UPDATING" /\ target'.header = f.package
           /\ target'.update_payload_offset = 0 /\ target'.accepted = <<>>
           /\ target'.expected_sequence = next_sequence(1))
    BY <1>4, <2>3, ServiceSession DEF SessionStates
  <2>6. Truthful(to_target[1], o.status)
    BY <1>11, <2>1, <2>5 DEF Begun, Truthful, f
  <2>7. SyncInv'
    BY <1>1, <2>1 DEF SyncInv
  <2>8. StreamIsPackage'
    <3>1. SubSeq(signed_payload(f.package), 1, 0) = <<>>
      BY <2>1, SignedPayload, SubSeqProperties
    <3>. QED  BY <2>1, <2>5, <3>1, Zenon DEF StreamIsPackage, signed_payload, Down
  <2>. QED  BY <1>1, <1>2, <1>7, <1>8, <2>2, <2>4, <2>5, <2>6, <2>7, <2>8, ReadStep, Zenon
<1>12. CASE f.form = "good" /\ f.sequence = target.expected_sequence /\ Written(f, o)
  <2>1. /\ f.command = "WRITE_BLOCK" /\ target.state = "UPDATING" /\ o.status = "OK"
        /\ f.offset = target.update_payload_offset /\ f.offset # PayloadBlocks
        /\ target.header = host.package /\ host.package \in Packages /\ f.package = host.package
        /\ Len(to_target) = 1 /\ f.sequence = host.sequence /\ f.offset = host.offset
    BY <1>5, <1>12 DEF Written, InUpdate
  <2>2. AnswerTo(to_target[1], o.status)
    BY <1>6, <2>1 DEF Statuses
  <2>. DEFINE n == target.update_payload_offset
              t == [target EXCEPT !.update_payload_offset = target.update_payload_offset + 1,
                                  !.accepted = Append(target.accepted, block_of(f))]
  <2>3. n \in Nat /\ n < PayloadBlocks /\ n + 1 \in 0..PayloadBlocks
    <3>1. n \in 0..PayloadBlocks /\ n # PayloadBlocks /\ PayloadBlocks \in Nat
      BY <1>1, <2>1, LinkAssumption, Zenon DEF TargetType
    <3>. HIDE DEF n
    <3>. QED  BY <3>1
  <2>4. Append(target.accepted, block_of(f)) = SubSeq(signed_payload(f.package), 1, n + 1)
        /\ Append(target.accepted, block_of(f)) \in Seq(Block)
    <3>. DEFINE s == signed_payload(f.package)
    <3>1. s \in Seq(Block) /\ Len(s) = PayloadBlocks /\ s[n + 1] = [package |-> f.package, offset |-> n]
      BY <2>1, <2>3, SignedPayload
    <3>2. block_of(f) = s[n + 1]
      BY <1>12, <2>1, <3>1 DEF block_of
    <3>3. target.accepted = SubSeq(s, 1, n)
      BY <2>1, Zenon DEF IInv, StreamIsPackage
    <3>4. block_of(f) \in Block /\ target.accepted \in Seq(Block)
      BY <1>1, <2>3, <3>1, <3>2, ElementOfSeq DEF TargetType
    <3>. HIDE DEF s, n
    <3>5. Append(SubSeq(s, 1, n), s[n + 1]) = SubSeq(s, 1, n + 1)
      BY <2>3, <3>1, LongerPrefix, Zenon
    <3>6. Append(target.accepted, block_of(f)) \in Seq(Block)
      BY <3>4, AppendToLine
    <3>. QED  BY <3>2, <3>3, <3>5, <3>6, Zenon DEF s
  <2>5. /\ t \in TargetType /\ t.state = "UPDATING" /\ t.header = f.package
        /\ t.update_payload_offset = host.offset + 1 /\ t.expected_sequence = host.sequence
        /\ t.accepted = SubSeq(signed_payload(f.package), 1, host.offset + 1)
    BY <1>1, <1>12, <2>1, <2>3, <2>4, Zenon DEF TargetType
  <2>6. o.session = Next_(t)
    BY <1>12 DEF Written
  <2>. HIDE DEF t, n
  <2>7. /\ o.session \in TargetType /\ o.session.state = "UPDATING" /\ o.session.header = f.package
        /\ o.session.update_payload_offset = host.offset + 1
        /\ o.session.expected_sequence = next_sequence(host.sequence)
        /\ o.session.accepted = SubSeq(signed_payload(f.package), 1, host.offset + 1)
    BY <2>5, <2>6, NextSession, Zenon
  <2>8. UNCHANGED installed
    BY <1>4, <2>7, Zenon
  <2>9. target' \in TargetType /\ (Down' \/
           /\ target'.state = "UPDATING" /\ target'.header = f.package
           /\ target'.update_payload_offset = host.offset + 1
           /\ target'.expected_sequence = next_sequence(host.sequence)
           /\ target'.accepted = SubSeq(signed_payload(f.package), 1, host.offset + 1))
    BY <1>4, <2>7, ServiceSession, Zenon DEF SessionStates
  <2>10. Down' \/ Ahead'
    BY <1>1, <2>9 DEF Ahead
  <2>11. Truthful(to_target[1], o.status)
    BY <2>1, <2>10, Zenon DEF Truthful, f
  <2>12. to_target' = <<>>
    <3>1. Len(to_target') = 0 /\ to_target' \in Seq(Request)
      BY <1>2, <2>1, SMTT(30) DEF Shorter
    <3>. QED  BY <3>1
  <2>13. SyncInv'
    BY <1>1, <2>1, <2>9, <2>10, <2>12, Zenon DEF SyncInv
  <2>14. StreamIsPackage'
    BY <2>1, <2>9, Zenon DEF StreamIsPackage, signed_payload, Down
  <2>. QED  BY <1>1, <1>2, <1>7, <1>8, <2>2, <2>8, <2>9, <2>11, <2>13, <2>14, ReadStep, Zenon
<1>13. CASE f.form = "good" /\ f.sequence = target.expected_sequence /\ Finished(f, o)
  <2>1. target.header = host.package /\ host.package \in Packages
    BY <1>5, <1>13 DEF Finished, InUpdate
  <2>2. AnswerTo(to_target[1], o.status)
    BY <1>6, <1>13, Zenon DEF Finished, Statuses
  <2>3. o.session.state = "FINISHED" /\ o.session.header = target.header
    BY <1>1, <1>13, Zenon DEF Finished, Next_, TargetType
  <2>4. installed' = host.package
    BY <1>4, <2>1, <2>3, Zenon
  <2>5. target' \in TargetType /\ Down'
    BY <1>4, <2>3, ServiceSession
  <2>6. Truthful(to_target[1], o.status)
    BY <2>4, <2>5, Zenon DEF Truthful
  <2>7. SyncInv' /\ StreamIsPackage'
    BY <2>5, Zenon DEF SyncInv, StreamIsPackage, Down
  <2>. QED  BY <1>1, <1>2, <1>7, <2>1, <2>2, <2>4, <2>5, <2>6, <2>7, ReadStep
<1>14. CASE f.form = "good" /\ f.sequence = target.expected_sequence /\ Ended(f, o)
  <2>1. AnswerTo(to_target[1], o.status)
    BY <1>6, <1>14 DEF Ended
  <2>2. Truthful(to_target[1], o.status)
    BY <1>14, Zenon DEF Ended, Truthful, f
  <2>3. UNCHANGED installed
    BY <1>4, <1>14, Zenon DEF Ended
  <2>4. target' \in TargetType /\ Down'
    BY <1>4, <1>14, ServiceSession, Zenon DEF Ended
  <2>5. SyncInv' /\ StreamIsPackage'
    BY <2>4 DEF SyncInv, StreamIsPackage, Down
  <2>. QED  BY <1>1, <1>2, <1>7, <1>8, <2>1, <2>2, <2>3, <2>4, <2>5, ReadStep, Zenon
<1>. QED  BY <1>1, <1>2, <1>9, <1>10, <1>11, <1>12, <1>13, <1>14, Executed
-----------------------------------------------------------------------------
(* The invariant is inductive: the host *)

\* What _send_once puts on the line.
LEMMA Requested ==
  ASSUME TypeInv, NEW h \in HostType, to_target' \in Transmissions(to_target, request_frame(h))
  PROVE  /\ to_target' \in Seq(Request) /\ Len(to_target') <= LinkCapacity
         /\ Len(to_target) \in Nat /\ Len(to_target') \in Nat
         /\ \A i \in 1..Len(to_target) : to_target'[i] = to_target[i]
         /\ \/ to_target' = to_target
            \/ /\ Len(to_target') = Len(to_target) + 1
               /\ LET f == to_target'[Len(to_target) + 1] IN
                  /\ f.command = h.request /\ f.sequence = h.sequence
                  /\ f.package = h.package /\ f.offset = h.offset
<1>1. \A form \in Forms : LET f == Arrived(request_frame(h), form) IN
        /\ f \in Request /\ f.command = h.request /\ f.sequence = h.sequence
        /\ f.package = h.package /\ f.offset = h.offset
  BY Zenon DEF request_frame, Request, HostType, Numbers, Forms, Arrived
<1>2. to_target \in Seq(Request) /\ Len(to_target) <= LinkCapacity
  BY DEF TypeInv
<1>3. /\ to_target' \in Seq(Request) /\ Len(to_target') <= LinkCapacity
      /\ \/ to_target' = to_target
         \/ \E form \in Forms : to_target' = Append(to_target, Arrived(request_frame(h), form))
  BY <1>1, <1>2, Transmitted
<1>4. Len(to_target) \in Nat /\ Len(to_target') \in Nat
  BY <1>2, <1>3, LenProperties, Zenon
<1>5. CASE to_target' = to_target
  BY <1>3, <1>4, <1>5, Zenon
<1>6. ASSUME NEW form \in Forms, to_target' = Append(to_target, Arrived(request_frame(h), form))
      PROVE  /\ Len(to_target') = Len(to_target) + 1
             /\ to_target'[Len(to_target) + 1] = Arrived(request_frame(h), form)
             /\ \A i \in 1..Len(to_target) : to_target'[i] = to_target[i]
  BY <1>1, <1>2, <1>6, AppendToLine
<1>. QED  BY <1>1, <1>3, <1>4, <1>5, <1>6

\* A step of the host leaves what the session has accepted alone.
LEMMA HostStep ==
  ASSUME IInv, UNCHANGED <<target, installed>>, invocations' \in 0..MaxInvocations,
         host' \in HostType, to_target' \in Seq(Request), Len(to_target') <= LinkCapacity,
         to_host' \in Seq(Response), Len(to_host') <= LinkCapacity,
         LineInv', HostInv', SyncInv', AnswerInv', SuccessIsInstalled'
  PROVE  IInv'
<1>1. StreamIsPackage'
  BY Zenon DEF IInv, StreamIsPackage, signed_payload
<1>2. TypeInv'
  BY Zenon DEF IInv, TypeInv
<1>. QED  BY <1>1, <1>2 DEF IInv

\* The answers that are left when the host has read some, or opened the port.
Read == /\ to_host' \in Seq(Response) /\ Len(to_host') <= LinkCapacity
        /\ Len(to_host') <= Len(to_host)

\* The host ends a command: what is on the line stays what it was, and a success
\* it reports is an installed package.
LEMMA HostEnded ==
  ASSUME IInv, UNCHANGED <<target, installed, invocations>>, Read,
         NEW h \in {host, advanced(host)}, NEW result \in {"ok", "failed"}, HostEnd(h, result),
         \/ h = host
         \/ host.request \notin {"WRITE_BLOCK", "FINISH_UPDATE"}
         \/ to_target = <<>> /\ Down,
         result = "ok" =>
           host.package = NoPackage \/ (to_target = <<>> /\ installed = host.package)
  PROVE  IInv'
<1>1. host \in HostType /\ h \in HostType
  BY Sequence DEF IInv, TypeInv, advanced, HostType
<1>2. /\ h.request = host.request /\ h.package = host.package /\ h.offset = host.offset
      /\ h.update_started = host.update_started /\ h.attempts = host.attempts
  BY <1>1, Zenon DEF advanced, HostType
<1>3. /\ host' \in HostType /\ host'.op = "idle" /\ host'.result = result
      /\ host'.request = host.request /\ host'.package = host.package
      /\ host'.offset = host.offset /\ host'.update_started = host.update_started
      /\ host'.sequence = h.sequence
      /\ UNCHANGED to_target
  BY <1>1, <1>2, Zenon DEF HostEnd, HostType
<1>4. LineInv'
  <2>1. /\ Len(to_target) \in Nat /\ Len(to_host) \in Nat /\ Len(to_host') \in Nat
        /\ Len(to_host') <= Len(to_host)
    BY LenProperties DEF IInv, TypeInv, Read
  <2>2. to_host = <<>> => to_host' = <<>>
    BY <2>1 DEF Read
  <2>3. ASSUME NEW i \in 1..Len(to_target),
               to_target[i].command \in {"WRITE_BLOCK", "FINISH_UPDATE"}
        PROVE  h = host
    <3>1. to_target # <<>>
      BY <2>1, <2>3, SMTT(30)
    <3>2. host.request \in {"WRITE_BLOCK", "FINISH_UPDATE"}
      BY <2>3, Zenon DEF IInv, LineInv
    <3>. QED  BY <3>1, <3>2, Zenon
  <2>4. Len(to_target') + Len(to_host') <= 2
    BY <1>3, <2>1, SMTT(30) DEF IInv, LineInv
  <2>. QED  BY <1>3, <2>2, <2>3, <2>4 DEF IInv, LineInv
<1>5. HostInv'
  BY <1>3, Zenon DEF IInv, HostInv, Consistent
<1>6. SyncInv'
  <2>1. CASE h = host
    BY <1>3, <2>1, Zenon DEF IInv, SyncInv, Down, Behind, Ahead
  <2>2. CASE host.request \notin {"WRITE_BLOCK", "FINISH_UPDATE"}
    BY <1>3, <2>2 DEF IInv, SyncInv, Down, HostInv, Consistent, InUpdate
  <2>3. CASE Down
    BY <2>3, Zenon DEF SyncInv, Down
  <2>. QED  BY <2>1, <2>2, <2>3, Zenon
<1>7. AnswerInv' /\ SuccessIsInstalled'
  BY <1>3, Zenon DEF AnswerInv, SuccessIsInstalled
<1>8. /\ invocations' \in 0..MaxInvocations /\ to_target' \in Seq(Request)
      /\ Len(to_target') <= LinkCapacity
  BY <1>3, Zenon DEF IInv, TypeInv
<1>. QED  BY <1>3, <1>4, <1>5, <1>6, <1>7, <1>8, HostStep DEF Read

\* A host that has begun an update, faces the session this far.
Faces(h) ==
  h.update_started =>
    \/ Down
    \/ /\ target.state = "UPDATING" /\ target.header = h.package
       /\ target.update_payload_offset \in {h.offset, h.offset + 1}
       /\ \/ h.request = "ABORT_UPDATE"
          \/ target.update_payload_offset = h.offset /\ target.expected_sequence = h.sequence

\* What may be on the line when h is about to send its request: HELLOs of the same
\* run and their answers, and nothing at all once an update has begun.
Clear(h) ==
  /\ Len(to_target) + Len(to_host') < 2
  /\ \A i \in 1..Len(to_target) :
       /\ to_target[i].command = "HELLO" /\ to_target[i].sequence = 0
       /\ to_target[i].package = h.package
  /\ h.update_started => to_target = <<>>
  /\ h.request \in {"WRITE_BLOCK", "FINISH_UPDATE"} => to_host' = <<>>
  /\ h.request = "BEGIN_UPDATE" => \A i \in 1..Len(to_host') :
       to_host'[i].command = "HELLO" /\ to_host'[i].sequence = 0

\* The host sends a request.
LEMMA HostSent ==
  ASSUME IInv, UNCHANGED <<target, installed>>, invocations' \in 0..MaxInvocations, Read,
         NEW h \in HostType, h.op # "idle", HostSend(h), Consistent(h), Faces(h), Clear(h)
  PROVE  IInv'
<1>1. host' = h /\ to_target' \in Transmissions(to_target, request_frame(h))
  BY Zenon DEF HostSend
<1>2. /\ to_target' \in Seq(Request) /\ Len(to_target') <= LinkCapacity
      /\ Len(to_target) \in Nat /\ Len(to_target') \in Nat
      /\ \A i \in 1..Len(to_target) : to_target'[i] = to_target[i]
      /\ \/ Len(to_target') = Len(to_target)
         \/ /\ Len(to_target') = Len(to_target) + 1
            /\ LET f == to_target'[Len(to_target) + 1] IN
               /\ f.command = h.request /\ f.sequence = h.sequence
               /\ f.package = h.package /\ f.offset = h.offset
  BY <1>1, Requested, Zenon DEF IInv
<1>3. /\ Len(to_target) \in Nat /\ Len(to_target') \in Nat /\ Len(to_host') \in Nat
      /\ Len(to_target') <= Len(to_target) + 1 /\ Len(to_target) + Len(to_host') < 2
  BY <1>2, LenProperties DEF Read, Clear
<1>4. Len(to_target') + Len(to_host') <= 2 /\ Len(to_host') # 2
  BY <1>3, Counting, Zenon
<1>5. ASSUME NEW i \in 1..Len(to_target')
      PROVE  \/ /\ to_target'[i].command = "HELLO" /\ to_target'[i].sequence = 0
                /\ to_target'[i].package = h.package /\ ~h.update_started
             \/ /\ i = Len(to_target')
                /\ to_target'[i].command = h.request /\ to_target'[i].sequence = h.sequence
                /\ to_target'[i].package = h.package /\ to_target'[i].offset = h.offset
  <2>1. CASE i \in 1..Len(to_target)
    <3>1. to_target # <<>>
      BY <1>2, <2>1
    <3>. QED  BY <1>2, <2>1, <3>1, Zenon DEF Clear
  <2>2. CASE i \notin 1..Len(to_target)
    <3>1. Len(to_target') = Len(to_target) + 1 /\ i = Len(to_target) + 1
      BY <1>2, <2>2
    <3>. QED  BY <1>2, <3>1, SMTT(30)
  <2>. QED  BY <2>1, <2>2, Zenon
<1>6. LineInv'
  <2>1. h.request \in {"WRITE_BLOCK", "FINISH_UPDATE"} =>
          Len(to_target') <= 1 /\ to_host' = <<>> /\ h.update_started
    <3>1. ASSUME h.request \in {"WRITE_BLOCK", "FINISH_UPDATE"}
          PROVE  h.update_started /\ to_target = <<>> /\ to_host' = <<>>
      BY <3>1 DEF Consistent, InUpdate, Clear
    <3>. QED  BY <1>3, <3>1
  <2>2. h.request = "BEGIN_UPDATE" => h.sequence = 1 /\ h.package \in Packages
    BY Zenon DEF Consistent, ReadOnly
  <2>3. h.request = "HELLO" => h.sequence = 0
    BY Zenon DEF Consistent
  <2>4. ASSUME NEW i \in 1..Len(to_target')
        PROVE  LET f == to_target'[i] IN
               /\ f.package = host'.package
               /\ f.command = host'.request \/ (f.command = "HELLO" /\ ~host'.update_started)
               /\ f.command = "HELLO" => f.sequence = 0
               /\ f.command = "BEGIN_UPDATE" =>
                    f.sequence = 1 /\ f.package \in Packages /\ i = Len(to_target')
               /\ f.command \in {"WRITE_BLOCK", "FINISH_UPDATE"} =>
                    /\ Len(to_target') = 1 /\ to_host' = <<>>
                    /\ f.sequence = host'.sequence /\ f.offset = host'.offset
    <3>1. Len(to_target') <= 1 => Len(to_target') = 1
      <4>1. Len(to_target') \in Nat /\ i \in Nat
        BY <1>3, SMTT(30)
      <4>. QED  BY <4>1, Counting, Zenon
    <3>2. CASE /\ to_target'[i].command = "HELLO" /\ to_target'[i].sequence = 0
               /\ to_target'[i].package = h.package /\ ~h.update_started
      BY <1>1, <3>2, Zenon
    <3>3. CASE /\ i = Len(to_target')
               /\ to_target'[i].command = h.request /\ to_target'[i].sequence = h.sequence
               /\ to_target'[i].package = h.package /\ to_target'[i].offset = h.offset
      BY <1>1, <2>1, <2>2, <2>3, <3>1, <3>3, Zenon
    <3>. QED  BY <1>5, <3>2, <3>3, Zenon
  <2>. QED  BY <1>4, <2>4 DEF LineInv
<1>7. HostInv'
  BY <1>1 DEF HostInv, Consistent
<1>8. SyncInv'
  BY <1>1, Zenon DEF SyncInv, Faces, Down, Behind
<1>9. AnswerInv'
  <2>1. h.request = "HELLO" => Len(to_host') # 2
    BY <1>4, Zenon
  <2>2. h.request = "BEGIN_UPDATE" => BeginAnswered'
    BY DEF Clear, BeginAnswered
  <2>3. ASSUME h.request \in {"WRITE_BLOCK", "FINISH_UPDATE"}
        PROVE  UpdateAnswered'
    <3>1. to_host' = <<>> /\ to_target = <<>>
      BY <2>3 DEF Consistent, InUpdate, Clear
    <3>2. Len(to_target') + Len(to_host') < 2
      BY <1>3, <3>1
    <3>. QED  BY <3>1, <3>2 DEF UpdateAnswered
  <2>. QED  BY <1>1, <2>1, <2>2, <2>3 DEF AnswerInv
<1>10. SuccessIsInstalled'
  BY <1>1 DEF SuccessIsInstalled
<1>. QED  BY <1>1, <1>2, <1>6, <1>7, <1>8, <1>9, <1>10, HostStep, Zenon DEF Read

\* update() after an error: ABORT_UPDATE, or the end.
LEMMA HostFailed ==
  ASSUME IInv, UNCHANGED <<target, installed, invocations>>, Read, host.op # "idle",
         NEW h \in {host, advanced(host)}, HostFail(h),
         host.request \in {"WRITE_BLOCK", "FINISH_UPDATE"} =>
           to_target = <<>> /\ Len(to_host') < 2
  PROVE  IInv'
<1>1. host \in HostType /\ h \in HostType
  BY Sequence DEF IInv, TypeInv, advanced, HostType
<1>2. /\ h.request = host.request /\ h.package = host.package /\ h.offset = host.offset
      /\ h.update_started = host.update_started /\ h.op = host.op
  BY <1>1, Zenon DEF advanced, HostType
<1>3. host.update_started => host.request \in InUpdate
  BY DEF IInv, HostInv, Consistent
<1>4. CASE h.update_started /\ h.request # "ABORT_UPDATE"
  <2>. DEFINE g == asking(h, "ABORT_UPDATE")
  <2>1. HostSend(g) /\ host.request \in {"WRITE_BLOCK", "FINISH_UPDATE"}
    BY <1>2, <1>3, <1>4 DEF HostFail, InUpdate
  <2>2. /\ g \in HostType /\ g.request = "ABORT_UPDATE" /\ g.package = host.package
        /\ g.offset = host.offset /\ g.update_started /\ g.op = host.op /\ g.attempts = 0
    <3>1. g = [h EXCEPT !.request = "ABORT_UPDATE", !.attempts = 0]
      BY DEF asking, attempts_for, ReadOnly
    <3>2. 0 \in 0..Retries /\ "ABORT_UPDATE" \in Commands
      BY LinkAssumption, SMTT(30) DEF Commands
    <3>. QED  BY <1>1, <1>2, <1>4, <3>1, <3>2, Zenon DEF HostType
  <2>. HIDE DEF g
  <2>3. Consistent(g) /\ Faces(g)
    <3>1. Consistent(host) /\ SyncInv
      BY DEF IInv, HostInv
    <3>. QED  BY <1>2, <1>4, <2>1, <2>2, <3>1, Zenon DEF Consistent, Faces, SyncInv, Down, InUpdate, ReadOnly
  <2>4. Clear(g)
    <3>1. to_target = <<>> /\ Len(to_host') < 2 /\ Len(to_host') \in Nat
      BY <2>1, LenProperties DEF Read
    <3>. QED  BY <2>2, <3>1 DEF Clear
  <2>5. invocations' \in 0..MaxInvocations
    BY Zenon DEF IInv, TypeInv
  <2>. QED  BY <2>1, <2>2, <2>3, <2>4, <2>5, HostSent, Zenon
<1>5. CASE ~(h.update_started /\ h.request # "ABORT_UPDATE")
  <2>1. HostEnd(h, "failed")
    BY <1>5, Zenon DEF HostFail
  <2>2. host.request \notin {"WRITE_BLOCK", "FINISH_UPDATE"}
    BY <1>2, <1>5 DEF IInv, HostInv, Consistent, InUpdate
  <2>. QED  BY <2>1, <2>2, HostEnded
<1>. QED  BY <1>4, <1>5

\* The operator interrupts stm32ctl.
LEMMA HostInterruptInv == IInv /\ HostInterrupt => IInv'
<1>. SUFFICES ASSUME IInv, HostInterrupt PROVE IInv'
  OBVIOUS
<1>1. Read
  BY LenProperties DEF IInv, TypeInv, HostInterrupt, Read
<1>. QED  BY <1>1, HostEnded, Zenon DEF HostInterrupt

\* A cut answer and the one it swallowed.
LEMMA HostReceiveMergedInv == IInv /\ HostReceiveMerged => IInv'
<1>. SUFFICES ASSUME IInv, HostReceiveMerged PROVE IInv'
  OBVIOUS
<1>. DEFINE t == Tail(to_host)
<1>1. to_host \in Seq(Response) /\ Len(to_host) > 1 /\ Len(to_host) <= LinkCapacity
      /\ Len(to_host) \in Nat /\ LinkCapacity \in Nat /\ to_host # <<>>
  BY LenProperties, LinkAssumption DEF IInv, TypeInv, HostReceiveMerged
<1>2. t \in Seq(Response) /\ Len(t) = Len(to_host) - 1
  BY <1>1, TailOfLine
<1>. HIDE DEF t
<1>3. t # <<>>
  BY <1>1, <1>2
<1>4. Tail(t) \in Seq(Response) /\ Len(Tail(t)) = Len(t) - 1
  BY <1>2, <1>3, TailOfLine, Zenon
<1>5. Read
  <2>1. to_host' = Tail(t)
    BY Zenon DEF HostReceiveMerged, t
  <2>. QED  BY <1>1, <1>2, <1>4, <2>1 DEF Read
<1>6. host.op # "idle" /\ host.request \notin {"WRITE_BLOCK", "FINISH_UPDATE"}
  <2>1. Len(to_target) \in Nat /\ ~(Len(to_target) + Len(to_host) < 2)
    BY <1>1, LenProperties DEF IInv, TypeInv
  <2>. QED  BY <2>1 DEF IInv, AnswerInv, UpdateAnswered, HostReceiveMerged
<1>. QED  BY <1>5, <1>6, HostFailed, Zenon DEF HostReceiveMerged

\* Reading an answer leaves the others.
LEMMA ReadAnswer ==
  ASSUME TypeInv, to_host # <<>>, to_host' = Tail(to_host)
  PROVE  /\ Read /\ Head(to_host) = to_host[1] /\ Len(to_host) \in Nat /\ Len(to_host) > 0
         /\ Len(to_host') = Len(to_host) - 1
         /\ \A i \in 1..Len(to_host') : i + 1 \in 1..Len(to_host) /\ to_host'[i] = to_host[i + 1]
<1>1. to_host \in Seq(Response) /\ Len(to_host) <= LinkCapacity /\ LinkCapacity \in Nat
  BY LinkAssumption, Zenon DEF TypeInv
<1>2. /\ to_host' \in Seq(Response) /\ Len(to_host') = Len(to_host) - 1 /\ Len(to_host) \in Nat
      /\ \A i \in 1..Len(to_host') : i + 1 \in 1..Len(to_host) /\ to_host'[i] = to_host[i + 1]
      /\ Head(to_host) = to_host[1] /\ Len(to_host) > 0
  BY <1>1, TailOfLine
<1>3. Len(to_host') <= LinkCapacity /\ Len(to_host') <= Len(to_host)
  BY <1>1, <1>2
<1>. QED  BY <1>2, <1>3 DEF Read

\* Nothing under way but one late answer.
LEMMA QuietLine ==
  ASSUME IInv, LineQuiet, Read, NEW h, h.request \in ReadOnly, ~h.update_started
  PROVE  Clear(h)
<1>1. to_target = <<>> /\ Len(to_host) \in Nat /\ Len(to_host') \in Nat /\ Len(to_host) <= 1
      /\ Len(to_host') <= Len(to_host)
  BY LenProperties DEF LineQuiet, Read, IInv, TypeInv
<1>2. Len(to_target) + Len(to_host') < 2
  BY <1>1
<1>. QED  BY <1>1, <1>2 DEF Clear, ReadOnly

\* An answer, or the rest of one, does not come: the request again, or an error.
LEMMA HostTimeoutInv == IInv /\ HostTimeout => IInv'
<1>. SUFFICES ASSUME IInv, HostTimeout PROVE IInv'
  OBVIOUS
<1>1. LineQuiet /\ host.op # "idle" /\ UNCHANGED <<target, installed, invocations>>
      /\ (to_host' = to_host \/ (to_host # <<>> /\ to_host' = Tail(to_host)))
  BY DEF HostTimeout
<1>2. Read
  <2>1. CASE to_host' = to_host
    BY <2>1, LenProperties DEF IInv, TypeInv, Read
  <2>. QED  BY <1>1, <2>1, ReadAnswer, Zenon DEF IInv
<1>3. host \in HostType /\ Consistent(host) /\ invocations' \in 0..MaxInvocations
  BY <1>1, Zenon DEF IInv, TypeInv, HostInv
<1>4. CASE host.attempts > 0
  <2>. DEFINE g == [host EXCEPT !.attempts = host.attempts - 1]
  <2>1. HostSend(g)
    BY <1>4, Zenon DEF HostTimeout
  <2>2. host.attempts - 1 \in 0..Retries
    BY <1>3, <1>4, LinkAssumption DEF HostType
  <2>3. /\ g \in HostType /\ g.op = host.op /\ g.request = host.request
        /\ g.sequence = host.sequence /\ g.package = host.package /\ g.offset = host.offset
        /\ g.update_started = host.update_started
    BY <1>3, <2>2, Zenon DEF HostType
  <2>. HIDE DEF g
  <2>4. g.request \in ReadOnly /\ ~g.update_started
    BY <1>1, <1>3, <1>4, <2>3, SMTT(30) DEF Consistent, InUpdate, ReadOnly
  <2>5. Consistent(g) /\ Faces(g)
    BY <1>3, <2>3, <2>4, Zenon DEF Consistent, Faces
  <2>. QED  BY <1>1, <1>2, <1>3, <2>1, <2>3, <2>4, <2>5, QuietLine, HostSent, Zenon
<1>5. CASE ~(host.attempts > 0)
  <2>1. HostFail(host)
    BY <1>5, Zenon DEF HostTimeout
  <2>2. to_target = <<>> /\ Len(to_host') < 2
    <3>1. Len(to_host) <= 1 /\ Len(to_host') <= Len(to_host) /\ to_target = <<>>
          /\ Len(to_host) \in Nat /\ Len(to_host') \in Nat
      BY <1>1, <1>2, LenProperties, Zenon DEF LineQuiet, Read, IInv, TypeInv
    <3>. QED  BY <3>1
  <2>. QED  BY <1>1, <1>2, <2>1, <2>2, HostFailed
<1>. QED  BY <1>4, <1>5

\* stm32ctl is started.
LEMMA InvokeInv ==
  ASSUME IInv, NEW op \in Ops, NEW package \in Packages \cup {NoPackage},
         op = "update" <=> package \in Packages, Invoke(op, package)
  PROVE  IInv'
<1>1. LineQuiet /\ UNCHANGED <<target, installed>> /\ (to_host' = to_host \/ to_host' = <<>>)
  BY Zenon DEF Invoke
<1>2. Read
  <2>1. to_host \in Seq(Response) /\ <<>> \in Seq(Response) /\ LinkCapacity \in Nat
        /\ Len(to_host) \in Nat /\ Len(to_host) <= LinkCapacity
    BY LenProperties, LinkAssumption DEF IInv, TypeInv
  <2>2. CASE to_host' = to_host
    BY <2>1, <2>2 DEF Read
  <2>3. CASE to_host' = <<>>
    <3>1. to_host' \in Seq(Response) /\ Len(to_host') = 0
      BY <2>1, <2>3
    <3>. QED  BY <2>1, <3>1 DEF Read
  <2>. QED  BY <1>1, <2>2, <2>3
<1>3. invocations' \in 0..MaxInvocations
  BY LinkAssumption DEF Invoke, IInv, TypeInv
<1>. DEFINE g == asking([IdleHost EXCEPT !.op = op, !.package = package], "HELLO")
<1>4. HostSend(g)
  BY DEF Invoke
<1>5. g = [op |-> op, request |-> "HELLO", sequence |-> 0, attempts |-> Retries,
           package |-> package, offset |-> 0, update_started |-> FALSE, result |-> "none"]
  <2>1. attempts_for("HELLO") = Retries
    BY Zenon DEF attempts_for, ReadOnly
  <2>2. g = [[IdleHost EXCEPT !.op = op, !.package = package]
               EXCEPT !.request = "HELLO", !.attempts = Retries]
    BY <2>1, Zenon DEF asking
  <2>. HIDE DEF g
  <2>. QED  BY <2>2, Zenon DEF IdleHost
<1>. HIDE DEF g
<1>6. g \in HostType
  BY <1>5, Sequence, LinkAssumption DEF HostType, Commands, ReadOnly
<1>7. /\ g.op = op /\ g.request = "HELLO" /\ g.sequence = 0 /\ g.package = package
      /\ g.offset = 0 /\ ~g.update_started /\ g.op # "idle"
  BY <1>5, Zenon DEF Ops
<1>8. Consistent(g) /\ Faces(g) /\ g.request \in ReadOnly
  BY <1>7 DEF Consistent, Faces, InUpdate, ReadOnly
<1>. QED  BY <1>1, <1>2, <1>3, <1>4, <1>6, <1>7, <1>8, QuietLine, HostSent, Zenon

\* A request made of a host that has another one behind it.
LEMMA Asking ==
  ASSUME NEW h \in HostType, NEW command \in Commands
  PROVE  LET g == asking(h, command) IN
         /\ g \in HostType /\ g.request = command /\ g.op = h.op /\ g.sequence = h.sequence
         /\ g.package = h.package /\ g.offset = h.offset /\ g.result = h.result
         /\ g.update_started = h.update_started
         /\ command \notin ReadOnly => g.attempts = 0
<1>1. attempts_for(command) \in 0..Retries /\ (command \notin ReadOnly => attempts_for(command) = 0)
  BY LinkAssumption DEF attempts_for
<1>. QED  BY <1>1, Zenon DEF asking, HostType

\* The answer to HELLO: the lines hold nothing but HELLOs of this run.
LEMMA Greeted ==
  ASSUME IInv, host.op # "idle", host.request = "HELLO", to_host # <<>>, to_host' = Tail(to_host),
         NEW h, h.package = host.package, ~h.update_started, h.request \in {"GET_STATUS", "BEGIN_UPDATE"}
  PROVE  Clear(h)
<1>1. /\ Len(to_host) \in Nat /\ Len(to_host) > 0 /\ Len(to_host') = Len(to_host) - 1
      /\ \A i \in 1..Len(to_host') : i + 1 \in 1..Len(to_host) /\ to_host'[i] = to_host[i + 1]
      /\ Len(to_target) \in Nat /\ Len(to_target) + Len(to_host) <= 2
  BY ReadAnswer, LenProperties, Zenon DEF IInv, TypeInv, LineInv
<1>2. Len(to_target) + Len(to_host') < 2
  BY <1>1, SMTT(30)
<1>3. ASSUME NEW i \in 1..Len(to_target)
      PROVE  /\ to_target[i].command = "HELLO" /\ to_target[i].sequence = 0
             /\ to_target[i].package = h.package
  BY Zenon DEF IInv, LineInv
<1>4. ASSUME NEW i \in 1..Len(to_host')
      PROVE  to_host'[i].command = "HELLO" /\ to_host'[i].sequence = 0
  <2>1. i + 1 = 2 /\ Len(to_host) = 2
    BY <1>1
  <2>. QED  BY <1>1, <2>1 DEF IInv, AnswerInv
<1>. QED  BY <1>2, <1>3, <1>4, Zenon DEF Clear

\* The answer to a request of an update: nothing else is under way.
LEMMA AnsweredAlone ==
  ASSUME IInv, host.op # "idle", to_host # <<>>, to_host' = Tail(to_host),
         \/ host.request \in {"WRITE_BLOCK", "FINISH_UPDATE"}
         \/ host.request = "BEGIN_UPDATE" /\ to_host[1].command = "BEGIN_UPDATE"
  PROVE  to_target = <<>> /\ to_host' = <<>>
<1>1. /\ Len(to_host) \in Nat /\ Len(to_host) > 0 /\ Len(to_host') = Len(to_host) - 1
      /\ Len(to_target) \in Nat /\ to_host' \in Seq(Response) /\ to_target \in Seq(Request)
  BY ReadAnswer, LenProperties, Zenon DEF IInv, TypeInv, Read
<1>2. to_target = <<>> /\ Len(to_host) = 1
  <2>1. CASE host.request \in {"WRITE_BLOCK", "FINISH_UPDATE"}
    <3>1. Len(to_target) + Len(to_host) < 2
      BY <2>1 DEF IInv, AnswerInv, UpdateAnswered
    <3>2. Len(to_host) >= 1
      BY <1>1
    <3>3. Len(to_host) = 1 /\ Len(to_target) = 0
      BY <1>1, <3>1, <3>2
    <3>. QED  BY <1>1, <3>3
  <2>2. CASE host.request = "BEGIN_UPDATE" /\ to_host[1].command = "BEGIN_UPDATE"
    <3>1. 1 \in 1..Len(to_host)
      BY <1>1
    <3>. QED  BY <2>2, <3>1, Zenon DEF IInv, AnswerInv, BeginAnswered
  <2>. QED  BY <2>1, <2>2
<1>3. Len(to_host') = 0
  BY <1>1, <1>2
<1>. QED  BY <1>1, <1>2, <1>3

\* RESET is sent and the command ends.
LEMMA HostResetSent ==
  ASSUME IInv, UNCHANGED <<target, installed, invocations>>, host.op = "reset",
         host.request = "HELLO", to_host # <<>>, to_host' = Tail(to_host),
         NEW h \in HostType, h.request = "RESET", h.package = host.package, ~h.update_started,
         h.offset = 0,
         to_target' \in Transmissions(to_target, request_frame(h)),
         host' = [h EXCEPT !.op = "idle", !.result = "ok", !.sequence = next_sequence(@)]
  PROVE  IInv'
<1>1. /\ host' \in HostType /\ host'.op = "idle" /\ host'.result = "ok" /\ host'.request = "RESET"
      /\ host'.package = host.package /\ ~host'.update_started /\ host'.offset = 0
  BY Sequence, Zenon DEF HostType
<1>2. /\ to_target' \in Seq(Request) /\ Len(to_target') <= LinkCapacity
      /\ Len(to_target) \in Nat /\ Len(to_target') \in Nat
      /\ \A i \in 1..Len(to_target) : to_target'[i] = to_target[i]
      /\ \/ Len(to_target') = Len(to_target)
         \/ /\ Len(to_target') = Len(to_target) + 1
            /\ LET f == to_target'[Len(to_target) + 1] IN
               f.command = h.request /\ f.package = h.package
  BY Requested DEF IInv
<1>3. Read /\ Len(to_host) \in Nat /\ Len(to_host') = Len(to_host) - 1
      /\ Len(to_target) + Len(to_host) <= 2
  BY ReadAnswer DEF IInv, LineInv
<1>4. host.package = NoPackage
  BY DEF IInv, HostInv, Consistent, TypeInv, HostType
<1>5. LineInv'
  <2>1. Len(to_target') <= Len(to_target) + 1 /\ Len(to_target) \in Nat /\ Len(to_target') \in Nat
    BY <1>2
  <2>2. Len(to_target') + Len(to_host') <= 2
    BY <1>3, <2>1
  <2>3. ASSUME NEW i \in 1..Len(to_target')
        PROVE  /\ to_target'[i].package = host.package
               /\ \/ to_target'[i].command = "HELLO" /\ to_target'[i].sequence = 0
                  \/ to_target'[i].command = "RESET"
    <3>1. CASE i \in 1..Len(to_target)
      BY <1>2, <3>1, Zenon DEF IInv, LineInv
    <3>2. CASE i \notin 1..Len(to_target)
      <4>1. Len(to_target') = Len(to_target) + 1 /\ i = Len(to_target) + 1
        BY <1>2, <3>2
      <4>. QED  BY <1>2, <4>1
    <3>. QED  BY <3>1, <3>2
  <2>. QED  BY <1>1, <2>2, <2>3 DEF LineInv
<1>6. HostInv' /\ SyncInv' /\ AnswerInv' /\ SuccessIsInstalled'
  BY <1>1, <1>4, Zenon DEF HostInv, Consistent, SyncInv, AnswerInv, SuccessIsInstalled, InUpdate
<1>7. invocations' \in 0..MaxInvocations
  BY Zenon DEF IInv, TypeInv
<1>. QED  BY <1>1, <1>2, <1>3, <1>5, <1>6, <1>7, HostStep, Zenon DEF Read

\* The next request of an update, or its FINISH_UPDATE, is sent: the session has
\* taken what the host counts as sent.
LEMMA HostGoesOn ==
  ASSUME IInv, UNCHANGED <<target, installed, invocations>>, Read,
         to_target = <<>>, to_host' = <<>>,
         NEW h \in HostType, h.op = "update", h.package \in Packages, h.update_started,
         HostSend(write_or_finish(h)),
         \/ Down
         \/ /\ target.state = "UPDATING" /\ target.header = h.package
            /\ target.update_payload_offset = h.offset /\ target.expected_sequence = h.sequence
  PROVE  IInv'
<1>. DEFINE command == IF h.offset = PayloadBlocks THEN "FINISH_UPDATE" ELSE "WRITE_BLOCK"
            g == asking(h, command)
<1>1. command \in Commands /\ command \in {"WRITE_BLOCK", "FINISH_UPDATE"}
      /\ command \notin ReadOnly /\ HostSend(g)
  BY Zenon DEF Commands, ReadOnly, write_or_finish
<1>2. command = "WRITE_BLOCK" => h.offset < PayloadBlocks
  BY LinkAssumption, SMTT(30) DEF HostType
<1>3. command = "FINISH_UPDATE" => h.offset = PayloadBlocks
  BY Zenon
<1>. HIDE DEF command
<1>4. /\ g \in HostType /\ g.request = command /\ g.op = "update" /\ g.sequence = h.sequence
      /\ g.package = h.package /\ g.offset = h.offset /\ g.update_started /\ g.attempts = 0
  BY <1>1, Asking, Zenon
<1>. HIDE DEF g
<1>5. Consistent(g)
  BY <1>1, <1>2, <1>3, <1>4, Zenon DEF Consistent, InUpdate, ReadOnly
<1>6. Faces(g)
  BY <1>4, Zenon DEF Faces
<1>7. Clear(g)
  BY <1>4 DEF Clear
<1>8. invocations' \in 0..MaxInvocations /\ g.op # "idle"
  BY <1>4, Zenon DEF IInv, TypeInv
<1>. QED  BY <1>1, <1>4, <1>5, <1>6, <1>7, <1>8, HostSent, Zenon

\* A positive answer to the request the host waits for.
LEMMA HostProceedInv ==
  ASSUME IInv, host.op # "idle", to_host # <<>>, to_host' = Tail(to_host),
         UNCHANGED <<target, installed, invocations>>,
         to_host[1].command = host.request, to_host[1].status = "OK",
         HostProceed(advanced(host))
  PROVE  IInv'
<1>. DEFINE h == advanced(host)
<1>1. Read /\ 1 \in 1..Len(to_host) /\ invocations' \in 0..MaxInvocations
  BY ReadAnswer DEF IInv, TypeInv
<1>2. host \in HostType /\ Consistent(host)
  BY DEF IInv, TypeInv, HostInv
<1>3. /\ h \in HostType /\ h.request = host.request /\ h.op = host.op
      /\ h.sequence = next_sequence(host.sequence) /\ h.package = host.package
      /\ h.offset = host.offset /\ h.update_started = host.update_started
  BY <1>2, Sequence, Zenon DEF advanced, HostType
<1>4. HostProceed(h) /\ h = advanced(host)
  BY Zenon
<1>. HIDE DEF h
<1>5. CASE host.request = "HELLO" /\ host.op \in {"status", "update"}
  <2>. DEFINE command == IF host.op = "status" THEN "GET_STATUS" ELSE "BEGIN_UPDATE"
              g == asking(h, command)
  <2>1. HostSend(g)
    <3>1. CASE host.op = "status"
      <4>1. HostSend(asking(h, "GET_STATUS"))
        BY <1>3, <1>4, <1>5, <3>1, Zenon DEF HostProceed
      <4>. QED  BY <3>1, <4>1, Zenon
    <3>2. CASE host.op = "update"
      <4>1. HostSend(asking(h, "BEGIN_UPDATE"))
        BY <1>3, <1>4, <1>5, <3>2, Zenon DEF HostProceed
      <4>. QED  BY <3>2, <4>1, Zenon
    <3>. QED  BY <1>5, <3>1, <3>2
  <2>2. command \in Commands /\ command \in {"GET_STATUS", "BEGIN_UPDATE"}
        /\ (command = "GET_STATUS" <=> host.op = "status")
    BY Zenon DEF Commands, ReadOnly
  <2>. HIDE DEF command
  <2>3. /\ g \in HostType /\ g.request = command /\ g.op = host.op
        /\ g.sequence = next_sequence(host.sequence) /\ g.package = host.package
        /\ g.offset = host.offset /\ g.update_started = host.update_started
        /\ (command \notin ReadOnly => g.attempts = 0)
    BY <1>3, <2>2, Asking, Zenon
  <2>. HIDE DEF g
  <2>4. host.sequence = 0 /\ ~host.update_started /\ next_sequence(0) = 1
    BY <1>2, <1>5, Sequence, Zenon DEF Consistent, InUpdate
  <2>5. Consistent(g) /\ Faces(g)
    BY <1>2, <1>5, <2>2, <2>3, <2>4, Zenon DEF Consistent, Faces, InUpdate, ReadOnly
  <2>6. Clear(g)
    BY <1>5, <2>2, <2>3, <2>4, Greeted, Zenon
  <2>. QED  BY <1>1, <2>1, <2>3, <2>5, <2>6, HostSent, Zenon
<1>6. CASE host.request = "HELLO" /\ host.op = "reset"
  <2>. DEFINE g == asking(h, "RESET")
  <2>1. /\ to_target' \in Transmissions(to_target, request_frame(g))
        /\ host' = [g EXCEPT !.op = "idle", !.result = "ok", !.sequence = next_sequence(@)]
    BY <1>3, <1>4, <1>6, Zenon DEF HostProceed
  <2>2. ~host.update_started /\ host.offset = 0 /\ "RESET" \in Commands
    BY <1>2, <1>6, Zenon DEF Consistent, InUpdate, Commands
  <2>3. /\ g \in HostType /\ g.request = "RESET" /\ g.package = host.package /\ g.offset = host.offset
        /\ g.update_started = host.update_started
    BY <1>3, <2>2, Asking, Zenon
  <2>. HIDE DEF g
  <2>. QED  BY <1>6, <2>1, <2>2, <2>3, HostResetSent, Zenon
<1>7. CASE host.request = "BEGIN_UPDATE"
  <2>. DEFINE g == [h EXCEPT !.update_started = TRUE]
  <2>1. HostSend(write_or_finish(g))
    BY <1>3, <1>4, <1>7, Zenon DEF HostProceed
  <2>2. host.op = "update" /\ host.package \in Packages /\ host.sequence = 1 /\ host.offset = 0
    BY <1>2, <1>7, Zenon DEF Consistent, InUpdate, ReadOnly
  <2>3. /\ g \in HostType /\ g.op = "update" /\ g.package = host.package /\ g.update_started
        /\ g.offset = 0 /\ g.sequence = next_sequence(1)
    BY <1>3, <2>2, Zenon DEF HostType
  <2>. HIDE DEF g
  <2>4. to_target = <<>> /\ to_host' = <<>>
    BY <1>7, AnsweredAlone, Zenon
  <2>5. \/ Down
        \/ /\ target.state = "UPDATING" /\ target.header = host.package
           /\ target.update_payload_offset = 0 /\ target.expected_sequence = next_sequence(1)
    BY <1>1, <1>7, Zenon DEF IInv, AnswerInv, BeginAnswered
  <2>. QED  BY <1>1, <2>1, <2>2, <2>3, <2>4, <2>5, HostGoesOn, Zenon
<1>8. CASE host.request = "WRITE_BLOCK"
  <2>. DEFINE g == [h EXCEPT !.offset = h.offset + 1]
  <2>1. HostSend(write_or_finish(g))
    BY <1>3, <1>4, <1>8 DEF HostProceed
  <2>2. host.op = "update" /\ host.package \in Packages /\ host.update_started
        /\ host.offset < PayloadBlocks
    BY <1>2, <1>8, Zenon DEF Consistent, InUpdate, ReadOnly
  <2>3. host.offset + 1 \in 0..PayloadBlocks
    BY <1>2, <2>2, LinkAssumption DEF HostType
  <2>4. /\ g \in HostType /\ g.op = "update" /\ g.package = host.package /\ g.update_started
        /\ g.offset = host.offset + 1 /\ g.sequence = next_sequence(host.sequence)
    BY <1>3, <2>2, <2>3, Zenon DEF HostType
  <2>. HIDE DEF g
  <2>5. to_target = <<>> /\ to_host' = <<>>
    BY <1>8, AnsweredAlone, Zenon
  <2>6. Down \/ Ahead
    BY <1>1, <1>8, Zenon DEF IInv, AnswerInv, UpdateAnswered
  <2>7. Down \/ (target.state = "UPDATING" /\ target.header = host.package)
    BY <2>2, Zenon DEF IInv, SyncInv
  <2>. QED  BY <1>1, <2>1, <2>2, <2>4, <2>5, <2>6, <2>7, HostGoesOn, Zenon DEF Ahead
<1>9. CASE host.request = "ABORT_UPDATE"
  <2>1. HostEnd(h, "failed")
    BY <1>3, <1>4, <1>9, Zenon DEF HostProceed
  <2>. QED  BY <1>1, <1>4, <1>9, <2>1, HostEnded, Zenon
<1>10. CASE host.request = "FINISH_UPDATE"
  <2>1. HostEnd(h, "ok")
    BY <1>3, <1>4, <1>10, Zenon DEF HostProceed
  <2>2. to_target = <<>>
    BY <1>10, AnsweredAlone, Zenon
  <2>3. Down /\ installed = host.package
    BY <1>1, <1>10, Zenon DEF IInv, AnswerInv, UpdateAnswered
  <2>. QED  BY <1>1, <1>4, <2>1, <2>2, <2>3, HostEnded, Zenon
<1>11. CASE host.request = "GET_STATUS" \/ (host.request = "HELLO" /\ host.op = "info")
  <2>1. HostEnd(h, "ok")
    BY <1>3, <1>4, <1>11, Zenon DEF HostProceed
  <2>2. host.package = NoPackage
    BY <1>2, <1>11, Zenon DEF Consistent, HostType
  <2>. QED  BY <1>1, <1>4, <1>11, <2>1, <2>2, HostEnded, Zenon
<1>12. /\ host.op \in {"info", "status", "reset", "update"}
       /\ host.request \in {"HELLO", "GET_STATUS", "BEGIN_UPDATE", "WRITE_BLOCK", "FINISH_UPDATE",
                            "ABORT_UPDATE"}
  BY <1>2 DEF Consistent, InUpdate, HostType, Ops
<1>. QED  BY <1>5, <1>6, <1>7, <1>8, <1>9, <1>10, <1>11, <1>12

\* An answer: a wrong one, a negative one, or the one that lets the command go on.
LEMMA HostReceiveInv == IInv /\ HostReceive => IInv'
<1>. SUFFICES ASSUME IInv, HostReceive PROVE IInv'
  OBVIOUS
<1>1. host.op # "idle" /\ to_host # <<>> /\ to_host' = Tail(to_host)
      /\ UNCHANGED <<target, installed, invocations>>
  BY DEF HostReceive
<1>2. Read /\ Head(to_host) = to_host[1]
  BY <1>1, ReadAnswer, Zenon DEF IInv
<1>3. \/ HostFail(host)
      \/ HostFail(advanced(host))
      \/ /\ response_matches(host, to_host[1]) /\ to_host[1].status = "OK"
         /\ HostProceed(advanced(host))
  BY <1>2 DEF HostReceive
<1>4. host.request \in {"WRITE_BLOCK", "FINISH_UPDATE"} => to_target = <<>> /\ Len(to_host') < 2
  <2>1. ASSUME host.request \in {"WRITE_BLOCK", "FINISH_UPDATE"}
        PROVE  to_target = <<>> /\ to_host' = <<>>
    BY <1>1, <2>1, AnsweredAlone
  <2>2. to_host' = <<>> => Len(to_host') < 2
    OBVIOUS
  <2>. QED  BY <2>1, <2>2, Zenon
<1>5. CASE HostFail(host)
  BY <1>1, <1>2, <1>4, <1>5, HostFailed, Zenon
<1>6. CASE HostFail(advanced(host))
  BY <1>1, <1>2, <1>4, <1>6, HostFailed, Zenon
<1>7. CASE /\ response_matches(host, to_host[1]) /\ to_host[1].status = "OK"
           /\ HostProceed(advanced(host))
  BY <1>1, <1>7, HostProceedInv DEF response_matches
<1>. QED  BY <1>3, <1>5, <1>6, <1>7, Zenon
-----------------------------------------------------------------------------
(* The theorems *)

\* Every step of the target, of the host and of the operator keeps the invariant.
LEMMA NextInv == IInv /\ [Next]_vars => IInv'
<1>. SUFFICES ASSUME IInv, [Next]_vars PROVE IInv'
  OBVIOUS
<1>1. CASE TargetReads
  BY <1>1, SessionReceiveInv, MergedInv, TimeoutInFrameInv, WindowHelloInv, IgnoreInv, Zenon DEF TargetReads
<1>2. CASE SessionTimeout \/ SessionReaderError \/ WindowClose \/ TargetReset
  BY <1>2, SessionTimeoutInv, ReaderErrorInv, WindowCloseInv, TargetResetInv
<1>3. CASE Host
  BY <1>3, HostReceiveInv, HostReceiveMergedInv, HostTimeoutInv, HostInterruptInv, Zenon DEF Host, HostReads
<1>4. CASE Start
  <2>1. ASSUME NEW op \in Ops \ {"update"}, Invoke(op, NoPackage) PROVE IInv'
    BY <2>1, InvokeInv, LinkAssumption, Zenon
  <2>2. ASSUME NEW package \in Packages, Invoke("update", package) PROVE IInv'
    <3>1. "update" \in Ops
      BY Zenon DEF Ops
    <3>. QED  BY <2>2, <3>1, InvokeInv
  <2>. QED  BY <1>4, <2>1, <2>2 DEF Start
<1>5. CASE UNCHANGED vars
  <2>1. UNCHANGED <<target, host, to_target, to_host, installed, invocations>>
    BY <1>5, Zenon DEF vars
  <2>2. /\ TypeInv' /\ LineInv' /\ HostInv'
    BY <2>1, SMTT(30) DEF IInv, TypeInv, LineInv, HostInv, Consistent
  <2>3. SyncInv' /\ AnswerInv'
    BY <2>1, Zenon DEF IInv, SyncInv, AnswerInv, Down, Behind, Ahead, BeginAnswered, UpdateAnswered
  <2>4. StreamIsPackage' /\ SuccessIsInstalled'
    BY <2>1, Zenon DEF IInv, StreamIsPackage, SuccessIsInstalled, signed_payload
  <2>. QED  BY <2>2, <2>3, <2>4, Zenon DEF IInv
<1>. QED  BY <1>1, <1>2, <1>3, <1>4, <1>5, Zenon DEF Next, Target

\* The invariant holds in every reachable state of the protocol.
THEOREM LinkInvariant == Spec => []IInv
BY InitInv, NextInv, PTL DEF Spec

\* handle_frame: what a session has accepted is a prefix of the package whose
\* header began it, whatever was lost, garbled, merged, repeated or left over.
THEOREM LinkStreamIsPackage == Spec => []StreamIsPackage
<1>1. IInv => StreamIsPackage
  BY Zenon DEF IInv
<1>. QED  BY <1>1, LinkInvariant, PTL

\* stm32ctl: an update reported as complete is the one the target installed.
THEOREM LinkSuccessIsInstalled == Spec => []SuccessIsInstalled
<1>1. IInv => SuccessIsInstalled
  BY Zenon DEF IInv
<1>. QED  BY <1>1, LinkInvariant, PTL

\* While both sides are in an update it is the same one, the session at most one
\* block ahead of what the host counts as sent, and their sequence numbers agree.
THEOREM LinkHostAndSessionAgree == Spec => []HostAndSessionAgree
<1>1. IInv => HostAndSessionAgree
  BY DEF IInv, SyncInv, HostAndSessionAgree, Down, Behind, Ahead
<1>. QED  BY <1>1, LinkInvariant, PTL
=============================================================================
