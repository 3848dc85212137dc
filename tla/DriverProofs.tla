---------------------------- MODULE DriverProofs ----------------------------
(***************************************************************************)
(* What the flash layer promises its callers, for every memory map, every  *)
(* list of requests and every behaviour of the controller: only cells the  *)
(* handle was opened for change, and an OK is true of the cells.  And what *)
(* the UART driver promises its callers, for every line and every length   *)
(* of its loops: no byte is lost or damaged without a call saying so.      *)
(***************************************************************************)
EXTENDS FlashDriver, UartDriver, SequenceTheorems, TLAPS
-----------------------------------------------------------------------------
(* The UART driver *)

ErrorFlags == {"ORE", "FE", "NE"}
Errors == {"OVERRUN", "FRAMING", "NOISE"}
Receiving == {"getc", "getc_timeout", "read_timeout"}
UartBytes == [byte : Nat, damaged : BOOLEAN]

\* The records of the calls, by what the driver is doing.
Getting == [at : {"getc", "take"}, layer : Layers, op : {"getc"}]
Reading ==
  [at : {"poll", "getc", "take"}, layer : Layers, op : {"getc_timeout", "read_timeout"},
   timeout : Int, polls : Int, left : Int]
Failing ==
  [at : {"clear_sr", "clear_dr"}, layer : Layers, op : Receiving, status : Errors]
Flushing ==
  [at : {"drain", "clear_sr", "clear_dr"}, layer : {"uart"}, op : {"flush"},
   drains : Int, first_error : Errors \cup {"OK"}]
Sending ==
  [at : {"putc", "write_dr"}, layer : {"uart"}, op : {"putc"}, polls : Int]
  \cup [at : {"wait_tc"}, layer : {"uart"}, op : {"wait"}, polls : Int]

UartCalls == {UartIdle} \cup Getting \cup Reading \cup Failing \cup Flushing \cup Sending

UartTypeInv ==
  /\ sent \in Nat
  /\ dr \in UartBytes
  /\ sr \in [rxne : BOOLEAN, err : SUBSET ErrorFlags]
  /\ sampled \in SUBSET ErrorFlags
  /\ tx \in [dr : BOOLEAN, shift : BOOLEAN, tc : BOOLEAN]
  /\ uart_call \in UartCalls
  /\ got \in Seq(UartBytes)

\* Without an overrun the data register holds the last byte of the line, and a
\* damaged byte is flagged as long as it is there.
RegisterInv ==
  /\ sr.rxne /\ "ORE" \notin sr.err => dr.byte = sent
  /\ sr.rxne /\ dr.damaged => "FE" \in sr.err \/ "NE" \in sr.err

InFlush == uart_call.at # "idle" /\ uart_call.op = "flush"
Last == got[Len(got)]

\* Unless an overrun is flagged or a flush is throwing bytes away, the line has gone on
\* after the last byte a caller was given by the byte in the register, if any.
ChainInv ==
  got # <<>> /\ ~InFlush /\ "ORE" \notin sr.err =>
    IF sr.rxne THEN sent = Last.byte + 1 ELSE sent = Last.byte

\* Between the read of SR that found no error and the read of DR the byte stays the
\* next one, whatever arrives: a byte lost meanwhile is only flagged.
TakeInv ==
  uart_call.at = "take" =>
    /\ sr.rxne /\ sampled = {} /\ ~dr.damaged
    /\ got # <<>> => dr.byte = Last.byte + 1

\* TC means an empty transmitter, and so does an OK of uart_wait_tx_complete until
\* the next byte is written.
SentInv ==
  /\ tx.tc => ~tx.dr /\ ~tx.shift
  /\ reply.op = "wait" /\ reply.status = "OK" => ~tx.dr /\ ~tx.shift

UartInv == UartTypeInv /\ RegisterInv /\ ChainInv /\ TakeInv /\ SentInv /\ AnswersAreTrue

\* The step a call is at tells which record it is.
LEMMA CallFields ==
  ASSUME uart_call \in UartCalls
  PROVE  /\ uart_call.at = "idle" => uart_call = UartIdle
         /\ uart_call.at = "poll" => uart_call \in Reading
         /\ uart_call.at \in {"getc", "take"} => uart_call \in Getting \cup Reading
         /\ uart_call.at = "drain" => uart_call \in Flushing
         /\ uart_call.at \in {"clear_sr", "clear_dr"} => uart_call \in Failing \cup Flushing
         /\ uart_call.at \in {"putc", "write_dr", "wait_tc"} => uart_call \in Sending
BY DEF UartCalls, UartIdle, Getting, Reading, Failing, Flushing, Sending

\* uart_error_from_sr answers OK only when no error flag is set.
LEMMA ErrorOfFlags ==
  ASSUME NEW flags \in SUBSET ErrorFlags
  PROVE  /\ uart_error_from_sr(flags) \in Errors \cup {"OK"}
         /\ uart_error_from_sr(flags) = "OK" => flags = {}
<1>1. CASE "ORE" \in flags
  BY <1>1 DEF uart_error_from_sr, Errors
<1>2. CASE "ORE" \notin flags /\ "FE" \in flags
  BY <1>2 DEF uart_error_from_sr, Errors
<1>3. CASE "ORE" \notin flags /\ "FE" \notin flags
  <2>1. flags = {} \/ flags = {"NE"}
    BY <1>3, Zenon DEF ErrorFlags
  <2>2. CASE flags = {"NE"}
    BY <2>2, <1>3 DEF uart_error_from_sr, Errors
  <2>3. CASE flags = {}
    BY <2>3, <1>3, Zenon DEF uart_error_from_sr, Errors
  <2> QED BY <2>1, <2>2, <2>3
<1> QED BY <1>1, <1>2, <1>3

\* After reset the line is quiet and nothing was given to a caller.
LEMMA UartStarts == UartInit => UartInv
BY DEF UartInit, UartInv, UartTypeInv, RegisterInv, ChainInv, TakeInv, SentInv, AnswersAreTrue,
       UartCalls, UartIdle, UartBytes, InFlush, Last, ErrorFlags

\* A blocking read counts down and stays a blocking read.
LEMMA ReadingGoesOn ==
  ASSUME NEW c \in Reading
  PROVE  LET waits == [c EXCEPT !.at = "poll", !.polls = @ - 1]
             took == [c EXCEPT !.at = "poll", !.left = @ - 1, !.polls = c.timeout]
         IN /\ waits \in Reading /\ waits.at = "poll" /\ waits.op = c.op
            /\ took \in Reading /\ took.at = "poll" /\ took.op = c.op
<1> DEFINE polls == [c EXCEPT !.at = "poll"]
           less == [polls EXCEPT !.left = @ - 1]
<1>1. polls \in Reading /\ polls.at = "poll" /\ polls.op = c.op /\ polls.timeout = c.timeout
  BY DEF Reading
<1> HIDE DEF polls
<1>2. less \in Reading /\ less.at = "poll" /\ less.op = c.op /\ c.timeout \in Int
  BY <1>1 DEF Reading
<1> HIDE DEF less
<1>3. LET waits == [polls EXCEPT !.polls = @ - 1]
      IN waits \in Reading /\ waits.at = "poll" /\ waits.op = c.op
  BY <1>1 DEF Reading
<1>4. LET took == [less EXCEPT !.polls = c.timeout]
      IN took \in Reading /\ took.at = "poll" /\ took.op = c.op
  BY <1>2 DEF Reading
<1> QED BY <1>3, <1>4 DEF polls, less

\* A flush counts its passes and keeps its first error.
LEMMA DrainGoesOn ==
  ASSUME NEW c \in Flushing, NEW error \in Errors \cup {"OK"}
  PROVE  LET clears == [c EXCEPT !.at = "clear_sr", !.drains = @ + 1,
                                 !.first_error = IF @ = "OK" THEN error ELSE @]
         IN clears \in Flushing /\ clears.at = "clear_sr" /\ clears.op = "flush"
<1> DEFINE at == [c EXCEPT !.at = "clear_sr"]
           more == [at EXCEPT !.drains = @ + 1]
<1>1. at \in Flushing /\ at.at = "clear_sr"
  BY DEF Flushing
<1> HIDE DEF at
<1>2. more \in Flushing /\ more.at = "clear_sr"
  BY <1>1 DEF Flushing
<1> HIDE DEF more
<1>3. LET clears == [more EXCEPT !.first_error = IF @ = "OK" THEN error ELSE @]
      IN clears \in Flushing /\ clears.at = "clear_sr" /\ clears.op = "flush"
  BY <1>2 DEF Flushing
<1> QED BY <1>3 DEF at, more

\* A call that tells of a loss, and every flush, starts the bytes of the callers anew.
LEMMA UartReturned ==
  ASSUME NEW result, UartReturn(result)
  PROVE  /\ uart_call' = UartIdle
         /\ reply'.op = uart_call.op
         /\ got' = got \/ got' = <<>>
         /\ uart_call.op = "flush" => got' = <<>>
         /\ result \in Errors => got' = <<>>
BY DEF UartReturn, uart_byte_reader_getc, Losses, Errors

\* Every step of the line, of the transmitter and of the driver keeps the invariant.
LEMMA UartPreserved ==
  UartInv /\ [UartNext]_uart_vars => UartInv'
<1> SUFFICES ASSUME UartInv, [UartNext]_uart_vars PROVE UartInv'
  OBVIOUS
<1> USE DEF UartInv
<1>0. /\ sent \in Nat /\ dr \in UartBytes /\ sr \in [rxne : BOOLEAN, err : SUBSET ErrorFlags]
      /\ sampled \in SUBSET ErrorFlags /\ tx \in [dr : BOOLEAN, shift : BOOLEAN, tc : BOOLEAN]
      /\ uart_call \in UartCalls /\ got \in Seq(UartBytes)
  BY DEF UartTypeInv
<1>e. uart_error_from_sr(sr.err) \in Errors \cup {"OK"} /\ (uart_error_from_sr(sr.err) = "OK" => sr.err = {})
  BY <1>0, ErrorOfFlags
<1>1. CASE Receive
  <2>0. UNCHANGED <<sampled, tx, uart_call, reply, got>> /\ sent' = sent + 1
    BY <1>1 DEF Receive
  <2>1. CASE sr.rxne /\ sr' = [sr EXCEPT !.err = @ \cup {"ORE"}] /\ dr' = dr
    <3>1. UartTypeInv'
      BY <2>0, <2>1, <1>0 DEF UartTypeInv, ErrorFlags
    <3>2. RegisterInv' /\ ChainInv'
      BY <2>0, <2>1, <1>0 DEF RegisterInv, ChainInv
    <3>3. TakeInv' /\ SentInv' /\ AnswersAreTrue'
      BY <2>0, <2>1, <1>0 DEF TakeInv, SentInv, AnswersAreTrue, Last
    <3> QED BY <3>1, <3>2, <3>3
  <2>2. ASSUME NEW damage \in {{}, {"FE"}, {"NE"}}, ~sr.rxne,
               dr' = [byte |-> sent + 1, damaged |-> damage # {}],
               sr' = [rxne |-> TRUE, err |-> sr.err \cup damage]
        PROVE  UartInv'
    <3>1. UartTypeInv'
      BY <2>0, <2>2, <1>0 DEF UartTypeInv, ErrorFlags, UartBytes
    <3>2. RegisterInv'
      BY <2>0, <2>2, <1>0 DEF RegisterInv
    <3>3. ChainInv'
      BY <2>0, <2>2, <1>0 DEF ChainInv, Last, InFlush
    <3>4. TakeInv' /\ SentInv' /\ AnswersAreTrue'
      BY <2>0, <2>2, <1>0 DEF TakeInv, SentInv, AnswersAreTrue, Last
    <3> QED BY <3>1, <3>2, <3>3, <3>4
  <2> QED BY <1>1, <2>1, <2>2 DEF Receive
<1>2. CASE Transmit
  <2>0. UNCHANGED <<sent, dr, sr, sampled, uart_call, reply, got>>
    BY <1>2 DEF Transmit
  <2>1. RegisterInv' /\ ChainInv' /\ TakeInv'
    BY <2>0 DEF RegisterInv, ChainInv, TakeInv, Last, InFlush
  <2>2. tx' \in [dr : BOOLEAN, shift : BOOLEAN, tc : BOOLEAN] /\ SentInv' /\ AnswersAreTrue'
    BY <2>0, <1>2, <1>0, Zenon DEF Transmit, SentInv, AnswersAreTrue
  <2> QED BY <2>0, <2>1, <2>2 DEF UartTypeInv
<1>3. ASSUME NEW c \in UartCalls, UartBegin(c), c.at # "take" PROVE UartInv'
  <2>0. uart_call' = c /\ uart_call = UartIdle /\ UNCHANGED <<sent, dr, sr, sampled, tx, reply, got>>
    BY <1>3, <1>0, CallFields DEF UartBegin
  <2>1. UartTypeInv' /\ RegisterInv' /\ TakeInv' /\ SentInv' /\ AnswersAreTrue'
    BY <2>0, <1>3 DEF UartTypeInv, RegisterInv, TakeInv, SentInv, AnswersAreTrue
  <2>2. ChainInv'
    BY <2>0 DEF ChainInv, Last, InFlush, UartIdle
  <2> QED BY <2>1, <2>2
<1>4. CASE UartCall
  <2>1. CASE uart_getc_nonblocking
    BY <2>1, <1>3 DEF uart_getc_nonblocking, UartCalls, Getting
  <2>2. CASE uart_getc_timeout
    BY <2>2, <1>3, UartAssumption DEF uart_getc_timeout, Read, UartCalls, Reading
  <2>3. CASE uart_read_timeout
    BY <2>3, <1>3, UartAssumption DEF uart_read_timeout, Read, UartCalls, Reading
  <2>4. CASE uart_flush_rx
    BY <2>4, <1>3 DEF uart_flush_rx, UartCalls, Flushing
  <2>5. CASE uart_putc
    BY <2>5, <1>3, UartAssumption DEF uart_putc, UartCalls, Sending
  <2>6. CASE uart_wait_tx_complete
    BY <2>6, <1>3, UartAssumption DEF uart_wait_tx_complete, UartCalls, Sending
  <2> QED BY <1>4, <2>1, <2>2, <2>3, <2>4, <2>5, <2>6 DEF UartCall
<1>5. ASSUME NEW result, UartReturn(result), uart_call.at # "idle",
             UNCHANGED <<sent, dr, tx>>, sampled' \in SUBSET ErrorFlags,
             reply'.op = "wait" /\ reply'.status = "OK" => ~tx.dr /\ ~tx.shift,
             sr' = sr \/ (sr' = [rxne |-> FALSE, err |-> sr.err \ sampled] /\ result \in Errors)
      PROVE  UartInv'
  <2>0. /\ uart_call' = UartIdle /\ (got' = got \/ got' = <<>>)
        /\ uart_call.op = "flush" => got' = <<>>
        /\ result \in Errors => got' = <<>>
    BY <1>5, UartReturned
  <2>1. UartTypeInv'
    <3>1. uart_call' \in UartCalls
      BY <2>0 DEF UartCalls
    <3>2. sr' \in [rxne : BOOLEAN, err : SUBSET ErrorFlags]
      <4>1. sr.err \ sampled \in SUBSET ErrorFlags
        BY <1>0
      <4>2. [rxne |-> FALSE, err |-> sr.err \ sampled] \in [rxne : BOOLEAN, err : SUBSET ErrorFlags]
        BY <4>1
      <4> QED BY <4>2, <1>5, <1>0, Zenon
    <3>3. got' \in Seq(UartBytes)
      BY <2>0, <1>0, EmptySeq, Zenon
    <3> QED BY <3>1, <3>2, <3>3, <1>5 DEF UartTypeInv
  <2>2. RegisterInv' /\ TakeInv'
    BY <2>0, <1>5 DEF RegisterInv, TakeInv, UartIdle
  <2>3. ChainInv'
    BY <2>0, <1>5 DEF ChainInv, Last, InFlush
  <2>4. SentInv' /\ AnswersAreTrue'
    BY <2>0, <1>5 DEF SentInv, AnswersAreTrue
  <2> QED BY <2>1, <2>2, <2>3, <2>4
<1>6. ASSUME uart_call' \in UartCalls, uart_call.at # "idle",
             uart_call'.at # "take", uart_call'.at # "idle" => uart_call'.op = uart_call.op,
             uart_call'.at = "idle" => uart_call.op # "flush",
             UNCHANGED <<sent, dr, sr, tx, got>>, sampled' \in SUBSET ErrorFlags,
             reply' = reply \/ reply'.op # "wait"
      PROVE  UartInv'
  <2>1. UartTypeInv' /\ RegisterInv' /\ TakeInv' /\ SentInv' /\ AnswersAreTrue'
    BY <1>6 DEF UartTypeInv, RegisterInv, TakeInv, SentInv, AnswersAreTrue
  <2>2. ChainInv'
    BY <1>6 DEF ChainInv, Last, InFlush
  <2> QED BY <2>1, <2>2
<1>7. CASE Poll
  <2>0. uart_call.at = "poll" /\ uart_call \in Reading /\ UNCHANGED <<sent, dr, sr, sampled, tx>>
    BY <1>7, <1>0, CallFields DEF Poll
  <2>1. ASSUME NEW result, UartReturn(result) PROVE UartInv'
    BY <2>0, <2>1, <1>0, <1>5, UartReturned DEF Reading
  <2>2. CASE uart_call' = [uart_call EXCEPT !.at = "getc"] /\ UNCHANGED <<reply, got>>
    <3>1. uart_call' \in Reading /\ uart_call'.at = "getc" /\ uart_call'.op = uart_call.op
      BY <2>0, <2>2 DEF Reading
    <3> QED BY <2>0, <2>2, <3>1, <1>0, <1>6 DEF UartCalls
  <2> QED BY <1>7, <2>1, <2>2 DEF Poll
<1>8. CASE Sample
  <2>0. /\ uart_call.at = "getc" /\ uart_call \in Getting \cup Reading
        /\ UNCHANGED <<sent, dr, sr, tx>> /\ sampled' = sr.err /\ sr.err \in SUBSET ErrorFlags
    BY <1>8, <1>0, CallFields DEF Sample
  <2>a. uart_call.op \in Receiving /\ uart_call.layer \in Layers
    BY <2>0 DEF Getting, Reading, Receiving
  <2> DEFINE error == uart_error_from_sr(sr.err)
  <2>1. CASE /\ error # "OK" /\ UNCHANGED <<reply, got>>
             /\ uart_call' = [at |-> "clear_sr", layer |-> uart_call.layer, op |-> uart_call.op,
                              status |-> error]
    <3>1. uart_call' \in Failing
      BY <2>1, <2>a, <1>e DEF Failing
    <3> QED BY <3>1, <2>0, <2>1, <1>6 DEF UartCalls
  <2>2. CASE GetcNoData
    <3>1. CASE uart_call.op = "getc" /\ uart_call' = UartIdle
               /\ reply' = [op |-> "getc", status |-> "NO_DATA"] /\ got' = got
      BY <3>1, <2>0, <1>6, Zenon DEF UartCalls, UartIdle
    <3>2. CASE uart_call.op # "getc" /\ UNCHANGED <<reply, got>>
               /\ uart_call' = [uart_call EXCEPT !.at = "poll", !.polls = @ - 1]
      <4>1. uart_call' \in Reading /\ uart_call'.at = "poll" /\ uart_call'.op = uart_call.op
        <5>1. uart_call \in Reading
          BY <2>0, <3>2 DEF Getting
        <5> QED BY <5>1, <3>2, ReadingGoesOn, Zenon
      <4> QED BY <4>1, <3>2, <2>0, <1>6, Zenon DEF UartCalls
    <3> QED BY <2>2, <3>1, <3>2 DEF GetcNoData
  <2>3. CASE /\ error = "OK" /\ sr.rxne /\ uart_call' = [uart_call EXCEPT !.at = "take"]
             /\ UNCHANGED <<reply, got>>
    <3>1. sr.err = {} /\ sr.rxne
      BY <2>3, <1>e
    <3>2. uart_call' \in Getting \cup Reading /\ uart_call'.at = "take" /\ uart_call'.op = uart_call.op
      BY <2>0, <2>3 DEF Getting, Reading
    <3>3. ~dr.damaged /\ dr.byte = sent
      BY <3>1 DEF RegisterInv
    <3>4. ChainInv' /\ TakeInv'
      BY <3>1, <3>2, <3>3, <2>0, <2>3, <2>a DEF ChainInv, TakeInv, InFlush, Last, Receiving
    <3>5. UartTypeInv' /\ RegisterInv' /\ SentInv' /\ AnswersAreTrue'
      BY <3>2, <2>0, <2>3, <1>0 DEF UartTypeInv, UartCalls, RegisterInv, SentInv, AnswersAreTrue, UartIdle
    <3> QED BY <3>4, <3>5
  <2> QED BY <1>8, <2>1, <2>2, <2>3 DEF Sample
<1>9. CASE Take
  <2>0. /\ uart_call.at = "take" /\ uart_call \in Getting \cup Reading
        /\ UNCHANGED <<sent, dr, sampled, tx>> /\ GetcByte /\ got' = Append(got, dr)
        /\ sr.rxne /\ sampled = {} /\ ~dr.damaged /\ (got # <<>> => dr.byte = Last.byte + 1)
        /\ sr' = [rxne |-> FALSE, err |-> sr.err]
    BY <1>9, <1>0, CallFields, Zenon DEF Take, TakeInv, uart_read_dr, GetcByte
  <2>1. /\ got' \in Seq(UartBytes) /\ got' # <<>> /\ Len(got') = Len(got) + 1 /\ got'[Len(got')] = dr
        /\ Len(got) \in Nat /\ \A i \in 1..Len(got) : got'[i] = got[i]
        /\ got = <<>> <=> Len(got) = 0
    BY <2>0, <1>0
  <2>2. /\ uart_call' \in UartCalls /\ uart_call'.at # "take"
        /\ reply' = reply \/ reply'.op # "wait"
    <3>1. CASE uart_call.op = "getc"
      BY <3>1, <2>0 DEF GetcByte, UartCalls, UartIdle
    <3>2. CASE uart_call.op # "getc"
      <4>1. uart_call \in Reading
        BY <2>0, <3>2 DEF Getting
      <4>2. /\ uart_call' = [uart_call EXCEPT !.at = "poll", !.left = @ - 1, !.polls = uart_call.timeout]
            /\ reply' = reply
        BY <3>2, <2>0, Zenon DEF GetcByte
      <4>3. uart_call' \in Reading /\ uart_call'.at = "poll"
        BY <4>1, <4>2, ReadingGoesOn, Zenon
      <4> QED BY <4>2, <4>3 DEF UartCalls
    <3> QED BY <3>1, <3>2
  <2>3. UartTypeInv' /\ RegisterInv' /\ TakeInv' /\ SentInv'
    BY <2>0, <2>1, <2>2, <1>0, Zenon DEF UartTypeInv, RegisterInv, TakeInv, SentInv
  <2>4. ChainInv'
    BY <2>0, <2>1, <1>0 DEF ChainInv, RegisterInv, Last
  <2>5. \A i \in DOMAIN got' : ~got'[i].damaged
    BY <2>0, <2>1, <1>0 DEF AnswersAreTrue
  <2>6. ASSUME NEW i \in 1..(Len(got') - 1) PROVE got'[i + 1].byte = got'[i].byte + 1
    <3>1. CASE i = Len(got)
      BY <3>1, <2>0, <2>1 DEF Last
    <3>2. CASE i < Len(got)
      <4>1. i \in 1..(Len(got) - 1) /\ i + 1 \in 1..Len(got) /\ i \in 1..Len(got)
        BY <3>2, <2>6, <2>1
      <4> QED BY <4>1, <2>1 DEF AnswersAreTrue
    <3> QED BY <3>1, <3>2, <2>1
  <2>7. AnswersAreTrue'
    BY <2>3, <2>5, <2>6 DEF AnswersAreTrue, SentInv
  <2> QED BY <2>3, <2>4, <2>7
<1>10. CASE Drain
  <2>0. /\ uart_call.at = "drain" /\ uart_call \in Flushing
        /\ uart_call.op = "flush" /\ uart_call.first_error \in Errors \cup {"OK"}
        /\ UNCHANGED <<sent, dr, sr, tx>> /\ sampled' \in SUBSET ErrorFlags
    BY <1>10, <1>0, CallFields DEF Drain, Flushing
  <2> DEFINE error == uart_error_from_sr(sr.err)
  <2>1. ASSUME NEW result, UartReturn(result) PROVE UartInv'
    BY <2>0, <2>1, <1>5, UartReturned
  <2>2. CASE /\ uart_call' = [uart_call EXCEPT !.at = "clear_sr", !.drains = @ + 1,
                                   !.first_error = IF @ = "OK" THEN error ELSE @]
             /\ UNCHANGED <<reply, got>>
    <3> HIDE DEF error
    <3>1. error \in Errors \cup {"OK"}
      BY <1>e, Zenon DEF error
    <3>2. uart_call' \in Flushing /\ uart_call'.at = "clear_sr" /\ uart_call'.op = "flush"
      BY <2>0, <2>2, <3>1, DrainGoesOn, Zenon
    <3> QED BY <2>0, <2>2, <3>2, <1>6 DEF UartCalls
  <2> QED BY <1>10, <2>1, <2>2 DEF Drain
<1>11. CASE ClearSr
  <2>0. /\ uart_call.at = "clear_sr" /\ uart_call \in Failing \cup Flushing
        /\ uart_call' = [uart_call EXCEPT !.at = "clear_dr"]
        /\ UNCHANGED <<sent, dr, sr, tx, reply, got>> /\ sampled' \in SUBSET ErrorFlags
    BY <1>11, <1>0, CallFields DEF ClearSr
  <2>1. uart_call' \in Failing \cup Flushing /\ uart_call'.at = "clear_dr" /\ uart_call'.op = uart_call.op
    BY <2>0 DEF Failing, Flushing
  <2> QED BY <2>0, <2>1, <1>6 DEF UartCalls
<1>12. CASE ClearDr
  <2>0. /\ uart_call.at = "clear_dr" /\ uart_call \in Failing \cup Flushing
        /\ sr' = [rxne |-> FALSE, err |-> sr.err \ sampled]
        /\ UNCHANGED <<sent, dr, sampled, tx>>
    BY <1>12, <1>0, CallFields DEF ClearDr, uart_read_dr
  <2>1. CASE uart_call.op = "flush"
    <3>1. uart_call \in Flushing
      BY <2>0, <2>1 DEF Failing, Receiving
    <3>2. uart_call' = [uart_call EXCEPT !.at = "drain"] /\ UNCHANGED <<reply, got>>
      BY <1>12, <2>1 DEF ClearDr
    <3>3. uart_call' \in Flushing /\ uart_call'.at = "drain" /\ uart_call'.op = "flush"
      BY <3>1, <3>2 DEF Flushing
    <3>4. UartTypeInv' /\ RegisterInv'
      BY <2>0, <3>2, <3>3, <1>0 DEF UartTypeInv, UartCalls, RegisterInv
    <3>5. ChainInv' /\ TakeInv' /\ SentInv' /\ AnswersAreTrue'
      BY <2>0, <3>2, <3>3 DEF ChainInv, TakeInv, SentInv, AnswersAreTrue, InFlush, UartIdle
    <3> QED BY <3>4, <3>5
  <2>2. CASE uart_call.op # "flush"
    <3>1. uart_call.op \in Receiving /\ uart_call.status \in Errors
      BY <2>0, <2>2 DEF Failing, Flushing
    <3>2. UartReturn(uart_call.status)
      BY <1>12, <2>2 DEF ClearDr
    <3>3. reply'.op # "wait"
      BY <3>1, <3>2, UartReturned DEF Receiving
    <3> QED BY <3>1, <3>2, <3>3, <2>0, <1>0, <1>5
  <2> QED BY <2>1, <2>2
<1>13. CASE Putc
  <2>0. /\ uart_call.at = "putc" /\ uart_call \in Sending /\ uart_call.op = "putc"
        /\ UNCHANGED <<sent, dr, sr, tx>> /\ sampled' \in SUBSET ErrorFlags
    BY <1>13, <1>0, CallFields DEF Putc, Sending
  <2>1. CASE UartReturn("OK")
    BY <2>0, <2>1, <1>5, UartReturned
  <2>2. CASE uart_call' = [uart_call EXCEPT !.at = "write_dr"] /\ UNCHANGED <<reply, got>>
    <3>1. uart_call' \in Sending /\ uart_call'.at = "write_dr" /\ uart_call'.op = uart_call.op
      BY <2>0, <2>2 DEF Sending
    <3> QED BY <2>0, <2>2, <3>1, <1>6 DEF UartCalls
  <2>3. CASE uart_call' = [uart_call EXCEPT !.polls = @ - 1] /\ UNCHANGED <<reply, got>>
    <3>1. uart_call' \in Sending /\ uart_call'.at = "putc" /\ uart_call'.op = uart_call.op
      BY <2>0, <2>3 DEF Sending
    <3> QED BY <2>0, <2>3, <3>1, <1>6 DEF UartCalls
  <2> QED BY <1>13, <2>1, <2>2, <2>3 DEF Putc
<1>14. CASE WriteDr
  <2>0. /\ uart_call.at = "write_dr" /\ uart_call \in Sending /\ uart_call.op = "putc"
        /\ tx' = [tx EXCEPT !.dr = TRUE, !.tc = FALSE] /\ UartReturn("OK")
        /\ UNCHANGED <<sent, dr, sr, sampled>>
    BY <1>14, <1>0, CallFields DEF WriteDr, Sending
  <2>1. uart_call' = UartIdle /\ reply'.op = "putc" /\ (got' = got \/ got' = <<>>)
    BY <2>0, UartReturned
  <2>2. UartTypeInv'
    <3>1. uart_call' \in UartCalls
      BY <2>1 DEF UartCalls
    <3>2. got' \in Seq(UartBytes)
      BY <2>1, <1>0, EmptySeq, Zenon
    <3>3. tx' \in [dr : BOOLEAN, shift : BOOLEAN, tc : BOOLEAN]
      BY <2>0, <1>0, Zenon
    <3> QED BY <3>1, <3>2, <3>3, <2>0, <1>0 DEF UartTypeInv
  <2>3. RegisterInv' /\ ChainInv' /\ TakeInv'
    BY <2>0, <2>1 DEF RegisterInv, ChainInv, TakeInv, InFlush, Last, UartIdle
  <2>4. SentInv' /\ AnswersAreTrue'
    BY <2>0, <2>1, <1>0 DEF SentInv, AnswersAreTrue
  <2> QED BY <2>2, <2>3, <2>4
<1>15. CASE WaitTc
  <2>0. /\ uart_call.at = "wait_tc" /\ uart_call \in Sending /\ uart_call.op = "wait"
        /\ uart_call.layer = "uart"
        /\ UNCHANGED <<sent, dr, sr, tx>> /\ sampled' \in SUBSET ErrorFlags
    BY <1>15, <1>0, CallFields DEF WaitTc, Sending
  <2>1. CASE tx.tc /\ UartReturn("OK")
    BY <2>0, <2>1, <1>5 DEF SentInv
  <2>2. CASE UartReturn("TIMEOUT")
    <3>1. reply'.status = "TIMEOUT"
      BY <2>0, <2>2 DEF UartReturn
    <3> QED BY <2>0, <2>2, <3>1, <1>5
  <2>3. CASE uart_call' = [uart_call EXCEPT !.polls = @ - 1] /\ UNCHANGED <<reply, got>>
    <3>1. uart_call' \in Sending /\ uart_call'.at = "wait_tc" /\ uart_call'.op = uart_call.op
      BY <2>0, <2>3 DEF Sending
    <3> QED BY <2>0, <2>3, <3>1, <1>6 DEF UartCalls
  <2> QED BY <1>15, <2>1, <2>2, <2>3 DEF WaitTc
<1>16. CASE UNCHANGED uart_vars
  BY <1>16 DEF uart_vars, UartTypeInv, RegisterInv, ChainInv, TakeInv, SentInv, AnswersAreTrue, InFlush, Last
<1> QED
  BY <1>1, <1>2, <1>4, <1>7, <1>8, <1>9, <1>10, <1>11, <1>12, <1>13, <1>14, <1>15, <1>16
  DEF UartNext, UartStep

-----------------------------------------------------------------------------
(* Theorems about the UART driver *)

\* The inductive invariant of the receiver, the transmitter and the call in progress.
THEOREM UartInvariant == UartSpec => []UartInv
BY UartStarts, UartPreserved, PTL DEF UartSpec

\* Wherever between two register accesses bytes arrive, and however long the loops
\* are, the bytes callers are given are undamaged and consecutive unless a call told
\* of the loss, and an OK of uart_wait_tx_complete means that everything was sent.
THEOREM UartAnswersAreTrue == UartSpec => []AnswersAreTrue
<1>1. UartInv => AnswersAreTrue
  BY DEF UartInv
<1> QED BY <1>1, UartInvariant, PTL
-----------------------------------------------------------------------------
(* The flash driver *)

Steps == {"unlock", "prepare", "mask", "start", "critical", "unmask", "restore", "lock", "verify"}
Calls == [op : {"erase", "program"}, address : Nat, sector : Nat, data : Seq({0, 1}), at : Steps,
          saved_dcen : BOOLEAN, entry : {0, 1}, primask : {0, 1}, i : Nat, ok : BOOLEAN]
Handles == {h \in {init_disabled, init_readonly, init_target, init_metadata, init_restricted_flash}
                    \cup init_lab_canary : boot_flash_init_ok(h.regions)}

TypeInv ==
  /\ handle \in Handles
  /\ cells \in [Addresses -> {0, 1}]
  /\ cache \in [Addresses -> {0, 1, Absent}]
  /\ ctl \in [lock : BOOLEAN, pg : BOOLEAN, ser : BOOLEAN, err : BOOLEAN]
  /\ dcen \in BOOLEAN
  /\ primask \in {0, 1}
  /\ call \in Calls \cup {Idle}

\* The cells the call in progress may change.
Reach(c) == IF c.op = "erase" THEN Within(Sectors[c.sector + 1])
            ELSE c.address..(c.address + Len(c.data) - 1)

\* The front has checked the call, and nothing is reported while it runs.
RangeInv ==
  call # Idle =>
    /\ call.op = "erase" => call.sector < Len(Sectors)
    /\ Reach(call) \subseteq Entitled(handle)
    /\ Reach(call) \subseteq Addresses
    /\ call.i <= Len(call.data)
    /\ last.op = "none"

\* The registers at each step of the backend.
ControlInv ==
  /\ call.at # "critical" => ~ctl.pg /\ ~ctl.ser
  /\ call.at = "critical" => IF call.op = "erase" THEN ctl.ser /\ ~ctl.pg ELSE ctl.pg /\ ~ctl.ser
  /\ call.at \in {"prepare", "mask", "start", "critical", "unmask", "restore", "lock"} => ~ctl.lock
  /\ call.at = "verify" => ctl.lock
  /\ call.at \in {"mask", "start", "critical", "unmask", "restore"} => ~dcen

\* Interrupts are masked from the saving of the mask to its restoring.
MaskInv ==
  /\ call.at \in {"unlock", "prepare", "mask", "restore", "lock", "verify"} => primask = call.entry
  /\ call.at \in {"start", "critical", "unmask"} => primask = 1 /\ call.primask = call.entry

\* A cache that is in use holds what the cells hold.
CacheInv == dcen => \A a \in Addresses : cache[a] \in {Absent, cells[a]}

\* The read-back starts at the first byte, and what it has compared so far is in
\* the cells.
VerifyInv ==
  /\ call.at \in {"unmask", "restore", "lock"} /\ call.op = "program" /\ call.ok => call.i = 0
  /\ call.at = "verify" =>
       /\ call.op = "program"
       /\ \A k \in 1..call.i : cells[call.address + k - 1] = call.data[k]

IInv == TypeInv /\ RangeInv /\ ControlInv /\ MaskInv /\ CacheInv /\ VerifyInv /\ OkMeansWritten
-----------------------------------------------------------------------------
(* Lemmas about the checks *)

\* The parts of FlashAssumption the range lemmas use.
LEMMA MapTypes ==
  /\ FLASH_BASE \in Nat /\ FLASH_END \in Nat
  /\ MetadataA \in Regions /\ MetadataB \in Regions /\ Candidate \in Regions
  /\ \A q \in ProtectedRegions : q \in Regions
BY FlashAssumption

\* A range between the ends of a region consists of addresses of the region.
LEMMA InRegion ==
  ASSUME NEW r \in Regions, NEW address \in Nat, NEW length \in Nat,
         address >= r.base, address + length <= r.end
  PROVE  address..(address + length - 1) \subseteq Within(r)
BY DEF Within, Regions

\* A region between the ends of flash consists of flash addresses.
LEMMA RegionInFlash ==
  ASSUME NEW r \in Regions, r.base >= FLASH_BASE, r.end <= FLASH_END
  PROVE  Within(r) \subseteq Addresses
BY MapTypes DEF Within, Addresses, Regions

\* A range that range_is_write_allowed lets through lies in what the handle was
\* opened for, whichever of the init functions opened it.
LEMMA AllowedIsEntitled ==
  ASSUME NEW h \in Handles, NEW address \in Nat, NEW length \in Nat,
         range_is_write_allowed(h, address, length)
  PROVE  address..(address + length - 1) \subseteq Entitled(h)
<1>1. PICK k \in 1..Len(h.regions) : address >= h.regions[k].base
                                    /\ address + length <= h.regions[k].end
  BY DEF range_is_write_allowed
<1>2. CASE h = init_metadata
  <2>1. h.by = "metadata" /\ h.regions = <<MetadataA, MetadataB>>
    BY <1>2 DEF init_metadata, Opened
  <2>2. h.regions[k] = MetadataA \/ h.regions[k] = MetadataB
    BY <2>1
  <2>3. \A r \in Regions : r = h.regions[k] => address..(address + length - 1) \subseteq Within(r)
    BY <1>1, InRegion, Zenon
  <2>4. Entitled(h) = Within(MetadataA) \cup Within(MetadataB)
    BY <2>1 DEF Entitled
  <2>. QED  BY <2>2, <2>3, <2>4, MapTypes
<1>3. CASE h = init_restricted_flash
  <2>1. h.by = "installer" /\ h.regions = <<MetadataA, MetadataB, Candidate>>
    BY <1>3 DEF init_restricted_flash, Opened
  <2>2. h.regions[k] = MetadataA \/ h.regions[k] = MetadataB \/ h.regions[k] = Candidate
    BY <2>1
  <2>3. \A r \in Regions : r = h.regions[k] => address..(address + length - 1) \subseteq Within(r)
    BY <1>1, InRegion, Zenon
  <2>4. Entitled(h) = Within(MetadataA) \cup Within(MetadataB) \cup Within(Candidate)
    BY <2>1 DEF Entitled
  <2>. QED  BY <2>2, <2>3, <2>4, MapTypes
<1>4. CASE h \in init_lab_canary
  <2>1. PICK r \in LabRequests : h = Opened("lab", "writable", r) /\ lab_regions_are_valid(r)
    BY <1>4 DEF init_lab_canary
  <2>2. h.by = "lab" /\ h.regions = r /\ r \in Seq(Regions)
    BY <2>1, FlashAssumption DEF Opened
  <2>3. ~target_region_is_protected(r[k]) /\ r[k] \in Regions
    <3>1. k \in 1..Len(r)
      BY <2>2
    <3>2. r[k] \in Regions
      BY <2>2, <3>1, ElementOfSeq
    <3>. QED  BY <2>1, <3>1, <3>2 DEF lab_regions_are_valid
  <2>4. ASSUME NEW a \in address..(address + length - 1)
        PROVE  a \in Addresses \ UNION {Within(q) : q \in ProtectedRegions}
    <3>1. a \in Nat /\ r[k].base <= a /\ a < r[k].end
      BY <1>1, <2>2, <2>3, SMTT(30) DEF Regions
    <3>2. a \in Addresses
      BY <2>3, <3>1, MapTypes, SMTT(30) DEF target_region_is_protected, Addresses, Regions
    <3>3. ASSUME NEW q \in ProtectedRegions, a \in Within(q)
          PROVE  FALSE
      <4>1. ~(r[k].base < q.end /\ q.base < r[k].end)
        BY <2>3 DEF target_region_is_protected, Overlap
      <4>2. r[k].base \in Nat /\ r[k].end \in Nat /\ q.base \in Nat /\ q.end \in Nat
        BY <2>3, MapTypes, Zenon DEF Regions
      <4>3. q.base <= a /\ a < q.end
        BY <3>3, <4>2, <3>1 DEF Within
      <4>. QED  BY <3>1, <4>1, <4>2, <4>3
    <3>. QED  BY <3>2, <3>3
  <2>5. Entitled(h) = Addresses \ UNION {Within(q) : q \in ProtectedRegions}
    BY <2>2 DEF Entitled
  <2>. QED  BY <2>4, <2>5
<1>5. CASE h \in {init_disabled, init_readonly, init_target}
  BY <1>5 DEF init_disabled, init_readonly, init_target, Opened, range_is_write_allowed
<1>. QED  BY <1>2, <1>3, <1>4, <1>5 DEF Handles
-----------------------------------------------------------------------------
(* Lemmas about the call in progress *)

\* A call is in progress exactly when its step is not "idle".
LEMMA CallOrIdle ==
  ASSUME TypeInv
  PROVE  /\ call = Idle => call.at = "idle"
         /\ call # Idle => call \in Calls /\ call.at \in Steps
         /\ call.at # "idle" => call \in Calls
BY DEF TypeInv, Calls, Steps, Idle

\* The last step and the range of a call stay as the front checked them while the
\* backend goes on with it.
LEMMA RangeKept ==
  ASSUME TypeInv, RangeInv, call # Idle, call' \in Calls, UNCHANGED <<handle, last>>,
         call'.op = call.op, call'.address = call.address, call'.sector = call.sector,
         call'.data = call.data, call'.i <= Len(call'.data)
  PROVE  RangeInv'
<1>1. Reach(call') = Reach(call)
  BY Zenon DEF Reach
<1>. QED  BY <1>1 DEF RangeInv, Entitled

\* Nothing of the invariant's other parts is about an idle driver.
LEMMA IdleInv ==
  ASSUME call' = Idle, ~ctl'.pg, ~ctl'.ser
  PROVE  RangeInv' /\ ControlInv' /\ MaskInv' /\ VerifyInv'
BY DEF RangeInv, ControlInv, MaskInv, VerifyInv, Idle

\* A step that leaves the cells and the cache's use alone keeps the cache true.
LEMMA CacheKept ==
  ASSUME CacheInv, UNCHANGED <<cells, cache, dcen>>
  PROVE  CacheInv'
BY DEF CacheInv
-----------------------------------------------------------------------------
(* The invariant is inductive: one lemma per action *)

\* The power-on state.
LEMMA InitInv == Init => IInv
<1>. SUFFICES ASSUME Init PROVE IInv
  OBVIOUS
<1>1. init_disabled \in Handles
  BY DEF Handles, init_disabled, Opened, boot_flash_init_ok
<1>2. TypeInv
  BY <1>1 DEF Init, TypeInv, NoCache
<1>3. RangeInv /\ ControlInv /\ MaskInv /\ VerifyInv
  BY DEF Init, RangeInv, ControlInv, MaskInv, VerifyInv, Idle
<1>4. CacheInv
  BY DEF Init, CacheInv, NoCache
<1>5. OkMeansWritten
  BY DEF Init, OkMeansWritten, Returned, Idle
<1>. QED  BY <1>2, <1>3, <1>4, <1>5 DEF IInv

\* boot_flash_init and the functions that call it open a handle between calls.
LEMMA OpenInv == IInv /\ Open => IInv'
<1>. SUFFICES ASSUME IInv, Open PROVE IInv'
  OBVIOUS
<1>1. TypeInv'
  BY DEF IInv, TypeInv, Open, Handles
<1>2. ~ctl'.pg /\ ~ctl'.ser /\ call' = Idle
  BY CallOrIdle DEF IInv, ControlInv, Open
<1>3. RangeInv' /\ ControlInv' /\ MaskInv' /\ VerifyInv'
  BY <1>2, IdleInv
<1>4. CacheInv'
  BY CacheKept DEF IInv, Open
<1>5. OkMeansWritten'
  BY <1>2 DEF OkMeansWritten, Open, Returned, Idle
<1>. QED  BY <1>1, <1>3, <1>4, <1>5 DEF IInv

\* A call the front refuses changes nothing but the status.
LEMMA RefuseInv ==
  ASSUME IInv, call = Idle, NEW status, Refuse(status),
         UNCHANGED <<handle, cells, cache, ctl, dcen, primask>>
  PROVE  IInv'
<1>1. TypeInv'
  BY DEF IInv, TypeInv, Refuse
<1>2. ~ctl'.pg /\ ~ctl'.ser /\ call' = Idle
  BY CallOrIdle DEF IInv, ControlInv, Refuse
<1>3. RangeInv' /\ ControlInv' /\ MaskInv' /\ VerifyInv'
  BY <1>2, IdleInv
<1>4. CacheInv'
  BY CacheKept DEF IInv
<1>5. OkMeansWritten'
  BY <1>2, SMTT(30) DEF OkMeansWritten, Refuse, Returned, Idle
<1>. QED  BY <1>1, <1>3, <1>4, <1>5 DEF IInv

\* A call the front lets through, whose range it has checked.
LEMMA BeginInv ==
  ASSUME IInv, call = Idle,
         NEW op \in {"erase", "program"}, NEW address \in Nat, NEW sector \in Nat,
         NEW data \in Seq({0, 1}), Begin(op, address, sector, data),
         op = "erase" => sector < Len(Sectors),
         Reach(call') \subseteq Entitled(handle), Reach(call') \subseteq Addresses,
         UNCHANGED <<handle, cells, cache, ctl, dcen, primask>>
  PROVE  IInv'
<1>1. call' \in Calls /\ call'.at = "unlock" /\ call'.entry = primask /\ call'.i = 0
      /\ call'.op = op /\ call'.sector = sector /\ call'.data = data
  BY Zenon DEF Begin, Calls, Steps, IInv, TypeInv
<1>2. TypeInv'
  BY <1>1 DEF IInv, TypeInv
<1>3. RangeInv'
  <2>1. call'.i <= Len(call'.data)
    BY <1>1, LenProperties
  <2>2. Entitled(handle)' = Entitled(handle)
    BY Zenon DEF Entitled
  <2>. QED  BY <1>1, <2>1, <2>2, Zenon DEF RangeInv, Begin, Returned
<1>4. ControlInv' /\ MaskInv' /\ VerifyInv'
  BY <1>1, CallOrIdle DEF IInv, ControlInv, MaskInv, VerifyInv
<1>5. CacheInv'
  BY CacheKept, Zenon DEF IInv
<1>6. OkMeansWritten'
  BY <1>1, Zenon DEF OkMeansWritten, Begin, Returned, Idle
<1>. QED  BY <1>2, <1>3, <1>4, <1>5, <1>6, Zenon DEF IInv

\* boot_flash_erase_sector lets a whole sector through, or nothing.
LEMMA EraseFrontInv ==
  ASSUME IInv, NEW id \in 0..Len(Sectors), boot_flash_erase_sector(id)
  PROVE  IInv'
<1>. DEFINE s == Sectors[id + 1]
<1>1. call = Idle /\ UNCHANGED <<handle, cells, cache, ctl, dcen, primask>>
  BY DEF boot_flash_erase_sector
<1>2. CASE \E status : Refuse(status)
  BY <1>1, <1>2, RefuseInv
<1>3. CASE id < Len(Sectors) /\ range_is_write_allowed(handle, s.base, s.end - s.base)
           /\ Begin("erase", s.base, id, <<>>)
  <2>1. Len(Sectors) \in Nat /\ id \in Nat /\ id + 1 \in 1..Len(Sectors)
    BY <1>3, FlashAssumption, LenProperties
  <2>2. s \in Regions
    BY <2>1, FlashAssumption, ElementOfSeq, Zenon
  <2>3. s.base >= FLASH_BASE /\ s.end <= FLASH_END /\ s.base < s.end
    BY <2>1, FlashAssumption, Zenon
  <2>4. s.base \in Nat /\ s.end \in Nat /\ s.end - s.base \in Nat
        /\ s.base..(s.base + (s.end - s.base) - 1) = Within(s)
    BY <2>2, <2>3, SMTT(30) DEF Regions, Within
  <2>5. Within(s) \subseteq Entitled(handle)
    BY <1>3, <2>4, AllowedIsEntitled, Zenon DEF IInv, TypeInv
  <2>6. Within(s) \subseteq Addresses
    BY <2>2, <2>3, RegionInFlash, Zenon
  <2>7. Reach(call') = Within(s)
    BY <1>3, Zenon DEF Begin, Reach
  <2>8. <<>> \in Seq({0, 1})
    BY SMTT(30)
  <2>. HIDE DEF s
  <2>. QED  BY <1>1, <1>3, <2>1, <2>4, <2>5, <2>6, <2>7, <2>8, BeginInv, Zenon
<1>. QED
  <2>1. id \in Nat /\ Len(Sectors) \in Nat
    BY FlashAssumption, LenProperties
  <2>. QED  BY <1>2, <1>3, <2>1 DEF boot_flash_erase_sector

\* boot_flash_program_aligned checks the whole range before the backend sees it.
LEMMA ProgramFrontInv ==
  ASSUME IInv, NEW p \in Programs, boot_flash_program_aligned(p[1], p[2])
  PROVE  IInv'
<1>. DEFINE address == p[1]
            data == p[2]
<1>1. call = Idle /\ UNCHANGED <<handle, cells, cache, ctl, dcen, primask>>
  BY DEF boot_flash_program_aligned
<1>2. address \in Nat /\ data \in Seq({0, 1}) /\ Len(data) \in Nat
  BY FlashAssumption, LenProperties, Zenon
<1>3. CASE \E status : Refuse(status)
  BY <1>1, <1>3, RefuseInv
<1>4. CASE range_is_write_allowed(handle, address, Len(data))
           /\ range_in_bounds(FLASH_BASE, FLASH_END, address, Len(data))
           /\ Begin("program", address, 0, data)
  <2>. HIDE DEF address, data
  <2>1. address..(address + Len(data) - 1) \subseteq Entitled(handle)
    BY <1>2, <1>4, AllowedIsEntitled DEF IInv, TypeInv
  <2>2. address >= FLASH_BASE /\ address + Len(data) <= FLASH_END
    BY <1>4, Zenon DEF range_in_bounds
  <2>3. address..(address + Len(data) - 1) \subseteq Addresses
    BY <1>2, <2>2, MapTypes DEF Addresses
  <2>4. Reach(call') = address..(address + Len(data) - 1)
    BY <1>4, Zenon DEF Begin, Reach
  <2>. QED  BY <1>1, <1>2, <1>4, <2>1, <2>3, <2>4, BeginInv, Zenon
<1>. QED  BY <1>3, <1>4, Zenon DEF boot_flash_program_aligned

\* A call that returns without an OK leaves nothing to be true of the cells.
LEMMA ReturnInv ==
  ASSUME IInv, NEW status, Return(status), ~ctl'.pg, ~ctl'.ser,
         status = "OK" => ctl'.lock,
         status = "OK" /\ call.op = "program" =>
           \A i \in 1..Len(call.data) : cells'[call.address + i - 1] = call.data[i]
  PROVE  RangeInv' /\ ControlInv' /\ MaskInv' /\ VerifyInv' /\ OkMeansWritten'
<1>1. call' = Idle /\ last' = [status |-> status, op |-> call.op, address |-> call.address,
                               data |-> call.data]
  BY Zenon DEF Return
<1>2. RangeInv' /\ ControlInv' /\ MaskInv' /\ VerifyInv'
  BY <1>1, IdleInv
<1>3. OkMeansWritten'
  BY <1>1 DEF OkMeansWritten, Idle
<1>. QED  BY <1>2, <1>3

\* While a call runs nothing has been reported, so only the mask is to be shown.
LEMMA NothingReported ==
  ASSUME RangeInv', call' # Idle, call'.at \in {"restore", "lock", "verify"} => primask' = call'.entry
  PROVE  OkMeansWritten'
BY DEF RangeInv, OkMeansWritten

\* target_unlock: the keys are taken, or the call ends.
LEMMA UnlockInv == IInv /\ target_unlock => IInv'
<1>. SUFFICES ASSUME IInv, target_unlock PROVE IInv'
  OBVIOUS
<1>1. call \in Calls /\ call # Idle /\ call.at = "unlock"
  BY CallOrIdle DEF IInv, target_unlock, Idle
<1>2. UNCHANGED <<handle, cells, cache, dcen, primask>> /\ ctl.pg = FALSE /\ ctl.ser = FALSE
  BY <1>1 DEF IInv, TypeInv, target_unlock, ControlInv
<1>3. CacheInv'
  BY <1>2, CacheKept DEF IInv
<1>4. CASE ctl' = [ctl EXCEPT !.lock = FALSE] /\ GoTo("prepare") /\ UNCHANGED last
  <2>1. call' \in Calls /\ call' # Idle /\ call'.at = "prepare"
    BY <1>1, <1>4 DEF GoTo, Calls, Steps, Idle
  <2>2. TypeInv'
    BY <1>2, <1>4, <2>1, Zenon DEF IInv, TypeInv
  <2>3. RangeInv'
    BY <1>1, <1>2, <1>4, <2>1, RangeKept, Zenon DEF IInv, GoTo, Calls, RangeInv
  <2>4. ControlInv' /\ MaskInv' /\ VerifyInv'
    BY <1>1, <1>2, <1>4, <2>1 DEF IInv, TypeInv, ControlInv, MaskInv, VerifyInv, GoTo, Calls
  <2>5. OkMeansWritten'
    BY <2>1, <2>3, NothingReported
  <2>. QED  BY <1>3, <2>2, <2>3, <2>4, <2>5 DEF IInv
<1>5. CASE Return("BACKEND") /\ UNCHANGED ctl
  <2>1. TypeInv'
    BY <1>2, <1>5 DEF IInv, TypeInv, Return
  <2>. QED  BY <1>2, <1>3, <1>5, <2>1, ReturnInv, Zenon DEF IInv
<1>. QED  BY <1>4, <1>5 DEF target_unlock

\* flash_data_cache_prepare turns the data cache off and keeps what it was.
LEMMA PrepareInv == IInv /\ flash_data_cache_prepare => IInv'
<1>. SUFFICES ASSUME IInv, flash_data_cache_prepare PROVE IInv'
  OBVIOUS
<1>1. call \in Calls /\ call # Idle /\ call.at = "prepare"
  BY CallOrIdle DEF IInv, flash_data_cache_prepare, Idle
<1>2. call' \in Calls /\ call' # Idle /\ call'.at = "mask"
  BY <1>1, Zenon DEF flash_data_cache_prepare, Calls, Steps, Idle, IInv, TypeInv
<1>3. TypeInv'
  BY <1>1, <1>2, Zenon DEF IInv, TypeInv, flash_data_cache_prepare
<1>4. RangeInv'
  BY <1>1, <1>2, RangeKept DEF IInv, flash_data_cache_prepare, Calls, RangeInv
<1>5. ControlInv' /\ MaskInv' /\ VerifyInv'
  BY <1>1, <1>2 DEF IInv, TypeInv, ControlInv, MaskInv, VerifyInv, flash_data_cache_prepare, Calls
<1>6. CacheInv'
  BY DEF flash_data_cache_prepare, CacheInv
<1>7. OkMeansWritten'
  BY <1>1, <1>2, <1>4, <1>5, NothingReported DEF MaskInv
<1>. QED  BY <1>3, <1>4, <1>5, <1>6, <1>7 DEF IInv

\* interrupt_save_disable masks interrupts and keeps the caller's mask.
LEMMA SaveDisableInv == IInv /\ interrupt_save_disable => IInv'
<1>. SUFFICES ASSUME IInv, interrupt_save_disable PROVE IInv'
  OBVIOUS
<1>1. call \in Calls /\ call # Idle /\ call.at = "mask"
  BY CallOrIdle DEF IInv, interrupt_save_disable, Idle
<1>2. call' \in Calls /\ call' # Idle /\ call'.at = "start"
  BY <1>1, Zenon DEF interrupt_save_disable, Calls, Steps, Idle, IInv, TypeInv
<1>3. TypeInv'
  BY <1>1, <1>2 DEF IInv, TypeInv, interrupt_save_disable
<1>4. RangeInv'
  BY <1>1, <1>2, RangeKept DEF IInv, interrupt_save_disable, Calls, RangeInv
<1>5. ControlInv' /\ MaskInv' /\ VerifyInv'
  BY <1>1, <1>2 DEF IInv, TypeInv, ControlInv, MaskInv, VerifyInv, interrupt_save_disable, Calls
<1>6. CacheInv'
  BY CacheKept DEF IInv, interrupt_save_disable
<1>7. OkMeansWritten'
  BY <1>1, <1>2, <1>4, <1>5, NothingReported DEF MaskInv
<1>. QED  BY <1>3, <1>4, <1>5, <1>6, <1>7 DEF IInv

\* The operation's bit is set, the other one cleared.
LEMMA StartInv == IInv /\ critical_start => IInv'
<1>. SUFFICES ASSUME IInv, critical_start PROVE IInv'
  OBVIOUS
<1>1. call \in Calls /\ call # Idle /\ call.at = "start"
  BY CallOrIdle DEF IInv, critical_start, Idle
<1>2. call' \in Calls /\ call' # Idle /\ call'.at = "critical"
  BY <1>1 DEF critical_start, GoTo, Calls, Steps, Idle, IInv, TypeInv
<1>3. TypeInv'
  BY <1>1, <1>2, Zenon DEF IInv, TypeInv, critical_start
<1>4. RangeInv'
  BY <1>1, <1>2, RangeKept, Zenon DEF IInv, critical_start, GoTo, Calls, RangeInv
<1>5. ControlInv' /\ MaskInv' /\ VerifyInv'
  BY <1>1, <1>2 DEF IInv, TypeInv, ControlInv, MaskInv, VerifyInv, critical_start, GoTo, Calls
<1>6. CacheInv'
  BY CacheKept DEF IInv, critical_start
<1>7. OkMeansWritten'
  BY <1>1, <1>2, <1>4, <1>5, NothingReported DEF MaskInv
<1>. QED  BY <1>3, <1>4, <1>5, <1>6, <1>7 DEF IInv

\* interrupt_restore puts the caller's mask back, masked or not.
LEMMA RestoreMaskInv == IInv /\ interrupt_restore => IInv'
<1>. SUFFICES ASSUME IInv, interrupt_restore PROVE IInv'
  OBVIOUS
<1>1. call \in Calls /\ call # Idle /\ call.at = "unmask"
  BY CallOrIdle DEF IInv, interrupt_restore, Idle
<1>2. call' \in Calls /\ call' # Idle /\ call'.at = "restore"
  BY <1>1, Zenon DEF interrupt_restore, GoTo, Calls, Steps, Idle, IInv, TypeInv
<1>3. TypeInv'
  BY <1>1, <1>2 DEF IInv, TypeInv, interrupt_restore
<1>4. RangeInv'
  BY <1>1, <1>2, RangeKept, Zenon DEF IInv, interrupt_restore, GoTo, Calls, RangeInv
<1>5. ControlInv' /\ MaskInv' /\ VerifyInv'
  BY <1>1, <1>2 DEF IInv, TypeInv, ControlInv, MaskInv, VerifyInv, interrupt_restore, GoTo, Calls
<1>6. CacheInv'
  BY CacheKept DEF IInv, interrupt_restore
<1>7. OkMeansWritten'
  BY <1>1, <1>2, <1>4, <1>5, NothingReported DEF MaskInv
<1>. QED  BY <1>3, <1>4, <1>5, <1>6, <1>7 DEF IInv

\* flash_data_cache_restore empties the cache before it is in use again: what the
\* cells held before the operation is in no line of it.
LEMMA RestoreCacheInv == IInv /\ flash_data_cache_restore => IInv'
<1>. SUFFICES ASSUME IInv, flash_data_cache_restore PROVE IInv'
  OBVIOUS
<1>1. call \in Calls /\ call # Idle /\ call.at = "restore"
  BY CallOrIdle DEF IInv, flash_data_cache_restore, Idle
<1>2. call' \in Calls /\ call' # Idle /\ call'.at = "lock"
  BY <1>1 DEF flash_data_cache_restore, GoTo, Calls, Steps, Idle, IInv, TypeInv
<1>3. TypeInv'
  BY <1>1, <1>2, Zenon DEF IInv, TypeInv, flash_data_cache_restore, NoCache
<1>4. RangeInv'
  BY <1>1, <1>2, RangeKept, Zenon DEF IInv, flash_data_cache_restore, GoTo, Calls, RangeInv
<1>5. ControlInv' /\ MaskInv' /\ VerifyInv'
  BY <1>1, <1>2 DEF IInv, TypeInv, ControlInv, MaskInv, VerifyInv, flash_data_cache_restore, GoTo, Calls
<1>6. CacheInv'
  BY <1>1, Zenon DEF IInv, flash_data_cache_restore, CacheInv, NoCache, ControlInv
<1>7. OkMeansWritten'
  BY <1>1, <1>2, <1>4, <1>5, NothingReported DEF MaskInv
<1>. QED  BY <1>3, <1>4, <1>5, <1>6, <1>7 DEF IInv

\* The erase of the sector the front checked, complete or not.
LEMMA EraseInv == IInv /\ flash_erase_sector_critical => IInv'
<1>. SUFFICES ASSUME IInv, flash_erase_sector_critical PROVE IInv'
  OBVIOUS
<1>1. call \in Calls /\ call # Idle /\ call.at = "critical" /\ call.op = "erase"
  BY CallOrIdle, Zenon DEF IInv, flash_erase_sector_critical, Idle
<1>2. PICK erased \in SUBSET Within(Sectors[call.sector + 1]), failed \in BOOLEAN :
        /\ cells' = [a \in Addresses |-> IF a \in erased THEN 1 ELSE cells[a]]
        /\ call' = [call EXCEPT !.at = "unmask", !.ok = ~failed]
        /\ ctl' = [ctl EXCEPT !.ser = FALSE, !.err = failed]
  BY Zenon DEF flash_erase_sector_critical
<1>3. UNCHANGED <<handle, cache, dcen, primask, last>>
  BY DEF flash_erase_sector_critical
<1>4. call' \in Calls /\ call' # Idle /\ call'.at = "unmask"
  BY <1>1, <1>2, Zenon DEF Calls, Steps, Idle
<1>5. TypeInv'
  <2>1. cells' \in [Addresses -> {0, 1}]
    BY <1>2 DEF IInv, TypeInv
  <2>. QED  BY <1>2, <1>3, <1>4, <2>1, Zenon DEF IInv, TypeInv
<1>6. RangeInv'
  BY <1>1, <1>2, <1>3, <1>4, RangeKept DEF IInv, Calls, RangeInv
<1>7. ControlInv' /\ MaskInv' /\ VerifyInv'
  <2>1. ctl.pg = FALSE
    BY <1>1, Zenon DEF IInv, TypeInv, ControlInv
  <2>. QED  BY <1>1, <1>2, <1>3, <1>4, <2>1, Zenon DEF IInv, TypeInv, ControlInv, MaskInv, VerifyInv, Calls
<1>8. CacheInv'
  BY <1>1, <1>3 DEF IInv, ControlInv, CacheInv
<1>9. OkMeansWritten'
  BY <1>4, <1>6, NothingReported, Zenon
<1>. QED  BY <1>5, <1>6, <1>7, <1>8, <1>9 DEF IInv

\* One byte of the program loop, or its end.
LEMMA ProgramInv == IInv /\ flash_program_critical => IInv'
<1>. SUFFICES ASSUME IInv, flash_program_critical PROVE IInv'
  OBVIOUS
<1>1. call \in Calls /\ call # Idle /\ call.at = "critical" /\ call.op = "program"
  BY CallOrIdle, Zenon DEF IInv, flash_program_critical, Idle
<1>2. UNCHANGED <<handle, cache, dcen, primask, last>> /\ ctl.ser = FALSE /\ ~dcen
  BY <1>1, Zenon DEF flash_program_critical, IInv, ControlInv, TypeInv
<1>3. call.i \in Nat /\ Len(call.data) \in Nat /\ call.i <= Len(call.data)
  BY <1>1, LenProperties DEF IInv, RangeInv, Calls
<1>4. CASE call.i = Len(call.data)
  <2>1. /\ ctl' = [ctl EXCEPT !.pg = FALSE] /\ UNCHANGED cells
        /\ call' = [call EXCEPT !.at = "unmask", !.i = 0]
    BY <1>4 DEF flash_program_critical
  <2>2. call' \in Calls /\ call' # Idle /\ call'.at = "unmask"
    BY <1>1, <2>1, Zenon DEF Calls, Steps, Idle
  <2>3. TypeInv'
    BY <1>2, <2>1, <2>2, Zenon DEF IInv, TypeInv
  <2>4. RangeInv'
    BY <1>1, <1>2, <1>3, <2>1, <2>2, RangeKept DEF IInv, Calls
  <2>5. ControlInv' /\ MaskInv' /\ VerifyInv'
    BY <1>1, <1>2, <2>1, <2>2 DEF IInv, TypeInv, ControlInv, MaskInv, VerifyInv, Calls
  <2>6. CacheInv'
    BY <1>2 DEF CacheInv
  <2>7. OkMeansWritten'
    BY <2>2, <2>4, NothingReported
  <2>. QED  BY <2>3, <2>4, <2>5, <2>6, <2>7 DEF IInv
<1>5. CASE call.i # Len(call.data)
  <2>1. PICK taken \in BOOLEAN, failed \in BOOLEAN :
          /\ cells' = IF taken /\ call.data[call.i + 1] = 0
                      THEN [cells EXCEPT ![call.address + call.i] = 0] ELSE cells
          /\ ctl' = [ctl EXCEPT !.err = failed, !.pg = ~failed]
          /\ call' = IF failed THEN [call EXCEPT !.at = "unmask", !.ok = FALSE]
                     ELSE [call EXCEPT !.i = @ + 1]
    BY <1>5, Zenon DEF flash_program_critical
  <2>2. call' \in Calls /\ call' # Idle /\ call'.at = (IF failed THEN "unmask" ELSE "critical")
        /\ call'.op = call.op /\ call'.entry = call.entry /\ call'.primask = call.primask
    <3>1. CASE failed
      BY <1>1, <2>1, <3>1, Zenon DEF Calls, Steps, Idle
    <3>2. CASE ~failed
      <4>1. call' = [call EXCEPT !.i = call.i + 1]
        BY <2>1, <3>2
      <4>2. call.i + 1 \in Nat
        BY <1>3
      <4>. QED  BY <1>1, <3>2, <4>1, <4>2 DEF Calls, Steps, Idle
    <3>. QED  BY <3>1, <3>2
  <2>3. TypeInv'
    <3>1. cells' \in [Addresses -> {0, 1}]
      BY <2>1, Zenon DEF IInv, TypeInv
    <3>2. ctl' \in [lock : BOOLEAN, pg : BOOLEAN, ser : BOOLEAN, err : BOOLEAN]
      BY <2>1, Zenon DEF IInv, TypeInv
    <3>. QED  BY <1>2, <2>2, <3>1, <3>2 DEF IInv, TypeInv
  <2>4. RangeInv'
    <3>1. call'.data = call.data /\ call'.address = call.address /\ call'.sector = call.sector
          /\ call'.i <= Len(call.data)
      BY <1>1, <1>3, <1>5, <2>1 DEF Calls
    <3>. QED  BY <1>1, <1>2, <2>2, <3>1, RangeKept DEF IInv
  <2>5. ControlInv' /\ MaskInv' /\ VerifyInv'
    <3>1. ctl'.lock = ctl.lock /\ ctl'.ser = FALSE /\ ctl'.pg = ~failed
      BY <1>2, <2>1 DEF IInv, TypeInv
    <3>2. failed => ~call'.ok
      BY <1>1, <2>1 DEF Calls
    <3>. QED  BY <1>1, <1>2, <2>2, <3>1, <3>2, Zenon DEF IInv, ControlInv, MaskInv, VerifyInv
  <2>6. CacheInv'
    BY <1>2 DEF CacheInv
  <2>7. OkMeansWritten'
    BY <2>2, <2>4, NothingReported
  <2>. QED  BY <2>3, <2>4, <2>5, <2>6, <2>7 DEF IInv
<1>. QED  BY <1>4, <1>5, Zenon

\* target_lock: an operation that went through returns or is read back; one that
\* failed, or a controller that will not lock, is reported.
LEMMA LockInv == IInv /\ target_lock => IInv'
<1>. SUFFICES ASSUME IInv, target_lock PROVE IInv'
  OBVIOUS
<1>1. call \in Calls /\ call # Idle /\ call.at = "lock"
  BY CallOrIdle DEF IInv, target_lock, Idle
<1>2. PICK locked \in BOOLEAN :
       /\ ctl' = [ctl EXCEPT !.lock = locked]
       /\ IF ~call.ok \/ ~locked THEN Return("BACKEND")
          ELSE IF call.op = "erase" THEN Return("OK")
          ELSE GoTo("verify") /\ UNCHANGED last
  BY DEF target_lock
<1>3. UNCHANGED <<handle, cells, cache, dcen, primask>> /\ ctl.pg = FALSE /\ ctl.ser = FALSE
  BY <1>1 DEF target_lock, IInv, TypeInv, ControlInv
<1>4. ctl' \in [lock : BOOLEAN, pg : BOOLEAN, ser : BOOLEAN, err : BOOLEAN]
      /\ ctl'.lock = locked /\ ctl'.pg = FALSE /\ ctl'.ser = FALSE
  BY <1>2, <1>3 DEF IInv, TypeInv
<1>5. CacheInv'
  BY <1>3, CacheKept, Zenon DEF IInv
<1>6. CASE Return("BACKEND") \/ (Return("OK") /\ locked /\ call.op = "erase")
  <2>1. TypeInv'
    BY <1>3, <1>4, <1>6, Zenon DEF IInv, TypeInv, Return
  <2>2. RangeInv' /\ ControlInv' /\ MaskInv' /\ VerifyInv' /\ OkMeansWritten'
    BY <1>4, <1>6, ReturnInv
  <2>. QED  BY <1>5, <2>1, <2>2, Zenon DEF IInv
<1>7. CASE GoTo("verify") /\ UNCHANGED last /\ locked /\ call.ok /\ call.op # "erase"
  <2>1. call' \in Calls /\ call' # Idle /\ call'.at = "verify" /\ call'.op = "program"
        /\ call'.i = call.i /\ call'.entry = call.entry
    BY <1>1, <1>7, Zenon DEF GoTo, Calls, Steps, Idle
  <2>2. TypeInv'
    BY <1>3, <1>4, <2>1, Zenon DEF IInv, TypeInv
  <2>3. RangeInv'
    BY <1>1, <1>3, <1>7, <2>1, RangeKept, Zenon DEF IInv, GoTo, Calls, RangeInv
  <2>4. ControlInv' /\ MaskInv'
    BY <1>1, <1>3, <1>4, <1>7, <2>1 DEF IInv, ControlInv, MaskInv
  <2>5. VerifyInv'
    <3>1. call.i = 0
      BY <1>1, <1>7, Zenon DEF IInv, VerifyInv, Calls
    <3>. QED  BY <2>1, <3>1 DEF VerifyInv
  <2>6. OkMeansWritten'
    BY <2>1, <2>3, <2>4, NothingReported DEF MaskInv
  <2>. QED  BY <1>5, <2>2, <2>3, <2>4, <2>5, <2>6 DEF IInv
<1>. QED  BY <1>1, <1>2, <1>6, <1>7

\* A load returns what the cell holds, through the cache or not.
LEMMA LoadedIsCell ==
  ASSUME TypeInv, CacheInv, NEW a \in Addresses
  PROVE  Loaded(a) = cells[a]
BY DEF TypeInv, CacheInv, Loaded, Absent

\* A load leaves true lines in the cache.
LEMMA FilledIsTrue ==
  ASSUME TypeInv, CacheInv, NEW read, cache' = Filled(read), UNCHANGED <<cells, dcen>>
  PROVE  CacheInv' /\ cache' \in [Addresses -> {0, 1, Absent}]
<1>1. \A a \in Addresses : cells[a] \in {0, 1} /\ cache[a] \in {0, 1, Absent}
  BY Zenon DEF TypeInv
<1>2. \A a \in Addresses : cache'[a] = IF dcen /\ a \in read THEN cells[a] ELSE cache[a]
  BY LoadedIsCell DEF Filled
<1>3. CacheInv'
  BY <1>2, Zenon DEF CacheInv
<1>4. \A a \in Addresses : cache'[a] \in {0, 1, Absent}
  BY <1>1, <1>2
<1>. QED  BY <1>3, <1>4 DEF Filled

\* Bytes compared up to i, and the n after them, are bytes compared up to i + n.
LEMMA ChunkCompared ==
  ASSUME NEW address \in Nat, NEW i \in Nat, NEW n \in Nat, NEW data, NEW mem,
         \A k \in 1..i : mem[address + k - 1] = data[k],
         \A a \in (address + i)..(address + i + n - 1) : mem[a] = data[a - address + 1]
  PROVE  \A k \in 1..(i + n) : mem[address + k - 1] = data[k]
<1>. SUFFICES ASSUME NEW k \in 1..(i + n), k > i
              PROVE  mem[address + k - 1] = data[k]
  OBVIOUS
<1>1. /\ address + k - 1 \in (address + i)..(address + i + n - 1)
      /\ (address + k - 1) - address + 1 = k
  OBVIOUS
<1>. QED  BY <1>1

\* The chunk after the first i bytes lies in the range of the call.
LEMMA ChunkInRange ==
  ASSUME NEW address \in Nat, NEW i \in Nat, NEW n \in Nat, NEW length \in Nat, i + n <= length
  PROVE  (address + i)..(address + i + n - 1) \subseteq address..(address + length - 1)
OBVIOUS

\* One chunk of the read-back: what it compares it finds in the cells.
LEMMA VerifyChunkInv == IInv /\ verify_chunk => IInv'
<1>. SUFFICES ASSUME IInv, verify_chunk PROVE IInv'
  OBVIOUS
<1>. DEFINE n == IF Len(call.data) - call.i > VerifyChunk THEN VerifyChunk
                 ELSE Len(call.data) - call.i
            read == (call.address + call.i)..(call.address + call.i + n - 1)
<1>1. call \in Calls /\ call # Idle /\ call.at = "verify" /\ call.op = "program"
  BY CallOrIdle DEF IInv, verify_chunk, Idle, VerifyInv
<1>2. UNCHANGED <<handle, cells, ctl, dcen, primask>> /\ ctl.pg = FALSE /\ ctl.ser = FALSE /\ ctl.lock
  BY <1>1 DEF IInv, TypeInv, verify_chunk, ControlInv
<1>3. call.i \in Nat /\ call.address \in Nat /\ Len(call.data) \in Nat /\ call.i <= Len(call.data)
  BY <1>1, LenProperties DEF IInv, RangeInv, Calls
<1>4. n \in Nat /\ call.i + n <= Len(call.data)
  BY <1>3, FlashAssumption
<1>5. cache' = Filled(read)
  BY DEF verify_chunk
<1>6. CacheInv' /\ cache' \in [Addresses -> {0, 1, Absent}]
  BY <1>2, <1>5, FilledIsTrue, Zenon DEF IInv
<1>7. CASE Return("VERIFY")
  <2>1. TypeInv'
    BY <1>2, <1>6, <1>7, Zenon DEF IInv, TypeInv, Return
  <2>2. RangeInv' /\ ControlInv' /\ MaskInv' /\ VerifyInv' /\ OkMeansWritten'
    BY <1>2, <1>7, ReturnInv, Zenon
  <2>. QED  BY <1>6, <2>1, <2>2, Zenon DEF IInv
<1>8. CASE \A a \in read : Loaded(a) = call.data[a - call.address + 1]
  <2>1. \A k \in 1..(call.i + n) : cells[call.address + k - 1] = call.data[k]
    <3>. HIDE DEF n
    <3>1. read \subseteq Addresses
      BY <1>1, <1>3, <1>4, ChunkInRange, Zenon DEF IInv, RangeInv, Reach
    <3>2. \A a \in read : cells[a] = call.data[a - call.address + 1]
      BY <1>8, <3>1, LoadedIsCell, Zenon DEF IInv
    <3>3. \A k \in 1..call.i : cells[call.address + k - 1] = call.data[k]
      BY <1>1, Zenon DEF IInv, VerifyInv
    <3>4. \A a \in (call.address + call.i)..(call.address + call.i + n - 1) :
            cells[a] = call.data[a - call.address + 1]
      BY <3>2
    <3>5. call.address \in Nat /\ call.i \in Nat /\ n \in Nat
      BY <1>3, <1>4
    <3>. HIDE DEF read
    <3>. QED  BY <3>3, <3>4, <3>5, ChunkCompared, SMTT(30)
  <2>2. CASE call.i + n < Len(call.data) /\ call' = [call EXCEPT !.i = @ + n] /\ UNCHANGED last
    <3>1. call' = [call EXCEPT !.i = call.i + n] /\ call.i + n \in Nat
      BY <1>3, <1>4, <2>2
    <3>. HIDE DEF n
    <3>2. call' \in Calls /\ call' # Idle /\ call'.at = "verify" /\ call'.op = "program"
          /\ call'.i = call.i + n /\ call'.entry = call.entry /\ call'.data = call.data
          /\ call'.address = call.address /\ call'.sector = call.sector
      BY <1>1, <3>1 DEF Calls, Steps, Idle
    <3>3. TypeInv'
      BY <1>2, <1>6, <3>2, Zenon DEF IInv, TypeInv
    <3>4. RangeInv'
      BY <1>1, <1>2, <1>4, <2>2, <3>2, RangeKept, Zenon DEF IInv
    <3>5. ControlInv' /\ MaskInv'
      BY <1>1, <1>2, <3>2, Zenon DEF IInv, ControlInv, MaskInv
    <3>6. VerifyInv'
      BY <1>2, <2>1, <3>2, Zenon DEF VerifyInv
    <3>7. OkMeansWritten'
      BY <3>2, <3>4, <3>5, NothingReported, Zenon DEF MaskInv
    <3>. QED  BY <1>6, <3>3, <3>4, <3>5, <3>6, <3>7 DEF IInv
  <2>3. CASE ~(call.i + n < Len(call.data)) /\ Return("OK")
    <3>1. TypeInv'
      BY <1>2, <1>6, <2>3, Zenon DEF IInv, TypeInv, Return
    <3>2. call.i + n = Len(call.data)
      BY <1>3, <1>4, <2>3
    <3>3. \A k \in 1..Len(call.data) : cells'[call.address + k - 1] = call.data[k]
      BY <1>2, <2>1, <3>2, Zenon
    <3>4. RangeInv' /\ ControlInv' /\ MaskInv' /\ VerifyInv' /\ OkMeansWritten'
      BY <1>2, <2>3, <3>3, ReturnInv
    <3>. QED  BY <1>6, <3>1, <3>4 DEF IInv
  <2>. QED  BY <1>7, <2>2, <2>3 DEF verify_chunk
<1>. QED  BY <1>7, <1>8 DEF verify_chunk

\* An interrupt handler's load.
LEMMA InterruptInv == IInv /\ Interrupt => IInv'
<1>. SUFFICES ASSUME IInv, Interrupt PROVE IInv'
  OBVIOUS
<1>1. UNCHANGED <<handle, cells, ctl, dcen, primask, call, last>>
  BY DEF Interrupt
<1>2. CacheInv' /\ cache' \in [Addresses -> {0, 1, Absent}]
  BY <1>1, FilledIsTrue, Zenon DEF IInv, Interrupt
<1>3. TypeInv'
  BY <1>1, <1>2 DEF IInv, TypeInv
<1>4. RangeInv'
  <2>1. Reach(call)' = Reach(call) /\ Entitled(handle)' = Entitled(handle)
    BY <1>1, Zenon DEF Reach, Entitled
  <2>. QED  BY <1>1, <2>1, Zenon DEF IInv, RangeInv
<1>5. ControlInv' /\ MaskInv' /\ VerifyInv' /\ OkMeansWritten'
  BY <1>1, Zenon DEF IInv, ControlInv, MaskInv, VerifyInv, OkMeansWritten
<1>. QED  BY <1>2, <1>3, <1>4, <1>5, Zenon DEF IInv

\* The caller's own masking, between calls.
LEMMA CallerMasksInv == IInv /\ CallerMasks => IInv'
<1>. SUFFICES ASSUME IInv, CallerMasks PROVE IInv'
  OBVIOUS
<1>1. call = Idle /\ call' = Idle /\ UNCHANGED <<handle, cells, cache, ctl, dcen, last>>
  BY DEF CallerMasks
<1>2. ~ctl'.pg /\ ~ctl'.ser
  BY <1>1, CallOrIdle DEF IInv, ControlInv
<1>3. primask' \in {0, 1}
  BY DEF CallerMasks, IInv, TypeInv
<1>4. TypeInv'
  BY <1>1, <1>3 DEF IInv, TypeInv
<1>5. RangeInv' /\ ControlInv' /\ MaskInv' /\ VerifyInv'
  BY <1>1, <1>2, IdleInv
<1>6. CacheInv'
  BY <1>1, CacheKept, Zenon DEF IInv
<1>7. OkMeansWritten'
  BY <1>1, <1>2, Zenon DEF IInv, OkMeansWritten, Idle
<1>. QED  BY <1>4, <1>5, <1>6, <1>7 DEF IInv

\* A reset in the middle of a call, an erase included.
LEMMA ResetInv == IInv /\ Reset => IInv'
<1>. SUFFICES ASSUME IInv, Reset PROVE IInv'
  OBVIOUS
<1>1. call' = Idle /\ last' = Returned("reset") /\ cache' = NoCache /\ primask' = 0
      /\ ctl' = [lock |-> TRUE, pg |-> FALSE, ser |-> FALSE, err |-> FALSE]
      /\ handle' = init_disabled /\ dcen' = (dcen \/ call.saved_dcen) /\ call \in Calls
  BY CallOrIdle, Zenon DEF Reset, IInv
<1>2. cells' \in [Addresses -> {0, 1}]
  <2>1. CASE UNCHANGED cells
    BY <2>1, Zenon DEF IInv, TypeInv
  <2>2. CASE \E erased \in SUBSET Within(Sectors[call.sector + 1]) :
               cells' = [a \in Addresses |-> IF a \in erased THEN 1 ELSE cells[a]]
    BY <2>2 DEF IInv, TypeInv
  <2>. QED  BY <2>1, <2>2 DEF Reset
<1>3. init_disabled \in Handles
  BY SMTT(30) DEF Handles, init_disabled, Opened, boot_flash_init_ok
<1>4. TypeInv'
  <2>1. cache' \in [Addresses -> {0, 1, Absent}]
    BY <1>1, Zenon DEF NoCache
  <2>2. dcen' \in BOOLEAN
    BY <1>1
  <2>. QED  BY <1>1, <1>2, <1>3, <2>1, <2>2 DEF TypeInv
<1>5. RangeInv' /\ ControlInv' /\ MaskInv' /\ VerifyInv'
  BY <1>1, IdleInv, Zenon
<1>6. CacheInv'
  BY <1>1, Zenon DEF CacheInv, NoCache
<1>7. OkMeansWritten'
  BY <1>1, Zenon DEF OkMeansWritten, Returned, Idle
<1>. QED  BY <1>4, <1>5, <1>6, <1>7 DEF IInv

\* A step that changes nothing.
LEMMA StutterInv == IInv /\ UNCHANGED vars => IInv'
<1>. SUFFICES ASSUME IInv, UNCHANGED vars PROVE IInv'
  OBVIOUS
<1>1. UNCHANGED <<handle, cells, cache, ctl, dcen, primask, call, last>>
  BY DEF vars
<1>2. Reach(call)' = Reach(call) /\ Entitled(handle)' = Entitled(handle)
  BY <1>1 DEF Reach, Entitled
<1>. QED  BY <1>1, <1>2, Zenon DEF IInv, TypeInv, RangeInv, ControlInv, MaskInv, CacheInv, VerifyInv,
                            OkMeansWritten

\* Every step of the driver and of what surrounds it keeps the invariant.
LEMMA NextInv == IInv /\ [Next]_vars => IInv'
<1>1. IInv /\ Backend => IInv'
  BY UnlockInv, PrepareInv, SaveDisableInv, StartInv, EraseInv, ProgramInv, RestoreMaskInv,
     RestoreCacheInv, LockInv, VerifyChunkInv DEF Backend
<1>. QED  BY <1>1, OpenInv, EraseFrontInv, ProgramFrontInv, InterruptInv, CallerMasksInv, ResetInv,
             StutterInv DEF Next

\* The cells a step may change: those of the call in progress, while the controller
\* is unlocked and set up for the operation.
Changed == \A a \in Addresses : cells'[a] # cells[a] =>
             a \in Entitled(handle) /\ ~ctl.lock /\ (ctl.pg \/ ctl.ser)

\* An erase changes cells of its sector only, finished, failed or cut by a reset.
LEMMA EraseChanges ==
  ASSUME IInv, call.at = "critical", call.op = "erase",
         NEW erased \in SUBSET Within(Sectors[call.sector + 1]),
         cells' = [a \in Addresses |-> IF a \in erased THEN 1 ELSE cells[a]]
  PROVE  Changed
<1>1. call # Idle
  BY SMTT(30) DEF Idle
<1>2. Within(Sectors[call.sector + 1]) \subseteq Entitled(handle)
  BY <1>1 DEF IInv, RangeInv, Reach
<1>3. ~ctl.lock /\ ctl.ser
  BY DEF IInv, ControlInv
<1>4. \A a \in Addresses : cells'[a] # cells[a] => a \in erased
  BY Zenon
<1>. QED  BY <1>2, <1>3, <1>4, Zenon DEF Changed

\* A step of the program loop changes the byte it is at.
LEMMA ProgramChanges == IInv /\ flash_program_critical => Changed
<1>. SUFFICES ASSUME IInv, flash_program_critical PROVE Changed
  BY Zenon
<1>1. call \in Calls /\ call # Idle /\ call.at = "critical" /\ call.op = "program"
  BY CallOrIdle, Zenon DEF IInv, flash_program_critical, Idle
<1>2. ~ctl.lock /\ ctl.pg
  BY <1>1 DEF IInv, ControlInv
<1>3. CASE UNCHANGED cells
  BY <1>3 DEF Changed
<1>4. CASE call.i # Len(call.data) /\ cells' = [cells EXCEPT ![call.address + call.i] = 0]
  <2>1. call.i \in Nat /\ call.address \in Nat /\ Len(call.data) \in Nat /\ call.i < Len(call.data)
    BY <1>1, <1>4, LenProperties DEF IInv, RangeInv, Calls
  <2>2. call.address + call.i \in call.address..(call.address + Len(call.data) - 1)
    BY <2>1
  <2>3. call.address + call.i \in Entitled(handle)
    BY <1>1, <2>2 DEF IInv, RangeInv, Reach
  <2>4. \A a \in Addresses : cells'[a] # cells[a] => a = call.address + call.i
    BY <1>4 DEF IInv, TypeInv
  <2>. QED  BY <1>2, <2>3, <2>4 DEF Changed
<1>. QED  BY <1>3, <1>4, Zenon DEF flash_program_critical

\* No other step changes a cell.
LEMMA NextChanges == IInv /\ [Next]_vars => Changed
<1>. SUFFICES ASSUME IInv, [Next]_vars PROVE Changed
  OBVIOUS
<1>1. CASE UNCHANGED cells
  BY <1>1 DEF Changed
<1>2. CASE flash_erase_sector_critical
  BY <1>2, EraseChanges DEF flash_erase_sector_critical
<1>3. CASE flash_program_critical
  BY <1>3, ProgramChanges
<1>4. CASE Reset
  <2>1. CASE call.at = "critical" /\ call.op = "erase"
    BY <1>4, <2>1, EraseChanges, Zenon DEF Reset
  <2>. QED  BY <1>1, <1>4, <2>1, Zenon DEF Reset
<1>5. ASSUME NEW id \in 0..Len(Sectors), boot_flash_erase_sector(id)
      PROVE  UNCHANGED cells
  BY <1>5, Zenon DEF boot_flash_erase_sector
<1>6. ASSUME NEW p \in Programs, boot_flash_program_aligned(p[1], p[2])
      PROVE  UNCHANGED cells
  BY <1>6, Zenon DEF boot_flash_program_aligned
<1>7. Open \/ Interrupt \/ CallerMasks \/ UNCHANGED vars => UNCHANGED cells
  BY DEF Open, Interrupt, CallerMasks, vars
<1>8. Backend => flash_erase_sector_critical \/ flash_program_critical \/ UNCHANGED cells
  BY DEF Backend, target_unlock, flash_data_cache_prepare, interrupt_save_disable, critical_start,
         interrupt_restore, flash_data_cache_restore, target_lock, verify_chunk
<1>. QED  BY <1>1, <1>2, <1>3, <1>4, <1>5, <1>6, <1>7, <1>8 DEF Next
-----------------------------------------------------------------------------
(* Theorems about the flash driver *)

\* The inductive invariant: registers, mask, cache and range at every step.
THEOREM FlashInvariant == Spec => []IInv
<1>. QED  BY InitInv, NextInv, PTL DEF Spec

\* Whatever map, requests and alignment the driver is built for, an OK of
\* boot_flash_program_aligned is true of the cells, and no call leaves a programming
\* bit or the interrupt mask behind.
THEOREM FlashOkMeansWritten == Spec => []OkMeansWritten
<1>1. IInv => OkMeansWritten
  BY DEF IInv
<1>. QED  BY <1>1, FlashInvariant, PTL

\* Whatever lab regions, metadata areas and candidate slot the map names, no step
\* changes a cell outside what the handle was opened for, nor one while the
\* controller is locked or not set up for an operation.
THEOREM FlashOnlyEntitled == Spec => OnlyEntitledCells
<1>1. IInv /\ [Next]_vars => [\A a \in Addresses : cells'[a] # cells[a] =>
                               a \in Entitled(handle) /\ ~ctl.lock /\ (ctl.pg \/ ctl.ser)]_vars
  BY NextChanges DEF Changed
<1>. QED  BY <1>1, FlashInvariant, PTL DEF Spec, OnlyEntitledCells
=============================================================================
