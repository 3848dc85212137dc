-------------------------- MODULE BootSystemProofs --------------------------
(***************************************************************************)
(* Proofs about the whole device, for every counter width, payload size,   *)
(* buffer size, set of versions and set of packages.                       *)
(***************************************************************************)
EXTENDS BootSystem, TLAPS

-----------------------------------------------------------------------------
(* The inductive invariant.                                                *)

\* What record r promises about the images sl: MetadataMatchesFlash, with the
\* record well formed and a candidate under way newer than the active image.
Promise(r, sl) ==
  /\ r = metadata_empty \/ state_record_is_canonical(r)
  /\ r.active_slot # BOOT_SLOT_NONE => image_verifies(sl[r.active_slot])
  /\ r.state = "CONFIRMED" => sl[r.active_slot].version = r.candidate_image_version
  /\ r.state \in {"CANDIDATE_READY", "PENDING_TRIAL"} =>
       /\ image_verifies(sl[r.candidate_slot])
       /\ sl[r.candidate_slot].version = r.candidate_image_version
  /\ (r.state \in {"WRITING", "CANDIDATE_READY", "PENDING_TRIAL"}
        /\ r.active_slot # BOOT_SLOT_NONE) =>
       r.candidate_image_version > sl[r.active_slot].version

\* A session that is under way belongs to the service that opened it.
SessionInv ==
  /\ SessionOwnsRecord
  /\ session.state \in {"WRITING", "PAYLOAD_COMPLETE"} =>
       /\ phase = "session"
       /\ protocol \in {"UPDATING", "FAILED", "RESET_REQUESTED"}
       /\ session.active = rec.active_slot
       /\ session.candidate \in Slots
  /\ session.state = "WRITING" => session.received < PayloadBlocks
  /\ session.state = "FINISHED" => phase = "session" /\ protocol = "FINISHED"

\* An application that is not the active image was started as a trial.
Entitled ==
  /\ RunningIsEntitled
  /\ (phase = "run" /\ running # rec.active_slot) => trials > 0

IInv ==
  /\ TypeOK
  /\ Promise(rec, slots)
  /\ SessionInv
  /\ trials <= MAX_BOOT_ATTEMPTS
  /\ TrialBudget
  /\ Entitled

-----------------------------------------------------------------------------
(* Records and their successors.                                           *)

SlotImages == [Slots -> Image]

\* The empty record is a record.
LEMMA EmptyType == metadata_empty \in Record
BY WidthAssumption, ResultAssumption
   DEF metadata_empty, Record, States, SlotValues, BOOT_SLOT_NONE, MAX_BOOT_ATTEMPTS

\* A commit either leaves the record that was there or puts an accepted
\* successor in its place, and it does the latter when it reports success.
LEMMA Committed ==
  ASSUME NEW cur, NEW nxt, NEW c \in CommitOutcomes(cur, nxt)
  PROVE  /\ c.ok \in BOOLEAN
         /\ c.rec = rec \/ (c.rec = nxt /\ validate_transition(rec, nxt) = "OK")
         /\ c.ok => c.rec = nxt /\ validate_transition(rec, nxt) = "OK"
<1>1. CASE c = [rec |-> rec, ok |-> FALSE]
  BY <1>1, Zenon
<1>2. CASE validate_transition(rec, nxt) = "OK" /\ c = [rec |-> nxt, ok |-> TRUE]
  BY <1>2, Zenon
<1>3. CASE validate_transition(rec, nxt) = "OK" /\ c = [rec |-> nxt, ok |-> FALSE]
  BY <1>3, Zenon
<1> QED
  BY <1>1, <1>2, <1>3, Zenon DEF CommitOutcomes

\* What boot_metadata_validate_transition has checked of a successor.
LEMMA Accepted ==
  ASSUME NEW r, NEW nxt, validate_transition(r, nxt) = "OK"
  PROVE  /\ state_record_is_canonical(nxt)
         /\ nxt.sequence = r.sequence + 1
         /\ nxt.sequence # UINT32_MAX
         /\ r.sequence # UINT32_MAX
         /\ transition_state_allowed(r.state, nxt.state)
         /\ transition_fields_allowed(r, nxt)
BY DEF validate_transition, sequence_follows

\* An accepted successor made of well-typed fields is a record.
LEMMA NextType ==
  ASSUME NEW r \in Record, NEW st \in States, NEW a \in SlotValues, NEW b \in SlotValues,
         NEW v \in Versions \cup {0}, NEW n \in 0..(MAX_BOOT_ATTEMPTS + 1), NEW f \in 0..2,
         NEW res \in Results,
         validate_transition(r, next_record(r, st, a, b, v, n, f, res)) = "OK"
  PROVE  next_record(r, st, a, b, v, n, f, res) \in Record
<1>1. /\ r.sequence + 1 # UINT32_MAX
      /\ r.sequence # UINT32_MAX
  BY Accepted DEF next_record
<1>2. r.sequence + 1 \in 0..UINT32_MAX
  BY <1>1, WidthAssumption DEF Record
<1> QED
  BY <1>2 DEF next_record, Record

-----------------------------------------------------------------------------
(* How each kind of successor keeps the promise.                           *)

\* WRITING gives up nothing: the candidate slot may be overwritten at once.
LEMMA PromiseWriting ==
  ASSUME NEW r \in Record, NEW sl \in SlotImages, Promise(r, sl),
         NEW b \in Slots, NEW v \in Versions, NEW image \in Image,
         validate_transition(r, next_record(r, "WRITING", r.active_slot, b, v, 0, 0, 0)) = "OK",
         r.active_slot # BOOT_SLOT_NONE => v > sl[r.active_slot].version
  PROVE  Promise(next_record(r, "WRITING", r.active_slot, b, v, 0, 0, 0),
                 [sl EXCEPT ![b] = image])
<1> DEFINE nxt == next_record(r, "WRITING", r.active_slot, b, v, 0, 0, 0)
<1>1. state_record_is_canonical(nxt)
  BY Accepted
<1>2. r.active_slot # b
  BY <1>1 DEF state_record_is_canonical, candidate_is_canonical, next_record
<1>3. r.active_slot # BOOT_SLOT_NONE =>
        [sl EXCEPT ![b] = image][r.active_slot] = sl[r.active_slot]
  BY <1>2 DEF SlotImages, Record, SlotValues
<1> QED
  BY <1>1, <1>3 DEF Promise, next_record

\* A slot that is only a candidate being written may hold anything.
LEMMA PromiseOverwrite ==
  ASSUME NEW r \in Record, NEW sl \in SlotImages, Promise(r, sl), NEW image \in Image,
         r.state = "WRITING"
  PROVE  Promise(r, [sl EXCEPT ![r.candidate_slot] = image])
<1>1. r.active_slot # r.candidate_slot /\ r.candidate_slot # BOOT_SLOT_NONE
  BY DEF Promise, state_record_is_canonical, candidate_is_canonical, metadata_empty
<1>2. r.active_slot # BOOT_SLOT_NONE =>
        [sl EXCEPT ![r.candidate_slot] = image][r.active_slot] = sl[r.active_slot]
  BY <1>1 DEF SlotImages, Record, SlotValues
<1> QED
  BY <1>2 DEF Promise

\* A rejection keeps the active slot.
LEMMA PromiseRejected ==
  ASSUME NEW r \in Record, NEW sl \in SlotImages, Promise(r, sl), NEW b, NEW v, NEW res,
         validate_transition(r,
           next_record(r, "REJECTED_INVALID", r.active_slot, b, v, 0, 0, res)) = "OK"
  PROVE  Promise(next_record(r, "REJECTED_INVALID", r.active_slot, b, v, 0, 0, res), sl)
<1>1. state_record_is_canonical(next_record(r, "REJECTED_INVALID", r.active_slot, b, v, 0, 0, res))
  BY Accepted
<1> QED
  BY <1>1 DEF Promise, next_record

\* A verified candidate may be published.
LEMMA PromiseReady ==
  ASSUME NEW r \in Record, NEW sl \in SlotImages, Promise(r, sl), r.state = "WRITING",
         image_verifies(sl[r.candidate_slot]),
         sl[r.candidate_slot].version = r.candidate_image_version,
         validate_transition(r, next_record(r, "CANDIDATE_READY", r.active_slot,
           r.candidate_slot, r.candidate_image_version, 0, 0, 0)) = "OK"
  PROVE  Promise(next_record(r, "CANDIDATE_READY", r.active_slot, r.candidate_slot,
                   r.candidate_image_version, 0, 0, 0), sl)
<1>1. state_record_is_canonical(next_record(r, "CANDIDATE_READY", r.active_slot,
        r.candidate_slot, r.candidate_image_version, 0, 0, 0))
  BY Accepted
<1> QED
  BY <1>1 DEF Promise, next_record

\* A trial changes only the budget.
LEMMA PromiseTrial ==
  ASSUME NEW r \in Record, NEW sl \in SlotImages, Promise(r, sl), NEW n, NEW res,
         r.state \in {"CANDIDATE_READY", "PENDING_TRIAL"},
         validate_transition(r, next_record(r, "PENDING_TRIAL", r.active_slot,
           r.candidate_slot, r.candidate_image_version, n, 0, res)) = "OK"
  PROVE  Promise(next_record(r, "PENDING_TRIAL", r.active_slot, r.candidate_slot,
                   r.candidate_image_version, n, 0, res), sl)
<1>1. state_record_is_canonical(next_record(r, "PENDING_TRIAL", r.active_slot,
        r.candidate_slot, r.candidate_image_version, n, 0, res))
  BY Accepted
<1> QED
  BY <1>1 DEF Promise, next_record

\* A confirmed candidate takes over with the version it was recorded with.
LEMMA PromiseConfirmed ==
  ASSUME NEW r \in Record, NEW sl \in SlotImages, Promise(r, sl), r.state = "PENDING_TRIAL",
         validate_transition(r, next_record(r, "CONFIRMED", r.candidate_slot,
           BOOT_SLOT_NONE, r.candidate_image_version, 0, 1, 0)) = "OK"
  PROVE  Promise(next_record(r, "CONFIRMED", r.candidate_slot, BOOT_SLOT_NONE,
                   r.candidate_image_version, 0, 1, 0), sl)
<1>1. state_record_is_canonical(next_record(r, "CONFIRMED", r.candidate_slot,
        BOOT_SLOT_NONE, r.candidate_image_version, 0, 1, 0))
  BY Accepted
<1> QED
  BY <1>1 DEF Promise, next_record

-----------------------------------------------------------------------------
(* The initial states.                                                     *)

\* A session that has not been opened is a session.
LEMMA NoSessionType == NoSession \in Session
BY EmptyType, PayloadAssumption
   DEF NoSession, Session, SessionStates, SlotValues, BOOT_SLOT_NONE

\* A device leaves the factory with its promises kept.
LEMMA InitInv == Init => IInv
<1> SUFFICES ASSUME Init PROVE IInv
  OBVIOUS
<1>1. /\ session = NoSession /\ session.state = "EMPTY"
      /\ phase = "poll" /\ recovery_mode = FALSE /\ protocol = "IDLE"
      /\ running = BOOT_SLOT_NONE /\ terminal = FALSE /\ trials = 0
  BY DEF Init, InitDevice, NoSession
<1>2. NoImage \in Image
  BY PayloadAssumption DEF NoImage, Image
<1>3. rec \in Record /\ slots \in SlotImages /\ Promise(rec, slots) /\ rec.state \in {"EMPTY", "CONFIRMED"}
  <2>1. CASE InitBlank
    BY <2>1, <1>2, EmptyType
       DEF InitBlank, SlotImages, Promise, metadata_empty, BOOT_SLOT_NONE
  <2>2. CASE InitProvisioned
    <3>1. PICK s \in Slots, v \in Versions :
            /\ v >= MIN_IMAGE_VERSION
            /\ rec = confirmed_record(s, v)
            /\ slots = [t \in Slots |-> IF t = s THEN WholeImage(v) ELSE NoImage]
      BY <2>2 DEF InitProvisioned
    <3>2. WholeImage(v) \in Image /\ image_verifies(WholeImage(v)) /\ WholeImage(v).version = v
      BY <3>1, PayloadAssumption DEF WholeImage, Image, image_verifies
    <3>3. slots \in SlotImages /\ slots[s] = WholeImage(v)
      BY <3>1, <3>2, <1>2 DEF SlotImages
    <3>4. rec \in Record /\ state_record_is_canonical(rec)
      BY <3>1, WidthAssumption, VersionAssumption, ResultAssumption
         DEF confirmed_record, next_record, metadata_empty, Record, States, Slots, SlotValues,
             BOOT_SLOT_NONE, MAX_BOOT_ATTEMPTS, state_record_is_canonical, confirmed_is_canonical
    <3>5. rec.state = "CONFIRMED" /\ rec.active_slot = s /\ rec.candidate_image_version = v
      BY <3>1 DEF confirmed_record, next_record
    <3> QED
      BY <3>2, <3>3, <3>4, <3>5 DEF Promise
  <2> QED
    BY <2>1, <2>2 DEF Init
<1>4. TypeOK
  <2>1. InstallerTypeOK
    BY <1>1, <1>3, NoSessionType DEF InstallerTypeOK, SlotImages
  <2>2. phase \in Phases /\ protocol \in ProtocolStates /\ running \in SlotValues
    BY <1>1 DEF Phases, ProtocolStates, SlotValues
  <2>3. trials \in 0..(MAX_BOOT_ATTEMPTS + 1)
    BY <1>1 DEF MAX_BOOT_ATTEMPTS
  <2> QED
    BY <1>1, <2>1, <2>2, <2>3, Zenon DEF TypeOK
<1>5. SessionInv
  BY <1>1 DEF SessionInv, SessionOwnsRecord
<1> QED
  BY <1>1, <1>3, <1>4, <1>5 DEF IInv, TrialBudget, OnTrial, Entitled, RunningIsEntitled, MAX_BOOT_ATTEMPTS

-----------------------------------------------------------------------------
(* The installer's calls.                                                  *)

\* A session that session_init accepts is bound to the record it read and to a
\* slot that is not active.
LEMMA InitSession ==
  ASSUME IInv, NEW recovery \in BOOLEAN, session_init_ok(recovery)
  PROVE  LET s == init_session(recovery)
         IN  /\ s \in Session
             /\ s.state = "INITIALIZED"
             /\ s.metadata = rec
             /\ s.active = rec.active_slot
             /\ s.candidate \in Slots
             /\ s.candidate # rec.active_slot
             /\ s.received = 0
<1>1. rec \in Record /\ Promise(rec, slots)
  BY DEF IInv, TypeOK, InstallerTypeOK
<1>2. rec = metadata_empty => rec.active_slot = BOOT_SLOT_NONE
  BY DEF metadata_empty
<1>3. ~no_valid_copy => rec.active_slot \in Slots
  BY <1>1 DEF session_init_ok, no_valid_copy, select_inactive_slot_ok, Promise,
     state_record_is_canonical, confirmed_is_canonical, Record, SlotValues
<1>4. init_session(recovery) =
        [NoSession EXCEPT
          !.state = "INITIALIZED",
          !.recovery_bootstrap = recovery,
          !.metadata = rec,
          !.active = rec.active_slot,
          !.candidate = IF no_valid_copy THEN "A" ELSE other_slot(rec.active_slot)]
  BY DEF init_session
<1> DEFINE c == IF no_valid_copy THEN "A" ELSE other_slot(rec.active_slot)
<1>5. c \in Slots /\ c # rec.active_slot
  BY <1>2, <1>3 DEF Slots, other_slot, no_valid_copy, BOOT_SLOT_NONE
<1> HIDE DEF c
<1>6. init_session(recovery) =
        [state |-> "INITIALIZED", recovery_bootstrap |-> recovery, metadata |-> rec,
         active |-> rec.active_slot, candidate |-> c, version |-> 0,
         received |-> 0, genuine |-> TRUE, metadata_writing_committed |-> FALSE]
  BY <1>4, Zenon DEF NoSession, c
<1> QED
  BY <1>1, <1>5, <1>6, PayloadAssumption
     DEF Session, SessionStates, SlotValues, Record

\* begin: the WRITING record is in place before the candidate slot is touched,
\* and the active slot is not touched at all.
LEMMA BeginStep ==
  ASSUME IInv, NEW s \in Session, NEW package \in Package, Begin(s, package),
         s.state = "INITIALIZED", s.metadata = rec, s.active = rec.active_slot,
         s.candidate \in Slots, s.candidate # rec.active_slot, s.received = 0
  PROVE  /\ rec' \in Record /\ slots' \in SlotImages /\ session' \in Session
         /\ Promise(rec', slots')
         /\ rec' = rec \/ rec'.state = "WRITING"
         /\ rec'.active_slot = rec.active_slot
         /\ \A t \in Slots : slots'[t] # slots[t] => t # rec.active_slot
         /\ session'.state \in {"WRITING", "FAILED"}
         /\ session'.state = "WRITING" =>
              /\ rec' = session'.metadata
              /\ rec'.state = "WRITING"
              /\ rec'.candidate_slot = session'.candidate
              /\ rec'.candidate_image_version = session'.version
              /\ session'.active = rec'.active_slot
              /\ session'.candidate \in Slots
              /\ session'.received = 0
<1>1. rec \in Record /\ slots \in SlotImages /\ Promise(rec, slots)
  BY DEF IInv, TypeOK, InstallerTypeOK, SlotImages
<1>2. fail_session(s) \in Session /\ fail_session(s).state = "FAILED"
  BY DEF fail_session, Session, SessionStates
<1>3. CASE ~begin_accepts(s, package)
  BY <1>1, <1>2, <1>3, Zenon DEF Begin
<1>4. CASE begin_accepts(s, package)
  <2> DEFINE v == package.version
             w == next_record(rec, "WRITING", rec.active_slot, s.candidate, v, 0, 0, 0)
  <2>1. v \in Versions /\ writing_record(s, v) = w
    BY DEF Package, writing_record
  <2>2. rec.active_slot # BOOT_SLOT_NONE => v > slots[rec.active_slot].version
    <3>1. v > confirmed_version(s)
      BY <1>4 DEF begin_accepts, metadata_matches_start
    <3>2. rec.active_slot # BOOT_SLOT_NONE => confirmed_version(s) = slots[rec.active_slot].version
      BY <1>1, Zenon DEF confirmed_version, Promise
    <3> QED
      BY <3>1, <3>2
  <2>3. PICK c \in CommitOutcomes(rec, w) :
          /\ rec' = c.rec
          /\ IF ~c.ok
               THEN /\ session' = [fail_session(s) EXCEPT !.version = v]
                    /\ UNCHANGED slots
               ELSE \E e \in begin_slot_outcomes(slots[s.candidate], v) :
                      /\ slots' = [slots EXCEPT ![s.candidate] = e.image]
                      /\ session' = [s EXCEPT
                           !.state = IF e.ok THEN "WRITING" ELSE "FAILED",
                           !.metadata = c.rec,
                           !.version = v,
                           !.metadata_writing_committed = TRUE]
    BY <1>4, <2>1, Zenon DEF Begin
  <2>4. /\ c.rec = rec \/ (c.rec = w /\ validate_transition(rec, w) = "OK")
        /\ c.ok => c.rec = w /\ validate_transition(rec, w) = "OK"
    BY Committed
  <2>5. validate_transition(rec, w) = "OK" => w \in Record
    <3>1. /\ "WRITING" \in States /\ 0 \in 0..(MAX_BOOT_ATTEMPTS + 1) /\ 0 \in 0..2
          /\ rec.active_slot \in SlotValues /\ s.candidate \in SlotValues
          /\ v \in Versions \cup {0}
      BY <1>1, <2>1 DEF States, MAX_BOOT_ATTEMPTS, Record, SlotValues
    <3> QED
      BY <1>1, <3>1, ResultAssumption, NextType
  <2>6. \A image \in Image : validate_transition(rec, w) = "OK" =>
          Promise(w, [slots EXCEPT ![s.candidate] = image])
    BY <1>1, <2>1, <2>2, PromiseWriting, Zenon
  <2>7. /\ w.state = "WRITING" /\ w.active_slot = rec.active_slot
        /\ w.candidate_slot = s.candidate /\ w.candidate_image_version = v
    BY Zenon DEF next_record
  <2>8. CASE ~c.ok
    <3>1. session' = [fail_session(s) EXCEPT !.version = v] /\ slots' = slots
      BY <2>3, <2>8
    <3>2. session' \in Session /\ session'.state = "FAILED"
      BY <3>1, <2>1, Zenon DEF fail_session, Session, SessionStates
    <3>3. slots[s.candidate] \in Image /\ [slots EXCEPT ![s.candidate] = slots[s.candidate]] = slots
      BY <1>1 DEF SlotImages
    <3>4. validate_transition(rec, w) = "OK" => Promise(w, slots)
      BY <2>6, <3>3, Zenon
    <3> QED
      BY <1>1, <2>3, <2>4, <2>5, <2>7, <3>1, <3>2, <3>4, Zenon
  <2>9. CASE c.ok
    <3>1. PICK e \in begin_slot_outcomes(slots[s.candidate], v) :
                      /\ slots' = [slots EXCEPT ![s.candidate] = e.image]
                      /\ session' = [s EXCEPT
                           !.state = IF e.ok THEN "WRITING" ELSE "FAILED",
                           !.metadata = c.rec,
                           !.version = v,
                           !.metadata_writing_committed = TRUE]
      BY <2>3, <2>9, Zenon
    <3>2. e.image \in Image
      <4>1. slots[s.candidate] \in Image /\ NoImage \in Image /\ HeaderWritten(v) \in Image
        BY <1>1, <2>1, PayloadAssumption DEF SlotImages, NoImage, HeaderWritten, Image
      <4>2. e.image \in {slots[s.candidate], NoImage, HeaderWritten(v)}
        <5>1. CASE e = [image |-> HeaderWritten(v), ok |-> TRUE]
          BY <5>1
        <5>2. CASE e \in [image : {slots[s.candidate], NoImage, HeaderWritten(v)}, ok : {FALSE}]
          BY <5>2, Zenon
        <5> QED
          BY <5>1, <5>2, Zenon DEF begin_slot_outcomes
      <4> QED
        BY <4>1, <4>2
    <3>3. c.rec = w /\ rec' = w /\ w \in Record /\ Promise(w, slots')
      BY <2>3, <2>4, <2>5, <2>6, <2>9, <3>1, <3>2, Zenon
    <3>4. /\ session' \in Session
          /\ session'.state \in {"WRITING", "FAILED"}
          /\ session'.metadata = w /\ session'.version = v
          /\ session'.active = s.active /\ session'.candidate = s.candidate
          /\ session'.received = 0
      <4>1. (IF e.ok THEN "WRITING" ELSE "FAILED") \in {"WRITING", "FAILED"}
        OBVIOUS
      <4> QED
        BY <3>1, <3>3, <2>1, <4>1, Zenon DEF Session, SessionStates
    <3>5. slots' \in SlotImages /\ \A t \in Slots : t # s.candidate => slots'[t] = slots[t]
      BY <1>1, <3>1, <3>2 DEF SlotImages
    <3> QED
      BY <2>7, <3>3, <3>4, <3>5, Zenon
  <2> QED
    BY <2>8, <2>9
<1> QED
  BY <1>3, <1>4

\* A flush leaves an image, whatever its result.
LEMMA FlushType ==
  ASSUME NEW s \in Session, slots \in SlotImages, s.candidate \in Slots,
         NEW f \in flush_outcomes(s)
  PROVE  f.image \in Image
<1> DEFINE old == slots[s.candidate]
           new == FlushedImage(s)
           torn == [FlushedImage(s) EXCEPT !.genuine = FALSE]
<1>1. old \in Image
  BY DEF SlotImages
<1>2. new \in Image /\ torn \in Image
  BY Zenon DEF FlushedImage, Image, Session
<1>3. f.image \in {old, new, torn}
  <2> HIDE DEF old, new, torn
  <2>1. CASE f = [image |-> old, ok |-> TRUE]
    BY <2>1
  <2>2. CASE f = [image |-> new, ok |-> TRUE]
    BY <2>2
  <2>3. CASE f \in [image : {old, new, torn}, ok : {FALSE}]
    BY <2>3, Zenon
  <2>4. \/ f \in {[image |-> old, ok |-> TRUE]}
        \/ f \in {[image |-> new, ok |-> TRUE]} \cup [image : {old, new, torn}, ok : {FALSE}]
    <3>1. CASE old.programmed = s.received
      BY <3>1, Zenon DEF flush_outcomes, old
    <3>2. CASE old.programmed # s.received
      BY <3>2, Zenon DEF flush_outcomes, old, new, torn
    <3> QED
      BY <3>1, <3>2, Zenon
  <2> QED
    BY <2>1, <2>2, <2>3, <2>4, Zenon
<1> QED
  BY <1>1, <1>2, <1>3, Zenon

\* What a session under way owns, in the form the installer's calls need it.
LEMMA UnderWay ==
  ASSUME IInv, session.state \in {"WRITING", "PAYLOAD_COMPLETE"}
  PROVE  /\ rec = session.metadata
         /\ rec.state = "WRITING"
         /\ session.active = rec.active_slot
         /\ session.candidate = rec.candidate_slot
         /\ session.version = rec.candidate_image_version
         /\ session.candidate \in Slots
         /\ rec.active_slot # session.candidate
BY DEF IInv, SessionInv, SessionOwnsRecord

\* write: only the candidate slot changes, and the session counts its blocks.
LEMMA WriteStep ==
  ASSUME IInv, NEW good \in BOOLEAN, WriteBlock(good)
  PROVE  /\ rec' = rec /\ slots' \in SlotImages /\ session' \in Session
         /\ Promise(rec', slots')
         /\ \A t \in Slots : slots'[t] # slots[t] => t # rec.active_slot
         /\ session'.state \in {"WRITING", "PAYLOAD_COMPLETE", "FAILED"}
         /\ session'.metadata = session.metadata
         /\ session'.active = session.active
         /\ session'.candidate = session.candidate
         /\ session'.version = session.version
         /\ session'.state = "WRITING" => session'.received < PayloadBlocks
<1>1. rec \in Record /\ slots \in SlotImages /\ Promise(rec, slots) /\ session \in Session
  BY DEF IInv, TypeOK, InstallerTypeOK, SlotImages
<1>2. /\ rec.state = "WRITING"
      /\ session.candidate = rec.candidate_slot
      /\ session.candidate \in Slots
      /\ rec.active_slot # session.candidate
      /\ session.received < PayloadBlocks
  BY UnderWay DEF WriteBlock, IInv, SessionInv
<1> DEFINE s == received_block(session, good)
<1>3. /\ s \in Session
      /\ s.metadata = session.metadata /\ s.active = session.active
      /\ s.candidate = session.candidate /\ s.version = session.version
  <2>1. session.received + 1 \in 0..PayloadBlocks
    BY <1>1, <1>2, PayloadAssumption DEF Session
  <2>2. (session.genuine /\ good) \in BOOLEAN
    BY Zenon
  <2> DEFINE g == session.genuine /\ good
  <2> HIDE DEF g
  <2>3. s = [session EXCEPT !.received = session.received + 1, !.genuine = g]
    BY DEF received_block, g
  <2> QED
    BY <1>1, <2>1, <2>2, <2>3, Zenon DEF Session, g
<1> HIDE DEF s
<1>4. PICK w \in write_outcomes(s) :
        /\ slots' = [slots EXCEPT ![s.candidate] = w.image]
        /\ session' = [s EXCEPT !.state =
             IF ~w.ok THEN "FAILED"
             ELSE IF s.received = PayloadBlocks THEN "PAYLOAD_COMPLETE"
             ELSE "WRITING"]
  BY Zenon DEF WriteBlock, s
<1>5. w.image \in Image
  <2>1. CASE w = [image |-> slots[s.candidate], ok |-> TRUE]
    BY <2>1, <1>1, <1>2, <1>3 DEF SlotImages
  <2>2. CASE w \in flush_outcomes(s)
    BY <2>2, <1>1, <1>2, <1>3, FlushType
  <2> QED
    BY <2>1, <2>2 DEF write_outcomes
<1>6. slots' = [slots EXCEPT ![rec.candidate_slot] = w.image]
  BY <1>2, <1>3, <1>4
<1>7. slots' \in SlotImages /\ \A t \in Slots : t # rec.candidate_slot => slots'[t] = slots[t]
  BY <1>1, <1>5, <1>6, Zenon DEF SlotImages
<1>8. Promise(rec, slots')
  BY <1>1, <1>2, <1>5, <1>6, PromiseOverwrite, Zenon
<1> DEFINE st == IF ~w.ok THEN "FAILED"
                 ELSE IF s.received = PayloadBlocks THEN "PAYLOAD_COMPLETE"
                 ELSE "WRITING"
<1>9. /\ st \in {"WRITING", "PAYLOAD_COMPLETE", "FAILED"}
      /\ st = "WRITING" => s.received # PayloadBlocks
  OBVIOUS
<1>10. session' = [s EXCEPT !.state = st]
  BY <1>4
<1> HIDE DEF st
<1>11. /\ session' \in Session
       /\ session'.state = st /\ session'.received = s.received
       /\ session'.metadata = s.metadata /\ session'.active = s.active
       /\ session'.candidate = s.candidate /\ session'.version = s.version
  BY <1>3, <1>9, <1>10 DEF Session, SessionStates
<1>12. s.received \in 0..PayloadBlocks
  BY <1>3 DEF Session
<1> QED
  BY <1>2, <1>3, <1>7, <1>8, <1>9, <1>11, <1>12, PayloadAssumption DEF WriteBlock

\* finish: the candidate is published only if what is in its slot verifies with
\* the version the record names.
LEMMA FinishStep ==
  ASSUME IInv, Finish
  PROVE  /\ rec' \in Record /\ slots' \in SlotImages /\ session' \in Session
         /\ Promise(rec', slots')
         /\ rec' = rec \/ rec'.state = "CANDIDATE_READY"
         /\ rec'.active_slot = rec.active_slot
         /\ \A t \in Slots : slots'[t] # slots[t] => t # rec.active_slot
         /\ session'.state \in {"FINISHED", "FAILED"}
         /\ session'.state = "FINISHED" =>
              rec'.state = "CANDIDATE_READY" /\ rec'.candidate_slot = session'.candidate
<1>1. rec \in Record /\ slots \in SlotImages /\ Promise(rec, slots) /\ session \in Session
  BY DEF IInv, TypeOK, InstallerTypeOK, SlotImages
<1>2. /\ rec = session.metadata
      /\ rec.state = "WRITING"
      /\ session.active = rec.active_slot
      /\ session.candidate = rec.candidate_slot
      /\ session.version = rec.candidate_image_version
      /\ session.candidate \in Slots
      /\ rec.active_slot # session.candidate
  BY UnderWay DEF Finish
<1> DEFINE r == next_record(rec, "CANDIDATE_READY", rec.active_slot, rec.candidate_slot,
                            rec.candidate_image_version, 0, 0, 0)
<1>3. ready_record(session) = r
  BY <1>2 DEF ready_record
<1>4. PICK f \in flush_outcomes(session) :
        /\ slots' = [slots EXCEPT ![session.candidate] = f.image]
        /\ IF ~f.ok \/ ~finish_verifies(session, f.image)
             THEN session' = fail_session(session) /\ UNCHANGED rec
             ELSE \E c \in CommitOutcomes(rec, r) :
                    /\ rec' = c.rec
                    /\ session' = [session EXCEPT !.state =
                                     IF c.ok THEN "FINISHED" ELSE "FAILED"]
  BY <1>2, <1>3, Zenon DEF Finish
<1>5. f.image \in Image
  BY <1>1, <1>2, FlushType
<1>6. /\ slots' = [slots EXCEPT ![rec.candidate_slot] = f.image]
      /\ slots' \in SlotImages
      /\ slots'[rec.candidate_slot] = f.image
      /\ \A t \in Slots : t # rec.candidate_slot => slots'[t] = slots[t]
  BY <1>1, <1>2, <1>4, <1>5 DEF SlotImages
<1>7. Promise(rec, slots')
  BY <1>1, <1>2, <1>5, <1>6, PromiseOverwrite, Zenon
<1>8. CASE ~f.ok \/ ~finish_verifies(session, f.image)
  <2>1. session' = fail_session(session) /\ rec' = rec
    BY <1>4, <1>8
  <2>2. session' \in Session /\ session'.state = "FAILED"
    BY <1>1, <2>1 DEF fail_session, Session, SessionStates
  <2> QED
    BY <1>1, <1>2, <1>6, <1>7, <2>1, <2>2
<1>9. CASE ~(~f.ok \/ ~finish_verifies(session, f.image))
  <2>1. PICK c \in CommitOutcomes(rec, r) :
          /\ rec' = c.rec
          /\ session' = [session EXCEPT !.state = IF c.ok THEN "FINISHED" ELSE "FAILED"]
    BY <1>4, <1>9, Zenon
  <2>2. /\ c.rec = rec \/ (c.rec = r /\ validate_transition(rec, r) = "OK")
        /\ c.ok => c.rec = r
    BY Committed
  <2>3. image_verifies(slots'[rec.candidate_slot])
        /\ slots'[rec.candidate_slot].version = rec.candidate_image_version
    BY <1>2, <1>6, <1>9, Zenon DEF finish_verifies, verify_installed_package, manifest_matches_header
  <2>4. validate_transition(rec, r) = "OK" => Promise(r, slots')
    BY <1>1, <1>2, <1>6, <1>7, <2>3, PromiseReady, Zenon
  <2>5. validate_transition(rec, r) = "OK" => r \in Record
    <3>1. /\ "CANDIDATE_READY" \in States /\ 0 \in 0..(MAX_BOOT_ATTEMPTS + 1) /\ 0 \in 0..2
          /\ rec.active_slot \in SlotValues /\ rec.candidate_slot \in SlotValues
          /\ rec.candidate_image_version \in Versions \cup {0}
      BY <1>1 DEF States, MAX_BOOT_ATTEMPTS, Record
    <3> QED
      BY <1>1, <3>1, ResultAssumption, NextType
  <2>6. /\ r.state = "CANDIDATE_READY" /\ r.active_slot = rec.active_slot
        /\ r.candidate_slot = session.candidate
    BY <1>2 DEF next_record
  <2> DEFINE st == IF c.ok THEN "FINISHED" ELSE "FAILED"
  <2>7. st \in {"FINISHED", "FAILED"} /\ (st = "FINISHED" => c.ok)
    OBVIOUS
  <2>8. session' = [session EXCEPT !.state = st]
    BY <2>1
  <2> HIDE DEF st, r
  <2>9. session' \in Session /\ session'.state = st /\ session'.candidate = session.candidate
    BY <1>1, <2>7, <2>8 DEF Session, SessionStates
  <2> QED
    BY <1>1, <1>2, <1>6, <1>7, <2>1, <2>2, <2>4, <2>5, <2>6, <2>7, <2>9
<1> QED
  BY <1>8, <1>9

\* abort: the record is left alone or the candidate is rejected.
LEMMA AbortStep ==
  ASSUME IInv, Abort, session.state # "FINISHED"
  PROVE  /\ slots' = slots /\ rec' \in Record /\ session' \in Session
         /\ Promise(rec', slots')
         /\ rec' = rec \/ rec'.state = "REJECTED_INVALID"
         /\ rec'.active_slot = rec.active_slot
         /\ session'.state \in {"ABORTED", "FAILED"}
<1>1. rec \in Record /\ slots \in SlotImages /\ Promise(rec, slots) /\ session \in Session
  BY DEF IInv, TypeOK, InstallerTypeOK, SlotImages
<1>2. slots' = slots
  BY DEF Abort
<1>3. \A st \in {"ABORTED", "FAILED"} :
        LET s == [session EXCEPT !.state = st]
        IN  s \in Session /\ s.state = st
  BY <1>1 DEF Session, SessionStates
<1>4. CASE session.state = "ABORTED"
  BY <1>1, <1>2, <1>4 DEF Abort
<1>5. CASE session.state # "ABORTED" /\ ~session.metadata_writing_committed
  BY <1>1, <1>2, <1>3, <1>5, Zenon DEF Abort
<1>6. CASE session.state # "ABORTED" /\ session.metadata_writing_committed /\ abort_rejects(session)
  <2> DEFINE r == next_record(rec, "REJECTED_INVALID", rec.active_slot, session.candidate,
                              session.version, 0, 0, 0)
  <2>1. rejected_record(session) = r
    BY <1>6 DEF rejected_record, abort_rejects
  <2>2. PICK c \in CommitOutcomes(rec, r) :
          /\ rec' = c.rec
          /\ session' = [session EXCEPT !.state = IF c.ok THEN "ABORTED" ELSE "FAILED"]
    BY <1>6, <2>1, Zenon DEF Abort
  <2>3. c.rec = rec \/ (c.rec = r /\ validate_transition(rec, r) = "OK")
    BY Committed
  <2>4. validate_transition(rec, r) = "OK" => Promise(r, slots)
    BY <1>1, PromiseRejected, Zenon
  <2>5. validate_transition(rec, r) = "OK" => r \in Record
    <3>1. /\ "REJECTED_INVALID" \in States /\ 0 \in 0..(MAX_BOOT_ATTEMPTS + 1) /\ 0 \in 0..2
          /\ rec.active_slot \in SlotValues /\ session.candidate \in SlotValues
          /\ session.version \in Versions \cup {0}
      BY <1>1 DEF States, MAX_BOOT_ATTEMPTS, Record, Session
    <3> QED
      BY <1>1, <3>1, ResultAssumption, NextType
  <2>6. r.state = "REJECTED_INVALID" /\ r.active_slot = rec.active_slot
    BY DEF next_record
  <2> HIDE DEF r
  <2>7. session' \in Session /\ session'.state \in {"ABORTED", "FAILED"}
    BY <1>3, <2>2
  <2> QED
    BY <1>1, <1>2, <2>2, <2>3, <2>4, <2>5, <2>6, <2>7
<1>7. CASE session.state # "ABORTED" /\ session.metadata_writing_committed /\ ~abort_rejects(session)
  BY <1>1, <1>2, <1>3, <1>7, Zenon DEF Abort
<1> QED
  BY <1>4, <1>5, <1>6, <1>7

-----------------------------------------------------------------------------
(* The steps of the device.                                                *)

Idle == {"EMPTY", "INITIALIZED", "ABORTED", "FAILED"}

\* Outside an application and with no session under way, the invariant asks
\* only for the record's promise and the budget.
LEMMA Settled ==
  ASSUME IInv, TypeOK', Promise(rec', slots'), session'.state \in Idle, phase' # "run",
         trials' = trials, rec' = rec \/ rec'.state \in {"WRITING", "REJECTED_INVALID"}
  PROVE  IInv'
<1>1. trials' <= MAX_BOOT_ATTEMPTS
  BY DEF IInv, MAX_BOOT_ATTEMPTS
<1>2. TrialBudget'
  <2>1. CASE rec' = rec
    BY <2>1 DEF IInv, TrialBudget, OnTrial, MAX_BOOT_ATTEMPTS
  <2>2. CASE rec'.state \in {"WRITING", "REJECTED_INVALID"}
    BY <1>1, <2>2 DEF TrialBudget, OnTrial, MAX_BOOT_ATTEMPTS
  <2> QED
    BY <2>1, <2>2
<1>3. SessionInv'
  BY DEF SessionInv, SessionOwnsRecord, Idle
<1>4. Entitled'
  BY DEF Entitled, RunningIsEntitled
<1> QED
  BY <1>1, <1>2, <1>3, <1>4 DEF IInv

\* A reset keeps the invariant: flash stays, the session is gone.
LEMMA ResetStep ==
  ASSUME IInv, Reset PROVE IInv'
<1>1. /\ rec' = rec /\ slots' = slots /\ trials' = trials /\ session' = NoSession
      /\ phase' = "poll" /\ protocol' = "IDLE" /\ running' = BOOT_SLOT_NONE
      /\ recovery_mode' = FALSE /\ terminal' = FALSE
  BY DEF Reset, Restart
<1>2. TypeOK'
  <2>1. phase' \in Phases /\ protocol' \in ProtocolStates /\ running' \in SlotValues
    BY <1>1 DEF Phases, ProtocolStates, SlotValues
  <2> QED
    BY <1>1, <2>1, NoSessionType, Zenon DEF IInv, TypeOK, InstallerTypeOK
<1>3. Promise(rec', slots')
  BY <1>1 DEF IInv
<1>4. session'.state \in Idle /\ phase' # "run"
  BY <1>1 DEF NoSession, Idle
<1> QED
  BY <1>1, <1>2, <1>3, <1>4, Settled

\* Before the service is entered there is no session to lose.
LEMMA NotInService ==
  ASSUME IInv, phase # "session" \/ protocol \in {"IDLE", "BEGIN_FAILED"}
  PROVE  session.state \in Idle
BY DEF IInv, SessionInv, TypeOK, InstallerTypeOK, Session, SessionStates, Idle

\* The console's recovery command keeps the invariant.
LEMMA RequestRecoveryStep ==
  ASSUME IInv, RequestRecovery PROVE IInv'
<1>1. /\ rec' = rec /\ slots' = slots /\ session' = session /\ trials' = trials
      /\ phase = "poll" /\ phase' = "recovery" /\ protocol' = protocol /\ running' = running
      /\ recovery_mode' = recovery_mode /\ terminal' = terminal
  BY DEF RequestRecovery, journal
<1>2. TypeOK'
  <2>1. phase' \in Phases
    BY <1>1 DEF Phases
  <2> QED
    BY <1>1, <2>1, Zenon DEF IInv, TypeOK, InstallerTypeOK
<1>3. Promise(rec', slots')
  BY <1>1 DEF IInv
<1>4. session'.state \in Idle
  BY <1>1, NotInService
<1> QED
  BY <1>1, <1>2, <1>3, <1>4, Settled

\* Opening a session keeps the invariant.
LEMMA OpenSessionStep ==
  ASSUME IInv, OpenSession PROVE IInv'
<1>1. /\ rec' = rec /\ slots' = slots /\ session' = NoSession /\ trials' = trials
      /\ phase' = "session" /\ protocol' = "IDLE" /\ running' = running
      /\ recovery_mode' \in BOOLEAN /\ terminal' = terminal
  BY Zenon DEF OpenSession
<1>2. TypeOK'
  <2>1. phase' \in Phases /\ protocol' \in ProtocolStates
    BY <1>1 DEF Phases, ProtocolStates
  <2> QED
    BY <1>1, <2>1, NoSessionType, Zenon DEF IInv, TypeOK, InstallerTypeOK
<1>3. Promise(rec', slots')
  BY <1>1 DEF IInv
<1>4. session'.state \in Idle /\ phase' # "run"
  BY <1>1 DEF NoSession, Idle
<1> QED
  BY <1>1, <1>2, <1>3, <1>4, Settled

\* Returning from the service leads to the boot decision or to the recovery loop.
LEMMA Returned ==
  ASSUME BootContinue
  PROVE  phase' \in Phases /\ phase' # "run" /\ protocol' \in ProtocolStates
BY DEF BootContinue, Phases, ProtocolStates

\* A BEGIN that session_init refuses keeps the invariant.
LEMMA HandleBeginNoSessionStep ==
  ASSUME IInv, HandleBeginNoSession PROVE IInv'
<1>1. /\ rec' = rec /\ slots' = slots /\ session' = fail_session(NoSession)
      /\ trials' = trials /\ running' = running
      /\ recovery_mode' = recovery_mode /\ terminal' = terminal
  BY DEF HandleBeginNoSession, SessionInit, init_session, Stay
<1>2. session' \in Session /\ session'.state \in Idle
  BY <1>1, NoSessionType DEF fail_session, Session, SessionStates, Idle
<1>3. phase' \in Phases /\ phase' # "run" /\ protocol' \in ProtocolStates
  BY Returned DEF HandleBeginNoSession
<1>4. TypeOK'
  BY <1>1, <1>2, <1>3, Zenon DEF IInv, TypeOK, InstallerTypeOK
<1>5. Promise(rec', slots')
  BY <1>1 DEF IInv
<1> QED
  BY <1>1, <1>2, <1>3, <1>4, <1>5, Settled

\* BEGIN keeps the invariant: the session it starts owns the WRITING record.
LEMMA HandleBeginStep ==
  ASSUME IInv, NEW package \in Packages, HandleBegin(package) PROVE IInv'
<1>1. /\ phase = "session" /\ phase' = "session"
      /\ trials' = trials /\ running' = running
      /\ recovery_mode' = recovery_mode /\ terminal' = terminal
      /\ protocol' = IF session'.state = "WRITING" THEN "UPDATING" ELSE "BEGIN_FAILED"
  BY Zenon DEF HandleBegin, Handling, Stay
<1> DEFINE s == init_session(recovery_mode)
<1>2. /\ s \in Session /\ s.state = "INITIALIZED" /\ s.metadata = rec
      /\ s.active = rec.active_slot /\ s.candidate \in Slots
      /\ s.candidate # rec.active_slot /\ s.received = 0
  <2>1. recovery_mode \in BOOLEAN
    BY Zenon DEF IInv, TypeOK
  <2> QED
    BY <2>1, InitSession DEF HandleBegin
<1>3. Begin(s, package) /\ package \in Package
  BY SystemAssumption, Zenon DEF HandleBegin
<1> HIDE DEF s
<1>4. /\ rec' \in Record /\ slots' \in SlotImages /\ session' \in Session
      /\ Promise(rec', slots')
      /\ rec' = rec \/ rec'.state = "WRITING"
      /\ session'.state \in {"WRITING", "FAILED"}
      /\ session'.state = "WRITING" =>
           /\ rec' = session'.metadata
           /\ rec'.state = "WRITING"
           /\ rec'.candidate_slot = session'.candidate
           /\ rec'.candidate_image_version = session'.version
           /\ session'.active = rec'.active_slot
           /\ session'.candidate \in Slots
           /\ session'.received = 0
  BY <1>2, <1>3, BeginStep
<1>5. TypeOK'
  <2>1. phase' \in Phases /\ protocol' \in ProtocolStates
    BY <1>1, Zenon DEF Phases, ProtocolStates
  <2> QED
    BY <1>1, <1>4, <2>1, Zenon DEF IInv, TypeOK, InstallerTypeOK, SlotImages
<1>6. CASE session'.state = "FAILED"
  BY <1>1, <1>4, <1>5, <1>6, Settled DEF Idle
<1>7. CASE session'.state = "WRITING"
  <2>1. rec'.active_slot # session'.candidate
    BY <1>4, <1>7 DEF Promise, state_record_is_canonical, candidate_is_canonical, metadata_empty
  <2>2. SessionInv'
    BY <1>1, <1>4, <1>7, <2>1, PayloadAssumption DEF SessionInv, SessionOwnsRecord
  <2>3. trials' <= MAX_BOOT_ATTEMPTS /\ TrialBudget'
    BY <1>1, <1>4, <1>7 DEF IInv, TrialBudget, OnTrial, MAX_BOOT_ATTEMPTS
  <2>4. Entitled'
    BY <1>1 DEF Entitled, RunningIsEntitled
  <2> QED
    BY <1>4, <1>5, <2>2, <2>3, <2>4, Zenon DEF IInv
<1> QED
  BY <1>4, <1>6, <1>7

\* Every abort the service makes keeps the invariant.
LEMMA AbortKeeps ==
  ASSUME IInv, Abort, session.state # "FINISHED", Stay,
         phase' \in Phases, phase' # "run", protocol' \in ProtocolStates
  PROVE  IInv'
<1>1. /\ slots' = slots /\ rec' \in Record /\ session' \in Session
      /\ Promise(rec', slots')
      /\ rec' = rec \/ rec'.state = "REJECTED_INVALID"
      /\ session'.state \in {"ABORTED", "FAILED"}
  BY AbortStep
<1>2. /\ trials' = trials /\ running' = running
      /\ recovery_mode' = recovery_mode /\ terminal' = terminal
  BY DEF Stay
<1>3. TypeOK'
  BY <1>1, <1>2, Zenon DEF IInv, TypeOK, InstallerTypeOK
<1> QED
  BY <1>1, <1>2, <1>3, Settled DEF Idle

\* A session that has finished is in a service that has finished.
LEMMA NotFinished ==
  ASSUME IInv, protocol # "FINISHED"
  PROVE  session.state # "FINISHED"
BY DEF IInv, SessionInv

\* The abort after a failed BEGIN keeps the invariant.
LEMMA HandleBeginAbortStep ==
  ASSUME IInv, HandleBeginAbort PROVE IInv'
<1>1. /\ Abort /\ Stay /\ phase' = "session" /\ protocol' = "FAILED"
      /\ protocol = "BEGIN_FAILED"
  BY DEF HandleBeginAbort, Handling
<1>2. phase' \in Phases /\ phase' # "run" /\ protocol' \in ProtocolStates
  BY <1>1 DEF Phases, ProtocolStates
<1> QED
  BY <1>1, <1>2, NotFinished, AbortKeeps

\* ABORT_UPDATE keeps the invariant.
LEMMA HandleAbortStep ==
  ASSUME IInv, HandleAbort PROVE IInv'
<1>1. Abort /\ Stay /\ protocol = "UPDATING" /\ phase = "session"
  BY DEF HandleAbort, Handling
<1>2. phase' \in Phases /\ phase' # "run" /\ protocol' \in ProtocolStates
  BY <1>1, Returned DEF HandleAbort, Phases, ProtocolStates
<1> QED
  BY <1>1, <1>2, NotFinished, AbortKeeps

\* abort_started_installer keeps the invariant.
LEMMA ServiceAbortStep ==
  ASSUME IInv, ServiceAbort PROVE IInv'
<1>1. Abort /\ Stay /\ protocol # "FINISHED"
  BY DEF ServiceAbort, Handling
<1>2. phase' \in Phases /\ phase' # "run" /\ protocol' \in ProtocolStates
  BY Returned DEF ServiceAbort
<1> QED
  BY <1>1, <1>2, NotFinished, AbortKeeps

\* A session that ends before an update began keeps the invariant.
LEMMA SessionIdleEndsStep ==
  ASSUME IInv, SessionIdleEnds PROVE IInv'
<1>1. /\ rec' = rec /\ slots' = slots /\ session' = session /\ trials' = trials
      /\ running' = running /\ recovery_mode' = recovery_mode /\ terminal' = terminal
      /\ protocol = "IDLE"
  BY DEF SessionIdleEnds, journal, Stay, Handling
<1>2. phase' \in Phases /\ phase' # "run" /\ protocol' \in ProtocolStates
  BY Returned DEF SessionIdleEnds
<1>3. TypeOK'
  BY <1>1, <1>2, Zenon DEF IInv, TypeOK, InstallerTypeOK
<1>4. Promise(rec', slots')
  BY <1>1 DEF IInv
<1>5. session'.state \in Idle
  BY <1>1, NotInService
<1> QED
  BY <1>1, <1>2, <1>3, <1>4, <1>5, Settled

\* A step of the service that only changes what the service thinks of the
\* session keeps the invariant.
LEMMA ProtocolOnly ==
  ASSUME IInv, phase = "session", protocol \in {"IDLE", "UPDATING"},
         UNCHANGED <<journal, phase>>, Stay, protocol' \in {"FAILED", "RESET_REQUESTED"}
  PROVE  IInv'
<1>1. /\ rec' = rec /\ slots' = slots /\ session' = session /\ trials' = trials
      /\ running' = running /\ recovery_mode' = recovery_mode /\ terminal' = terminal
      /\ phase' = "session"
  BY DEF journal, Stay
<1>2. TypeOK'
  <2>1. phase' \in Phases /\ protocol' \in ProtocolStates
    BY <1>1, Zenon DEF Phases, ProtocolStates
  <2> QED
    BY <1>1, <2>1, Zenon DEF IInv, TypeOK, InstallerTypeOK
<1>3. SessionInv'
  BY <1>1 DEF IInv, SessionInv, SessionOwnsRecord
<1>4. Promise(rec', slots') /\ trials' <= MAX_BOOT_ATTEMPTS /\ TrialBudget'
  BY <1>1, Zenon DEF IInv, TrialBudget, OnTrial, MAX_BOOT_ATTEMPTS
<1>5. Entitled'
  BY <1>1 DEF Entitled, RunningIsEntitled
<1> QED
  BY <1>2, <1>3, <1>4, <1>5 DEF IInv

\* A block with a wrong offset keeps the invariant.
LEMMA HandleWriteWrongOffsetStep ==
  ASSUME IInv, HandleWriteWrongOffset PROVE IInv'
BY ProtocolOnly DEF HandleWriteWrongOffset, Handling

\* A RESET frame keeps the invariant.
LEMMA HandleResetStep ==
  ASSUME IInv, HandleReset PROVE IInv'
BY ProtocolOnly DEF HandleReset, Handling

\* A session that fails without touching flash.
LEMMA FailedOnly ==
  ASSUME IInv, session' = fail_session(session), UNCHANGED <<rec, slots>>, Stay,
         phase' = "session", protocol' = "FAILED"
  PROVE  IInv'
<1>1. /\ rec' = rec /\ slots' = slots /\ trials' = trials
      /\ running' = running /\ recovery_mode' = recovery_mode /\ terminal' = terminal
  BY DEF Stay
<1>2. session' \in Session /\ session'.state = "FAILED"
  BY DEF IInv, TypeOK, InstallerTypeOK, fail_session, Session, SessionStates
<1>3. TypeOK'
  <2>1. phase' \in Phases /\ protocol' \in ProtocolStates
    BY DEF Phases, ProtocolStates
  <2> QED
    BY <1>1, <1>2, <2>1, Zenon DEF IInv, TypeOK, InstallerTypeOK
<1>4. Promise(rec', slots')
  BY <1>1 DEF IInv
<1> QED
  BY <1>1, <1>2, <1>3, <1>4, Settled DEF Idle

\* WRITE_BLOCK keeps the invariant.
LEMMA HandleWriteStep ==
  ASSUME IInv, HandleWrite PROVE IInv'
<1>1. /\ phase = "session" /\ phase' = "session" /\ protocol = "UPDATING"
      /\ trials' = trials /\ running' = running
      /\ recovery_mode' = recovery_mode /\ terminal' = terminal
      /\ protocol' = IF session'.state = "FAILED" THEN "FAILED" ELSE "UPDATING"
  BY DEF HandleWrite, Handling, Stay
<1>2. CASE WriteOutOfSequence
  <2>1. session'.state = "FAILED"
    BY <1>2 DEF WriteOutOfSequence, fail_session, IInv, TypeOK, InstallerTypeOK, Session
  <2> QED
    BY <1>1, <1>2, <2>1, FailedOnly DEF WriteOutOfSequence, Stay
<1>3. CASE \E good \in BOOLEAN : WriteBlock(good)
  <2>1. PICK good \in BOOLEAN : WriteBlock(good)
    BY <1>3
  <2>2. /\ rec' = rec /\ slots' \in SlotImages /\ session' \in Session
        /\ Promise(rec', slots')
        /\ session'.state \in {"WRITING", "PAYLOAD_COMPLETE", "FAILED"}
        /\ session'.metadata = session.metadata
        /\ session'.active = session.active
        /\ session'.candidate = session.candidate
        /\ session'.version = session.version
        /\ session'.state = "WRITING" => session'.received < PayloadBlocks
    BY <2>1, WriteStep
  <2>3. TypeOK'
    <3>1. phase' \in Phases /\ protocol' \in ProtocolStates
      BY <1>1, Zenon DEF Phases, ProtocolStates
    <3>2. rec' \in Record
      BY <2>2, Zenon DEF IInv, TypeOK, InstallerTypeOK
    <3> QED
      BY <1>1, <2>2, <3>1, <3>2, Zenon DEF IInv, TypeOK, InstallerTypeOK, SlotImages
  <2>4. SessionInv'
    <3>1. session.state = "WRITING"
      BY <2>1 DEF WriteBlock
    <3>2. session.state \in {"WRITING", "PAYLOAD_COMPLETE"}
      BY <3>1, Zenon
    <3>3. /\ rec' = session'.metadata
          /\ rec'.state = "WRITING"
          /\ session'.active = rec'.active_slot
          /\ rec'.candidate_slot = session'.candidate
          /\ rec'.candidate_image_version = session'.version
          /\ session'.candidate \in Slots
          /\ rec'.active_slot # session'.candidate
      BY <2>2, <3>2, UnderWay, Zenon
    <3> QED
      BY <1>1, <2>2, <3>3 DEF SessionInv, SessionOwnsRecord
  <2>5. trials' <= MAX_BOOT_ATTEMPTS /\ TrialBudget'
    BY <1>1, <2>2, Zenon DEF IInv, TrialBudget, OnTrial, MAX_BOOT_ATTEMPTS
  <2>6. Entitled'
    BY <1>1 DEF Entitled, RunningIsEntitled
  <2> QED
    BY <2>2, <2>3, <2>4, <2>5, <2>6 DEF IInv
<1> QED
  BY <1>2, <1>3 DEF HandleWrite

\* FINISH_UPDATE keeps the invariant; a candidate that becomes ready has not
\* been started yet.
LEMMA HandleFinishStep ==
  ASSUME IInv, HandleFinish PROVE IInv'
<1>1. /\ phase = "session" /\ phase' = "session" /\ protocol = "UPDATING"
      /\ running' = running /\ recovery_mode' = recovery_mode /\ terminal' = terminal
      /\ protocol' = IF session'.state = "FAILED" THEN "FAILED" ELSE "FINISHED"
      /\ trials' = IF rec'.state = "CANDIDATE_READY" THEN 0 ELSE trials
  BY DEF HandleFinish, Handling
<1>2. CASE FinishEarly
  <2>1. session.state \in {"WRITING", "PAYLOAD_COMPLETE"} /\ rec' = rec
    BY <1>2 DEF FinishEarly
  <2>2. rec'.state = "WRITING"
    BY <2>1, UnderWay, Zenon
  <2>3. session'.state = "FAILED"
    BY <1>2, Zenon DEF FinishEarly, fail_session, IInv, TypeOK, InstallerTypeOK, Session
  <2> QED
    BY <1>1, <1>2, <2>2, <2>3, FailedOnly DEF FinishEarly, Stay
<1>3. CASE Finish
  <2>1. /\ rec' \in Record /\ slots' \in SlotImages /\ session' \in Session
        /\ Promise(rec', slots')
        /\ rec' = rec \/ rec'.state = "CANDIDATE_READY"
        /\ session'.state \in {"FINISHED", "FAILED"}
        /\ session'.state = "FINISHED" =>
             rec'.state = "CANDIDATE_READY" /\ rec'.candidate_slot = session'.candidate
    BY <1>3, FinishStep
  <2>2. rec.state = "WRITING"
    BY <1>3, UnderWay DEF Finish
  <2>3. trials \in 0..(MAX_BOOT_ATTEMPTS + 1) /\ trials <= MAX_BOOT_ATTEMPTS
    BY DEF IInv, TypeOK
  <2>4. /\ trials' \in 0..(MAX_BOOT_ATTEMPTS + 1) /\ trials' <= MAX_BOOT_ATTEMPTS
        /\ rec'.state = "CANDIDATE_READY" => trials' = 0
    BY <1>1, <2>3 DEF MAX_BOOT_ATTEMPTS
  <2>5. TypeOK'
    <3>1. phase' \in Phases /\ protocol' \in ProtocolStates
      BY <1>1, Zenon DEF Phases, ProtocolStates
    <3> QED
      BY <1>1, <2>1, <2>4, <3>1, Zenon DEF IInv, TypeOK, InstallerTypeOK, SlotImages
  <2>6. TrialBudget'
    BY <2>1, <2>2, <2>4, Zenon DEF TrialBudget, OnTrial
  <2>7. SessionInv'
    BY <1>1, <2>1 DEF SessionInv, SessionOwnsRecord
  <2>8. Entitled'
    BY <1>1 DEF Entitled, RunningIsEntitled
  <2> QED
    BY <2>1, <2>4, <2>5, <2>6, <2>7, <2>8, Zenon DEF IInv
<1> QED
  BY <1>2, <1>3 DEF HandleFinish

\* Starting the active image, or recovery without one, keeps the invariant
\* whatever a failed or best-effort commit has left in the journal.
LEMMA BootActiveKeeps ==
  ASSUME IInv, BootActive, rec' \in Record, Promise(rec', slots),
         rec'.active_slot = rec.active_slot,
         \/ rec' = rec
         \/ rec'.state = "REJECTED_INVALID"
         \/ rec'.state = "PENDING_TRIAL" /\ trials + rec'.boot_attempt_count <= MAX_BOOT_ATTEMPTS
  PROVE  IInv'
<1>0. /\ slots' = slots /\ session' = NoSession /\ trials' = trials
      /\ recovery_mode' = recovery_mode /\ protocol' = protocol
  BY Zenon DEF BootActive, Jump, EnterRecovery
<1>1. /\ slots' = slots /\ session' = NoSession /\ session'.state = "EMPTY" /\ trials' = trials
      /\ recovery_mode' = recovery_mode /\ protocol' = protocol
  <2>1. NoSession.state = "EMPTY"
    BY DEF NoSession
  <2> QED
    BY <1>0, <2>1, Zenon
<1>2. \/ /\ phase' = "run" /\ terminal' = FALSE
         /\ running' = rec.active_slot
         /\ rec.active_slot # BOOT_SLOT_NONE /\ image_verifies(slots[rec.active_slot])
      \/ phase' = "recovery" /\ running' = running /\ terminal' = terminal
  BY Zenon DEF BootActive, Jump, EnterRecovery
<1>3. phase' \in Phases /\ running' \in SlotValues /\ terminal' \in BOOLEAN
  <2>1. phase' \in Phases
    BY <1>2, Zenon DEF Phases
  <2>2. running' \in SlotValues
    BY <1>2 DEF IInv, TypeOK, InstallerTypeOK, Record
  <2>3. terminal' \in BOOLEAN
    BY <1>2, Zenon DEF IInv, TypeOK
  <2> QED
    BY <2>1, <2>2, <2>3
<1>4. TypeOK'
  BY <1>1, <1>3, NoSessionType, Zenon DEF IInv, TypeOK, InstallerTypeOK
<1>5. trials' <= MAX_BOOT_ATTEMPTS
  BY <1>1, Zenon DEF IInv, MAX_BOOT_ATTEMPTS
<1>6. TrialBudget'
  <2>1. CASE rec' = rec
    BY <1>1, <2>1 DEF IInv, TrialBudget, OnTrial, MAX_BOOT_ATTEMPTS
  <2>2. CASE rec'.state = "REJECTED_INVALID"
    BY <1>5, <2>2 DEF TrialBudget, OnTrial
  <2>3. CASE rec'.state = "PENDING_TRIAL" /\ trials + rec'.boot_attempt_count <= MAX_BOOT_ATTEMPTS
    BY <1>1, <1>5, <2>3, Zenon DEF TrialBudget, OnTrial, MAX_BOOT_ATTEMPTS
  <2> QED
    BY <2>1, <2>2, <2>3
<1>7. SessionInv'
  BY <1>1 DEF SessionInv, SessionOwnsRecord
<1>8. Entitled'
  BY <1>1, <1>2 DEF Entitled, RunningIsEntitled
<1>9. Promise(rec', slots')
  BY <1>1
<1> QED
  BY <1>4, <1>5, <1>6, <1>7, <1>8, <1>9 DEF IInv

\* Booting by a CONFIRMED, WRITING or REJECTED_INVALID record.
LEMMA SelectStableStep ==
  ASSUME IInv, SelectStable PROVE IInv'
<1>1. rec' = rec /\ rec' \in Record /\ Promise(rec', slots) /\ BootActive
  BY DEF SelectStable, IInv, TypeOK, InstallerTypeOK
<1> QED
  BY <1>1, BootActiveKeeps

\* Booting without a record.
LEMMA SelectNothingStep ==
  ASSUME IInv, SelectNothing PROVE IInv'
<1>1. /\ rec' = rec /\ slots' = slots /\ session' = NoSession /\ trials' = trials
      /\ phase' = "recovery" /\ protocol' = protocol /\ running' = running
      /\ recovery_mode' = recovery_mode /\ terminal' = terminal
  BY DEF SelectNothing, EnterRecovery
<1>2. TypeOK'
  <2>1. phase' \in Phases
    BY <1>1 DEF Phases
  <2> QED
    BY <1>1, <2>1, NoSessionType, Zenon DEF IInv, TypeOK, InstallerTypeOK
<1>3. Promise(rec', slots')
  BY <1>1, Zenon DEF IInv
<1>4. session'.state \in Idle /\ phase' # "run"
  BY <1>1 DEF NoSession, Idle
<1> QED
  BY <1>1, <1>2, <1>3, <1>4, Settled

\* A best-effort rejection, with or without effect, keeps the promise.
LEMMA RejectKeeps ==
  ASSUME IInv, NEW result \in Results, RejectBestEffort(result)
  PROVE  /\ rec' \in Record /\ Promise(rec', slots)
         /\ rec'.active_slot = rec.active_slot
         /\ rec' = rec \/ rec'.state = "REJECTED_INVALID"
<1>1. rec \in Record /\ slots \in SlotImages /\ Promise(rec, slots)
  BY DEF IInv, TypeOK, InstallerTypeOK, SlotImages
<1> DEFINE r == next_record(rec, "REJECTED_INVALID", rec.active_slot, rec.candidate_slot,
                            rec.candidate_image_version, 0, 0, result)
<1>2. PICK c \in CommitOutcomes(rec, r) : rec' = c.rec
  BY Zenon DEF RejectBestEffort, commit_next
<1>3. c.rec = rec \/ (c.rec = r /\ validate_transition(rec, r) = "OK")
  BY Committed
<1>4. validate_transition(rec, r) = "OK" => Promise(r, slots)
  BY <1>1, PromiseRejected, Zenon
<1>5. validate_transition(rec, r) = "OK" => r \in Record
  <2>1. /\ "REJECTED_INVALID" \in States /\ 0 \in 0..(MAX_BOOT_ATTEMPTS + 1) /\ 0 \in 0..2
        /\ rec.active_slot \in SlotValues /\ rec.candidate_slot \in SlotValues
        /\ rec.candidate_image_version \in Versions \cup {0}
    BY <1>1 DEF States, MAX_BOOT_ATTEMPTS, Record
  <2> QED
    BY <1>1, <2>1, NextType, Zenon
<1>6. r.state = "REJECTED_INVALID" /\ r.active_slot = rec.active_slot
  BY DEF next_record
<1> HIDE DEF r
<1> QED
  BY <1>1, <1>2, <1>3, <1>4, <1>5, <1>6, Zenon

\* Rejecting a candidate that does not verify keeps the invariant.
LEMMA SelectTrialInvalidStep ==
  ASSUME IInv, SelectTrialInvalid PROVE IInv'
<1>1. RESULT_CANDIDATE_VERIFY_FAILED \in Results
  BY SystemAssumption
<1> QED
  BY <1>1, RejectKeeps, BootActiveKeeps DEF SelectTrialInvalid

\* Rejecting a candidate that used up its attempts keeps the invariant.
LEMMA SelectTrialExhaustedStep ==
  ASSUME IInv, SelectTrialExhausted PROVE IInv'
<1>1. RESULT_ATTEMPTS_EXHAUSTED \in Results
  BY SystemAssumption, Zenon
<1> QED
  BY <1>1, RejectKeeps, BootActiveKeeps DEF SelectTrialExhausted

\* A trial is started only with the attempt paid for, and otherwise costs the
\* candidate at most an attempt it did not get.
LEMMA SelectTrialStep ==
  ASSUME IInv, SelectTrial PROVE IInv'
<1>1. rec \in Record /\ slots \in SlotImages /\ Promise(rec, slots)
      /\ rec.boot_attempt_count \in 0..(MAX_BOOT_ATTEMPTS + 1)
      /\ trials \in 0..(MAX_BOOT_ATTEMPTS + 1)
  BY Zenon DEF IInv, TypeOK, InstallerTypeOK, SlotImages, Record
<1>2. /\ rec.state \in {"CANDIDATE_READY", "PENDING_TRIAL"}
      /\ rec.state = "PENDING_TRIAL" => rec.boot_attempt_count > 0
      /\ rec.state = "CANDIDATE_READY" => trials = 0
      /\ rec.state = "PENDING_TRIAL" => trials + rec.boot_attempt_count <= MAX_BOOT_ATTEMPTS
  BY DEF SelectTrial, OnTrial, IInv, TrialBudget
<1>3. PICK result \in TrialResults : \E c \in CommitOutcomes(rec, trial_record(result)) :
        /\ rec' = c.rec
        /\ IF c.ok THEN Jump(rec.candidate_slot) /\ trials' = trials + 1 ELSE BootActive
  BY Zenon DEF SelectTrial, commit_next
<1> DEFINE r == next_record(rec, "PENDING_TRIAL", rec.active_slot, rec.candidate_slot,
                            rec.candidate_image_version, next_attempts, 0, result)
<1>4. PICK c \in CommitOutcomes(rec, r) :
        /\ rec' = c.rec
        /\ IF c.ok THEN Jump(rec.candidate_slot) /\ trials' = trials + 1 ELSE BootActive
  BY <1>3 DEF trial_record
<1>5. /\ c.rec = rec \/ (c.rec = r /\ validate_transition(rec, r) = "OK")
      /\ c.ok => c.rec = r /\ validate_transition(rec, r) = "OK"
  BY Committed, Zenon
<1>6. validate_transition(rec, r) = "OK" => Promise(r, slots)
  <2>1. rec \in Record /\ slots \in SlotImages /\ Promise(rec, slots)
    BY <1>1, Zenon
  <2>2. rec.state \in {"CANDIDATE_READY", "PENDING_TRIAL"}
    BY <1>2
  <2> QED
    BY <2>1, <2>2, PromiseTrial
<1>7. /\ next_attempts \in 0..(MAX_BOOT_ATTEMPTS + 1)
      /\ trials + 1 + next_attempts <= MAX_BOOT_ATTEMPTS
      /\ trials + 1 \in 0..(MAX_BOOT_ATTEMPTS + 1)
      /\ trials + 1 <= MAX_BOOT_ATTEMPTS
      /\ trials + next_attempts <= MAX_BOOT_ATTEMPTS
  BY <1>1, <1>2 DEF next_attempts, MAX_BOOT_ATTEMPTS
<1>8. validate_transition(rec, r) = "OK" => r \in Record
  <2>1. /\ "PENDING_TRIAL" \in States /\ 0 \in 0..2
        /\ rec.active_slot \in SlotValues /\ rec.candidate_slot \in SlotValues
        /\ rec.candidate_image_version \in Versions \cup {0}
        /\ result \in Results
    BY <1>1, SystemAssumption DEF States, Record
  <2> QED
    BY <1>1, <1>7, <2>1, NextType, Zenon
<1>9. /\ r.state = "PENDING_TRIAL" /\ r.active_slot = rec.active_slot
      /\ r.candidate_slot = rec.candidate_slot /\ r.boot_attempt_count = next_attempts
  BY DEF next_record
<1> HIDE DEF r
<1>10. CASE ~c.ok
  <2>1. BootActive /\ rec' = c.rec
    BY <1>4, <1>10, Zenon
  <2>2. rec' \in Record /\ Promise(rec', slots) /\ rec'.active_slot = rec.active_slot
    BY <1>1, <1>5, <1>6, <1>8, <1>9, <2>1, Zenon
  <2>3. \/ rec' = rec
        \/ rec'.state = "PENDING_TRIAL" /\ trials + rec'.boot_attempt_count <= MAX_BOOT_ATTEMPTS
    BY <1>5, <1>7, <1>9, <2>1
  <2> QED
    BY <2>1, <2>2, <2>3, BootActiveKeeps, Zenon
<1>11. CASE c.ok
  <2>1. rec' = r /\ r \in Record /\ Promise(r, slots)
    BY <1>4, <1>5, <1>6, <1>8, <1>11
  <2>2. Jump(rec.candidate_slot) /\ trials' = trials + 1
    BY <1>4, <1>11, Zenon
  <2>3. /\ slots' = slots /\ session' = NoSession /\ session'.state = "EMPTY"
        /\ recovery_mode' = recovery_mode /\ protocol' = protocol
        /\ phase' = "run" /\ running' = rec.candidate_slot /\ terminal' = FALSE
    BY <2>2 DEF Jump, NoSession
  <2>4. TypeOK'
    <3>1. phase' \in Phases /\ running' \in SlotValues
      BY <1>1, <2>3 DEF Phases, Record
    <3>2. trials' \in 0..(MAX_BOOT_ATTEMPTS + 1)
      BY <1>7, <2>2, Zenon
    <3> QED
      BY <2>1, <2>3, <3>1, <3>2, NoSessionType, Zenon DEF IInv, TypeOK, InstallerTypeOK
  <2>5. Promise(rec', slots')
    BY <2>1, <2>3, Zenon
  <2>6. trials' <= MAX_BOOT_ATTEMPTS /\ TrialBudget'
    BY <1>7, <1>9, <2>1, <2>2, Zenon DEF TrialBudget, OnTrial
  <2>7. SessionInv'
    BY <2>3 DEF SessionInv, SessionOwnsRecord
  <2>8. Entitled'
    <3>1. RunningIsEntitled'
      BY <1>9, <2>1, <2>3, Zenon DEF RunningIsEntitled, SelectTrial, candidate_verifies
    <3>2. trials' > 0
      BY <1>1, <2>2 DEF MAX_BOOT_ATTEMPTS
    <3> QED
      BY <3>1, <3>2, Zenon DEF Entitled
  <2> QED
    BY <2>4, <2>5, <2>6, <2>7, <2>8, Zenon DEF IInv
<1> QED
  BY <1>10, <1>11, Zenon

\* The running candidate takes over from the active image, or nothing changes.
LEMMA ConfirmStep ==
  ASSUME IInv, Confirm PROVE IInv'
<1>1. rec \in Record /\ slots \in SlotImages /\ Promise(rec, slots) /\ running \in SlotValues
  BY DEF IInv, TypeOK, InstallerTypeOK, SlotImages
<1>2. /\ phase = "run" /\ phase' = "run" /\ terminal' = TRUE
      /\ slots' = slots /\ session' = session /\ running' = running /\ trials' = trials
      /\ recovery_mode' = recovery_mode /\ protocol' = protocol
  BY DEF Confirm
<1>3. session'.state \in Idle
  BY <1>2, NotInService
<1>4. trials' <= MAX_BOOT_ATTEMPTS
  BY <1>2, Zenon DEF IInv, MAX_BOOT_ATTEMPTS
<1>5. SessionInv'
  BY <1>3, Zenon DEF SessionInv, SessionOwnsRecord, Idle
<1> DEFINE r == next_record(rec, "CONFIRMED", rec.candidate_slot, BOOT_SLOT_NONE,
                            rec.candidate_image_version, 0, 1, 0)
<1>6. \/ rec' = rec
      \/ /\ rec.state = "PENDING_TRIAL" /\ running = rec.candidate_slot
         /\ rec' = r /\ validate_transition(rec, r) = "OK"
  <2>1. CASE ~metadata_allows_confirmation
    BY <2>1, Zenon DEF Confirm
  <2>2. CASE metadata_allows_confirmation
    <3>1. rec.state = "PENDING_TRIAL" /\ running = rec.candidate_slot
      BY <2>2 DEF metadata_allows_confirmation
    <3>2. application_confirmed_record = r
      BY <3>1, Zenon DEF application_confirmed_record
    <3>3. PICK c \in CommitOutcomes(rec, r) : rec' = c.rec
      BY <2>2, <3>2 DEF Confirm
    <3>4. c.rec = rec \/ (c.rec = r /\ validate_transition(rec, r) = "OK")
      BY Committed
    <3> QED
      BY <3>1, <3>3, <3>4
  <2> QED
    BY <2>1, <2>2, Zenon
<1>7. CASE rec' = rec
  <2>1. TypeOK'
    BY <1>2, <1>7, Zenon DEF IInv, TypeOK, InstallerTypeOK
  <2>2. TrialBudget' /\ Entitled' /\ Promise(rec', slots')
    BY <1>2, <1>7 DEF IInv, TrialBudget, OnTrial, Entitled, RunningIsEntitled, MAX_BOOT_ATTEMPTS
  <2> QED
    BY <1>4, <1>5, <2>1, <2>2 DEF IInv
<1>8. CASE /\ rec.state = "PENDING_TRIAL" /\ running = rec.candidate_slot
           /\ rec' = r /\ validate_transition(rec, r) = "OK"
  <2>1. r \in Record
    <3>1. /\ "CONFIRMED" \in States /\ 0 \in 0..(MAX_BOOT_ATTEMPTS + 1) /\ 1 \in 0..2
          /\ rec.candidate_slot \in SlotValues /\ BOOT_SLOT_NONE \in SlotValues
          /\ rec.candidate_image_version \in Versions \cup {0}
      BY <1>1 DEF States, MAX_BOOT_ATTEMPTS, Record, SlotValues
    <3> QED
      BY <1>1, <1>8, <3>1, ResultAssumption, NextType, Zenon
  <2>2. Promise(r, slots)
    BY <1>1, <1>8, PromiseConfirmed
  <2>3. r.state = "CONFIRMED" /\ r.active_slot = rec.candidate_slot
    BY DEF next_record
  <2> HIDE DEF r
  <2>4. TypeOK'
    BY <1>2, <1>8, <2>1, Zenon DEF IInv, TypeOK, InstallerTypeOK
  <2>5. TrialBudget'
    BY <1>8, <2>3, Zenon DEF TrialBudget, OnTrial
  <2>6. Entitled'
    BY <1>2, <1>8, <2>3 DEF IInv, Entitled, RunningIsEntitled
  <2> QED
    BY <1>2, <1>4, <1>5, <1>8, <2>2, <2>4, <2>5, <2>6, Zenon DEF IInv
<1> QED
  BY <1>6, <1>7, <1>8

-----------------------------------------------------------------------------
(* The theorems.                                                           *)

\* Every step of the device keeps the invariant.
LEMMA NextInv == IInv /\ [Next]_vars => IInv'
<1> SUFFICES ASSUME IInv, [Next]_vars PROVE IInv'
  OBVIOUS
<1>1. CASE UNCHANGED vars
  <2>1. /\ rec' = rec /\ slots' = slots /\ session' = session /\ phase' = phase
        /\ recovery_mode' = recovery_mode /\ protocol' = protocol /\ running' = running
        /\ terminal' = terminal /\ trials' = trials
    BY <1>1, Zenon DEF vars
  <2>2. TypeOK'
    BY <2>1, Zenon DEF IInv, TypeOK, InstallerTypeOK
  <2>3. SessionInv'
    BY <2>1, Zenon DEF IInv, SessionInv, SessionOwnsRecord
  <2>4. Promise(rec', slots') /\ trials' <= MAX_BOOT_ATTEMPTS /\ TrialBudget' /\ Entitled'
    BY <2>1 DEF IInv, TrialBudget, OnTrial, Entitled, RunningIsEntitled, MAX_BOOT_ATTEMPTS
  <2> QED
    BY <2>2, <2>3, <2>4 DEF IInv
<1>2. CASE Reset
  BY <1>2, ResetStep
<1>3. CASE RequestRecovery
  BY <1>3, RequestRecoveryStep, Zenon
<1>4. CASE Service
  BY <1>4, OpenSessionStep, HandleBeginNoSessionStep, HandleBeginStep, HandleBeginAbortStep,
     HandleWriteStep, HandleWriteWrongOffsetStep, HandleFinishStep, HandleAbortStep,
     SessionIdleEndsStep, ServiceAbortStep, HandleResetStep DEF Service
<1>5. CASE Select
  BY <1>5, SelectStableStep, SelectNothingStep, SelectTrialInvalidStep,
     SelectTrialExhaustedStep, SelectTrialStep DEF Select
<1>6. CASE Confirm
  BY <1>6, ConfirmStep
<1> QED
  BY <1>1, <1>2, <1>3, <1>4, <1>5, <1>6 DEF Next

\* The inductive invariant holds in every reachable state of the device, for
\* every payload, buffer and counter size and every set of versions and packages.
THEOREM SystemInvariant == Spec => []IInv
BY InitInv, NextInv, PTL DEF Spec

\* Every variable of the device keeps its type.
THEOREM SystemType == Spec => []TypeOK
<1>1. IInv => TypeOK
  BY DEF IInv
<1> QED
  BY <1>1, SystemInvariant, PTL

\* What the metadata promises is in flash: the active image boots, and so does a
\* candidate that is ready or on trial, with the version recorded for it.
THEOREM SystemMatchesFlash == Spec => []MetadataMatchesFlash
<1>1. IInv => MetadataMatchesFlash
  BY DEF IInv, Promise, MetadataMatchesFlash, OnTrial, candidate_verifies
<1> QED
  BY <1>1, SystemInvariant, PTL

\* No candidate is started more than three times, and each start was paid for.
THEOREM SystemTrialBudget == Spec => []TrialBudget
<1>1. IInv => TrialBudget
  BY DEF IInv
<1> QED
  BY <1>1, SystemInvariant, PTL

\* The application that runs verifies and is entitled to run.
THEOREM SystemEntitled == Spec => []RunningIsEntitled
<1>1. IInv => RunningIsEntitled
  BY Zenon DEF IInv, Entitled
<1> QED
  BY <1>1, SystemInvariant, PTL

\* The session under way and the journal agree on the update.
THEOREM SystemSessionOwns == Spec => []SessionOwnsRecord
<1>1. IInv => SessionOwnsRecord
  BY Zenon DEF IInv, SessionInv
<1> QED
  BY <1>1, SystemInvariant, PTL

-----------------------------------------------------------------------------
(* What a step may never do.                                               *)

\* Every step but a confirmation leaves the active slot and the image in it
\* alone, and confirms nothing.
LEMMA OtherSteps ==
  ASSUME IInv, Next, ~Confirm
  PROVE  /\ rec'.active_slot = rec.active_slot
         /\ rec.active_slot # BOOT_SLOT_NONE => slots'[rec.active_slot] = slots[rec.active_slot]
         /\ rec.state # "CONFIRMED" => rec'.state # "CONFIRMED"
<1>0. rec.active_slot # BOOT_SLOT_NONE => rec.active_slot \in Slots
  BY DEF IInv, TypeOK, InstallerTypeOK, Record, SlotValues
<1>1. CASE Reset \/ RequestRecovery \/ OpenSession \/ HandleBeginNoSession
           \/ HandleWriteWrongOffset \/ SessionIdleEnds \/ HandleReset
  <2>1. rec' = rec /\ slots' = slots
    BY <1>1, Zenon DEF Reset, RequestRecovery, OpenSession, HandleBeginNoSession, SessionInit,
       HandleWriteWrongOffset, SessionIdleEnds, HandleReset, journal
  <2> QED
    BY <2>1, Zenon
<1>2. CASE \E package \in Packages : HandleBegin(package)
  <2>1. PICK package \in Packages : HandleBegin(package)
    BY <1>2
  <2>2. package \in Package /\ recovery_mode \in BOOLEAN
    BY SystemAssumption, Zenon DEF IInv, TypeOK
  <2> DEFINE s == init_session(recovery_mode)
  <2>3. /\ s \in Session /\ s.state = "INITIALIZED" /\ s.metadata = rec
        /\ s.active = rec.active_slot /\ s.candidate \in Slots
        /\ s.candidate # rec.active_slot /\ s.received = 0
    BY <2>1, <2>2, InitSession DEF HandleBegin
  <2>4. Begin(s, package)
    BY <2>1, Zenon DEF HandleBegin
  <2> HIDE DEF s
  <2>5. /\ rec' = rec \/ rec'.state = "WRITING"
        /\ rec'.active_slot = rec.active_slot
        /\ \A t \in Slots : slots'[t] # slots[t] => t # rec.active_slot
    BY <2>2, <2>3, <2>4, BeginStep, Zenon
  <2> QED
    BY <1>0, <2>5
<1>3. CASE HandleBeginAbort \/ HandleAbort \/ ServiceAbort
  <2>1. Abort /\ protocol # "FINISHED"
    BY <1>3, Zenon DEF HandleBeginAbort, HandleAbort, ServiceAbort, Handling
  <2> QED
    BY <2>1, NotFinished, AbortStep
<1>4. CASE HandleWrite
  <2>1. CASE WriteOutOfSequence
    BY <2>1, Zenon DEF WriteOutOfSequence
  <2>2. CASE \E good \in BOOLEAN : WriteBlock(good)
    BY <1>0, <2>2, WriteStep
  <2> QED
    BY <1>4, <2>1, <2>2 DEF HandleWrite
<1>5. CASE HandleFinish
  <2>1. CASE FinishEarly
    BY <2>1, Zenon DEF FinishEarly
  <2>2. CASE Finish
    BY <1>0, <2>2, FinishStep, Zenon
  <2> QED
    BY <1>5, <2>1, <2>2, Zenon DEF HandleFinish
<1>6. CASE SelectStable \/ SelectNothing
  BY <1>6, Zenon DEF SelectStable, SelectNothing, BootActive, Jump, EnterRecovery
<1>7. CASE SelectTrialInvalid \/ SelectTrialExhausted
  <2>1. slots' = slots
    BY <1>7 DEF SelectTrialInvalid, SelectTrialExhausted, BootActive, Jump, EnterRecovery
  <2>2. \E result \in Results : RejectBestEffort(result)
    BY <1>7, SystemAssumption, Zenon DEF SelectTrialInvalid, SelectTrialExhausted
  <2> QED
    BY <2>1, <2>2, RejectKeeps, Zenon
<1>8. CASE SelectTrial
  <2>1. PICK result \in TrialResults : \E c \in CommitOutcomes(rec, trial_record(result)) :
          /\ rec' = c.rec
          /\ IF c.ok THEN Jump(rec.candidate_slot) /\ trials' = trials + 1 ELSE BootActive
    BY <1>8, Zenon DEF SelectTrial, commit_next
  <2>2. PICK c \in CommitOutcomes(rec, trial_record(result)) :
          /\ rec' = c.rec
          /\ IF c.ok THEN Jump(rec.candidate_slot) /\ trials' = trials + 1 ELSE BootActive
    BY <2>1, Zenon
  <2>3. slots' = slots
    BY <2>2, Zenon DEF BootActive, Jump, EnterRecovery
  <2>4. rec' = rec \/ rec' = trial_record(result)
    BY <2>2, Committed
  <2>5. /\ trial_record(result).state = "PENDING_TRIAL"
        /\ trial_record(result).active_slot = rec.active_slot
    BY DEF trial_record, next_record
  <2> QED
    BY <2>3, <2>4, <2>5
<1> QED
  BY <1>1, <1>2, <1>3, <1>4, <1>5, <1>6, <1>7, <1>8, Zenon DEF Next, Service, Select

\* A confirmation changes nothing, or it hands the active slot to the candidate
\* that runs and that was started as a trial.
LEMMA ConfirmHandsOver ==
  ASSUME IInv, Confirm
  PROVE  /\ slots' = slots
         /\ \/ rec' = rec
            \/ /\ rec.state = "PENDING_TRIAL"
               /\ phase = "run" /\ running = rec.candidate_slot
               /\ rec'.active_slot = rec.candidate_slot
               /\ trials > 0
<1>1. slots' = slots /\ phase = "run"
  BY Zenon DEF Confirm
<1>2. CASE ~metadata_allows_confirmation
  BY <1>1, <1>2 DEF Confirm
<1>3. CASE metadata_allows_confirmation
  <2>1. rec.state = "PENDING_TRIAL" /\ running = rec.candidate_slot
    BY <1>3 DEF metadata_allows_confirmation
  <2>2. rec' = rec \/ rec' = application_confirmed_record
    BY <1>3, Committed DEF Confirm
  <2>3. application_confirmed_record.active_slot = rec.candidate_slot
    BY <2>1 DEF application_confirmed_record, next_record
  <2>4. rec.active_slot # rec.candidate_slot
    BY <2>1 DEF IInv, Promise, state_record_is_canonical, candidate_is_canonical, metadata_empty
  <2>5. trials > 0
    BY <1>1, <2>1, <2>4 DEF IInv, Entitled
  <2> QED
    BY <1>1, <2>1, <2>2, <2>3, <2>5, Zenon
<1> QED
  BY <1>2, <1>3

\* A device that once had a confirmed image never ends up without one, and no
\* step writes the slot that is active.
THEOREM SystemActiveNeverLost == Spec => ActiveNeverLost
<1> DEFINE A == rec.active_slot # BOOT_SLOT_NONE =>
                  /\ slots'[rec.active_slot] = slots[rec.active_slot]
                  /\ \/ rec'.active_slot = rec.active_slot
                     \/ rec.state = "PENDING_TRIAL" /\ rec'.active_slot = rec.candidate_slot
<1>1. IInv /\ [Next]_vars => [A]_vars
  BY OtherSteps, ConfirmHandsOver
<1> QED
  BY <1>1, SystemInvariant, PTL DEF Spec, ActiveNeverLost

\* Only the application that runs, started as a trial, is ever confirmed.
THEOREM SystemConfirmsOnlyItself == Spec => ConfirmsOnlyItself
<1> DEFINE A == (rec.state # "CONFIRMED" /\ rec'.state = "CONFIRMED") =>
                  /\ phase = "run"
                  /\ running = rec.candidate_slot
                  /\ rec'.active_slot = running
                  /\ trials > 0
<1>1. IInv /\ [Next]_vars => [A]_vars
  BY OtherSteps, ConfirmHandsOver, Zenon
<1> QED
  BY <1>1, SystemInvariant, PTL DEF Spec, ConfirmsOnlyItself

\* The version of the confirmed image only goes up, whatever rejections and
\* interrupted updates lie between two confirmations.
THEOREM SystemVersionNeverFalls == Spec => VersionNeverFalls
<1> DEFINE A == (rec.active_slot # BOOT_SLOT_NONE /\ rec'.active_slot # rec.active_slot) =>
                  slots'[rec'.active_slot].version > slots[rec.active_slot].version
<1>1. ASSUME IInv, Confirm PROVE A
  <2>1. Promise(rec, slots)
    BY <1>1 DEF IInv
  <2> QED
    BY <1>1, <2>1, ConfirmHandsOver, Zenon DEF Promise
<1>2. IInv /\ [Next]_vars => [A]_vars
  BY <1>1, OtherSteps
<1> QED
  BY <1>2, SystemInvariant, PTL DEF Spec, VersionNeverFalls

\* A device with an active image enters recovery only when asked to.
THEOREM SystemRecoveryOnlyOnRequest == Spec => RecoveryOnlyOnRequest
<1> DEFINE A == (phase \in {"poll", "select"} /\ phase' = "recovery"
                   /\ rec.active_slot # BOOT_SLOT_NONE) => RequestRecovery
<1>1. ASSUME IInv, Next, phase \in {"poll", "select"}, phase' = "recovery",
             rec.active_slot # BOOT_SLOT_NONE
      PROVE  RequestRecovery
  <2>1. ~BootActive
    BY <1>1, Zenon DEF IInv, Promise, BootActive, Jump
  <2>2. ~SelectNothing
    BY <1>1 DEF IInv, Promise, SelectNothing, state_record_is_canonical, empty_is_canonical,
       metadata_empty
  <2>3. ~Select
    BY <1>1, <2>1, <2>2, Zenon DEF Select, SelectStable, SelectTrialInvalid, SelectTrialExhausted,
       SelectTrial, Jump
  <2>4. ~Service
    BY <1>1, Zenon DEF Service, OpenSession, HandleBeginNoSession, HandleBegin, HandleBeginAbort,
       HandleWrite, HandleWriteWrongOffset, HandleFinish, HandleAbort, SessionIdleEnds,
       ServiceAbort, HandleReset, Handling
  <2>5. ~Reset /\ ~Confirm
    BY <1>1 DEF Reset, Restart, Confirm
  <2> QED
    BY <1>1, <2>3, <2>4, <2>5, Zenon DEF Next
<1>2. IInv /\ [Next]_vars => [A]_vars
  BY <1>1, Zenon
<1> QED
  BY <1>2, SystemInvariant, PTL DEF Spec, RecoveryOnlyOnRequest

\* Also in a device whose images can decay at any moment, an application is started
\* only when this boot has verified it in the slot it is started from: no earlier
\* verification, and nothing the metadata says, is taken for it.
THEOREM SystemJumpIsVerified == CorruptingSpec => JumpIsVerified
<1> DEFINE A == (phase # "run" /\ phase' = "run") => image_verifies(slots'[running'])
<1>1. ASSUME BootActive, phase' = "run", phase # "run" PROVE image_verifies(slots'[running'])
  BY <1>1 DEF BootActive, Jump, EnterRecovery
<1>2. ASSUME Select, phase' = "run", phase # "run" PROVE image_verifies(slots'[running'])
  <2>1. CASE SelectStable
    BY <1>1, <1>2, <2>1 DEF SelectStable
  <2>2. CASE SelectNothing
    BY <1>2, <2>2 DEF SelectNothing, EnterRecovery
  <2>3. CASE SelectTrialInvalid
    BY <1>1, <1>2, <2>3 DEF SelectTrialInvalid
  <2>4. CASE SelectTrialExhausted
    BY <1>1, <1>2, <2>4 DEF SelectTrialExhausted
  <2>5. CASE SelectTrial
    <3>1. candidate_verifies /\ (Jump(rec.candidate_slot) \/ BootActive)
      BY <2>5, Zenon DEF SelectTrial
    <3> QED
      BY <1>1, <1>2, <3>1, Zenon DEF Jump, candidate_verifies
  <2> QED
    BY <1>2, <2>1, <2>2, <2>3, <2>4, <2>5 DEF Select
<1>3. Service => phase' # "run" \/ phase = "run"
  BY DEF Service, OpenSession, HandleBeginNoSession, HandleBegin, HandleBeginAbort,
     HandleWrite, HandleWriteWrongOffset, HandleFinish, HandleAbort, SessionIdleEnds,
     ServiceAbort, HandleReset, Handling, BootContinue
<1>4. Reset \/ RequestRecovery \/ Confirm => phase' # "run" \/ phase = "run"
  BY DEF Reset, Restart, RequestRecovery, Confirm
<1>5. ASSUME NEW slot \in Slots, Corrupt(slot) PROVE phase' = phase
  BY <1>5 DEF Corrupt
<1>6. [CorruptingNext]_vars => [A]_vars
  BY <1>2, <1>3, <1>4, <1>5 DEF CorruptingNext, Next
<1> QED
  BY <1>6, PTL DEF CorruptingSpec, JumpIsVerified
=============================================================================
