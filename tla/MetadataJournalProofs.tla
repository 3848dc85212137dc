------------------------ MODULE MetadataJournalProofs ------------------------
(***************************************************************************)
(* Proofs about the metadata journal, for every counter width, every set   *)
(* of versions and result codes, and every set of requests.                *)
(***************************************************************************)
EXTENDS MetadataJournal, TLAPS

Other(c) == IF c = "A" THEN "B" ELSE "A"

-----------------------------------------------------------------------------
(* What recovery makes of a pair of copies.                                *)

\* With one decodable copy, boot_metadata_recover returns that copy.
LEMMA RecoverOne ==
  ASSUME NEW cs \in [Copies -> Cell], NEW c \in Copies,
         decode_ok(cs[c]), ~decode_ok(cs[Other(c)])
  PROVE  /\ recover_status(cs) = "OK"
         /\ recover_copy(cs) = c
         /\ recover_selected(cs) = cs[c].body
BY DEF Copies, Other, recover_status, records_are_equal, recover_copy, recover_selected,
       a_valid, b_valid, both_valid, COPY_NONE

\* With no decodable copy, it returns the empty record.
LEMMA RecoverNone ==
  ASSUME NEW cs \in [Copies -> Cell], NEW c \in Copies,
         ~decode_ok(cs[c]), ~decode_ok(cs[Other(c)])
  PROVE  /\ recover_status(cs) = "ERR_NO_VALID_COPY"
         /\ recover_copy(cs) = COPY_NONE
         /\ recover_selected(cs) = metadata_empty
BY DEF Copies, Other, recover_status, records_are_equal, recover_copy, recover_selected,
       a_valid, b_valid, both_valid, COPY_NONE

\* With two decodable copies, it returns the one with the larger sequence.
LEMMA RecoverNewer ==
  ASSUME NEW cs \in [Copies -> Cell], NEW c \in Copies,
         decode_ok(cs[c]), decode_ok(cs[Other(c)]),
         cs[c].body.sequence > cs[Other(c)].body.sequence
  PROVE  /\ recover_status(cs) = "OK"
         /\ recover_copy(cs) = c
         /\ recover_selected(cs) = cs[c].body
<1>1. /\ cs["A"].body.sequence \in Int
      /\ cs["B"].body.sequence \in Int
  BY WidthAssumption DEF Copies, Other, decode_ok, Record
<1>2. cs["A"].body.sequence # cs["B"].body.sequence
  BY <1>1 DEF Copies, Other
<1>3. recover_status(cs) = "OK"
  BY <1>2 DEF Copies, Other, recover_status, records_are_equal, a_valid, b_valid, both_valid
<1>4. recover_copy(cs) = c
  BY <1>1, <1>3 DEF Copies, Other, recover_copy, a_valid, b_valid
<1> QED
  BY <1>3, <1>4 DEF Copies, COPY_NONE, recover_selected

\* What is recovered is a record.
LEMMA SelectedType ==
  ASSUME NEW cs \in [Copies -> Cell]
  PROVE  recover_selected(cs) \in Record
<1>1. metadata_empty \in Record
  BY WidthAssumption, ResultAssumption
     DEF metadata_empty, Record, States, SlotValues, BOOT_SLOT_NONE, MAX_BOOT_ATTEMPTS
<1>2. CASE recover_copy(cs) = COPY_NONE
  BY <1>1, <1>2 DEF recover_selected
<1>3. CASE recover_copy(cs) # COPY_NONE
  <2>1. recover_copy(cs) \in Copies
    BY <1>3 DEF recover_copy, Copies
  <2>2. decode_ok(cs[recover_copy(cs)])
    BY <1>3 DEF recover_copy, recover_status, records_are_equal, a_valid, b_valid, both_valid
  <2> QED
    BY <1>3, <2>1, <2>2 DEF recover_selected, decode_ok
<1> QED
  BY <1>2, <1>3

\* An accepted successor is well formed and carries the next number.
LEMMA AcceptedNext ==
  ASSUME NEW cur \in Record, NEW nxt \in Record,
         validate_transition(cur, nxt) = "OK"
  PROVE  /\ state_record_is_canonical(nxt)
         /\ nxt.sequence = cur.sequence + 1
BY DEF validate_transition, sequence_follows

\* The copy that boot_metadata_commit rewrites is not the one recovered.
LEMMA TargetIsOther ==
  ASSUME NEW cs \in [Copies -> Cell], recover_status(cs) # "ERR_AMBIGUOUS"
  PROVE  /\ commit_target(cs) \in Copies
         /\ recover_status(cs) = "OK" => recover_copy(cs) = Other(commit_target(cs))
BY DEF commit_target, recover_status, records_are_equal, recover_copy, a_valid, b_valid, both_valid,
       Copies, Other, COPY_NONE

\* Leaving the sector as it was, or undecodable, changes nothing for a reader.
LEMMA KeepSelected ==
  ASSUME NEW cs \in [Copies -> Cell], NEW c \in Copies, NEW cell \in Cell,
         recover_status(cs) # "ERR_AMBIGUOUS",
         recover_status(cs) = "OK" => recover_copy(cs) = Other(c),
         cell = cs[c] \/ ~decode_ok(cell)
  PROVE  LET new == [cs EXCEPT ![c] = cell]
         IN /\ recover_status(new) = recover_status(cs)
            /\ recover_copy(new) = recover_copy(cs)
            /\ recover_selected(new) = recover_selected(cs)
<1> DEFINE new == [cs EXCEPT ![c] = cell]
<1>0. Other(c) \in Copies /\ Other(c) # c /\ Other(Other(c)) = c
  BY DEF Copies, Other
<1>1. new \in [Copies -> Cell] /\ new[c] = cell /\ new[Other(c)] = cs[Other(c)]
  BY <1>0
<1>2. CASE cell = cs[c]
  <2>1. new = cs
    BY <1>2
  <2> QED
    BY <2>1, Zenon
<1>3. CASE ~decode_ok(cell) /\ recover_status(cs) = "OK"
  <2>1. recover_copy(cs) = Other(c) /\ decode_ok(cs[Other(c)])
    BY <1>3 DEF recover_copy, recover_status, records_are_equal, a_valid, b_valid, both_valid, Other, Copies
  <2>2. recover_selected(cs) = cs[Other(c)].body
    BY <1>0, <2>1 DEF recover_selected, COPY_NONE, Copies
  <2>3. /\ recover_status(new) = "OK"
        /\ recover_copy(new) = Other(c)
        /\ recover_selected(new) = new[Other(c)].body
    <3> HIDE DEF new
    <3> QED BY <1>0, <1>1, <1>3, <2>1, RecoverOne
  <2> QED
    BY <1>1, <1>3, <2>1, <2>2, <2>3
<1>4. CASE ~decode_ok(cell) /\ recover_status(cs) # "OK"
  <2>1. ~decode_ok(cs[c]) /\ ~decode_ok(cs[Other(c)])
    BY <1>4 DEF recover_status, records_are_equal, a_valid, b_valid, both_valid, Other, Copies
  <2>2. /\ recover_status(cs) = "ERR_NO_VALID_COPY"
        /\ recover_copy(cs) = COPY_NONE
        /\ recover_selected(cs) = metadata_empty
    BY <2>1, RecoverNone
  <2>3. /\ recover_status(new) = "ERR_NO_VALID_COPY"
        /\ recover_copy(new) = COPY_NONE
        /\ recover_selected(new) = metadata_empty
    <3> HIDE DEF new
    <3> QED BY <1>0, <1>1, <1>4, <2>1, RecoverNone
  <2> QED
    BY <2>2, <2>3
<1> QED
  BY <1>2, <1>3, <1>4

\* Completing the sector makes the new record the one recovered.
LEMMA PublishSelected ==
  ASSUME NEW cs \in [Copies -> Cell], NEW c \in Copies, NEW r \in Record,
         recover_status(cs) # "ERR_AMBIGUOUS",
         recover_status(cs) = "OK" => recover_copy(cs) = Other(c),
         ~decode_ok(cs[c]),
         validate_transition(recover_selected(cs), r) = "OK"
  PROVE  LET new == [cs EXCEPT ![c] = [body |-> r, marker |-> "set"]]
         IN /\ recover_status(new) = "OK"
            /\ recover_selected(new) = r
<1> DEFINE cell == [body |-> r, marker |-> "set"]
           new == [cs EXCEPT ![c] = cell]
<1>0. Other(c) \in Copies /\ Other(c) # c
  BY DEF Copies, Other
<1>1. cell \in Cell /\ new \in [Copies -> Cell] /\ new[c] = cell /\ new[Other(c)] = cs[Other(c)]
  BY <1>0 DEF Cell
<1>2. /\ state_record_is_canonical(r)
      /\ r.sequence = recover_selected(cs).sequence + 1
  BY SelectedType, AcceptedNext
<1>3. decode_ok(new[c])
  BY <1>1, <1>2 DEF decode_ok
<1>4. CASE decode_ok(cs[Other(c)])
  <2>1. recover_status(cs) = "OK" /\ recover_copy(cs) = Other(c)
    BY <1>0, <1>4 DEF recover_status, records_are_equal, a_valid, b_valid, both_valid, Other, Copies
  <2>2. recover_selected(cs) = cs[Other(c)].body
    BY <1>0, <2>1 DEF recover_selected, COPY_NONE, Copies
  <2>3. new[c].body.sequence > new[Other(c)].body.sequence
    BY <1>1, <1>2, <1>4, <2>2, WidthAssumption DEF decode_ok, Record
  <2>4. /\ recover_status(new) = "OK"
        /\ recover_selected(new) = new[c].body
    <3> HIDE DEF new, cell
    <3> QED BY <1>1, <1>3, <1>4, <2>3, RecoverNewer
  <2> QED
    BY <1>1, <2>4
<1>5. CASE ~decode_ok(cs[Other(c)])
  <2>1. /\ recover_status(new) = "OK"
        /\ recover_selected(new) = new[c].body
    <3> HIDE DEF new, cell
    <3> QED BY <1>1, <1>3, <1>5, RecoverOne
  <2> QED
    BY <1>1, <2>1
<1> QED
  BY <1>4, <1>5

-----------------------------------------------------------------------------
(* The inductive invariant.                                                *)

Writing == pc \in {"erase", "body", "marker"}

\* The record on its way follows the one a reader recovers, which is not in
\* the sector being rewritten.
WritingInv ==
  Writing =>
    /\ validate_transition(recover_selected(copies), req) = "OK"
    /\ recover_status(copies) = "OK" => recover_copy(copies) = Other(target)

\* What write_copy has put into the sector so far.
SectorInv ==
  /\ pc = "body" => copies[target] = ErasedCell
  /\ pc = "marker" => copies[target] = [body |-> req, marker |-> "blank"]

\* The journal is rebuilt only when it holds nothing.
ReinitInv ==
  pc \in {"reinit_a", "reinit_b"} =>
    /\ target = "A"
    /\ recover_status(copies) = "ERR_NO_VALID_COPY"
    /\ validate_transition(metadata_empty, req) = "OK"

\* While the factory tool works there is no other record than the one it
\* writes, and that is in the images finished so far.
ProvisionInv ==
  /\ pc \in ProvisionSteps => validate_transition(metadata_empty, req) = "OK"
  /\ pc = "copy_a" => recover_status(copies) = "ERR_NO_VALID_COPY"
  /\ pc \in {"copy_b", "json"} => copies["A"] = provisioned(req)
  /\ pc = "copy_b" => ~decode_ok(copies["B"])
  /\ pc = "json" => copies["B"] = provisioned(req)

AckInv == status = "OK" => pc = "idle"

IInv ==
  /\ TypeOK
  /\ NeverAmbiguous
  /\ WritingInv
  /\ SectorInv
  /\ ReinitInv
  /\ ProvisionInv
  /\ AckInv
  /\ AcknowledgedIsRecovered

\* What an operation that did not succeed may leave in its sector.
LEMMA PartialLeaves ==
  ASSUME IInv, pc \in FlashSteps, NEW cell \in partial_results(sector)
  PROVE  /\ cell \in Cell
         /\ \/ cell = copies[sector]
            \/ ~decode_ok(cell)
            \/ pc = "marker" /\ cell = [body |-> req, marker |-> "set"]
<1> USE DEF IInv, TypeOK
<1>0. sector \in Copies /\ copies[sector] \in Cell
  BY DEF sector, Copies
<1>1. CASE pc \in {"reinit_a", "reinit_b", "erase"}
  <2>1. write_result(sector) = ErasedCell
    BY <1>1 DEF write_result
  <2>2. /\ cell \in [body : {copies[sector].body, Torn, Blank},
                     marker : {copies[sector].marker, "torn", "blank"}]
    BY <2>1 DEF partial_results, ErasedCell
  <2>3. cell \in Cell
    BY <1>0, <2>2 DEF Cell
  <2>4. ASSUME decode_ok(cell) PROVE cell = copies[sector]
    BY <1>0, <2>2, <2>4, BodyAssumption DEF decode_ok, Cell
  <2> QED
    BY <2>3, <2>4
<1>2. CASE pc = "body"
  <2>1. copies[sector] = ErasedCell
    BY <1>2 DEF SectorInv, sector
  <2>2. cell \in [body : {Blank, Torn, req}, marker : {"blank", "torn"}]
    BY <1>2, <2>1 DEF partial_results, write_result, ErasedCell
  <2> QED
    BY <2>2 DEF Cell, decode_ok
<1>3. CASE pc = "marker"
  <2>1. copies[sector] = [body |-> req, marker |-> "blank"]
    BY <1>3 DEF SectorInv, sector
  <2>2. cell \in [body : {req}, marker : {"blank", "torn", "set"}]
    BY <1>3, <2>1 DEF partial_results, write_result
  <2> QED
    BY <1>3, <2>2 DEF Cell, decode_ok
<1> QED
  BY <1>1, <1>2, <1>3 DEF FlashSteps

\* While a call is writing, the recovered record is outside its sector.
LEMMA OutsideSector ==
  ASSUME IInv, pc \in FlashSteps
  PROVE  /\ sector \in Copies
         /\ recover_status(copies) # "ERR_AMBIGUOUS"
         /\ recover_status(copies) = "OK" => recover_copy(copies) = Other(sector)
BY DEF IInv, TypeOK, NeverAmbiguous, WritingInv, ReinitInv, Writing, FlashSteps, sector, Copies

\* A call that ends before its marker is in place, by an error or a reset,
\* changes nothing for a reader; one that ends after it has published req.
LEMMA InterruptedCall ==
  ASSUME IInv, pc \in FlashSteps, NEW cell \in partial_results(sector),
         copies' = [copies EXCEPT ![sector] = cell]
  PROVE  /\ copies' \in [Copies -> Cell]
         /\ recover_status(copies') # "ERR_AMBIGUOUS"
         /\ \/ recover_selected(copies') = recover_selected(copies)
            \/ /\ recover_selected(copies') = req
               /\ validate_transition(recover_selected(copies), req) = "OK"
<1>1. cell \in Cell
  BY PartialLeaves
<1>2. /\ sector \in Copies
      /\ recover_status(copies) # "ERR_AMBIGUOUS"
      /\ recover_status(copies) = "OK" => recover_copy(copies) = Other(sector)
      /\ copies \in [Copies -> Cell]
      /\ req \in Record
  BY OutsideSector DEF IInv, TypeOK
<1>3. copies' \in [Copies -> Cell]
  BY <1>1, <1>2
<1>4. CASE cell = copies[sector] \/ ~decode_ok(cell)
  BY <1>1, <1>2, <1>3, <1>4, KeepSelected, Zenon
<1>5. CASE pc = "marker" /\ cell = [body |-> req, marker |-> "set"]
  <2>1. sector = target /\ copies[sector] = [body |-> req, marker |-> "blank"]
    BY <1>5 DEF IInv, SectorInv, sector
  <2>2. ~decode_ok(copies[sector])
    BY <2>1 DEF decode_ok
  <2>3. validate_transition(recover_selected(copies), req) = "OK"
    BY <1>5 DEF IInv, WritingInv, Writing
  <2>4. recover_status(copies') = "OK" /\ recover_selected(copies') = req
    BY <1>2, <1>5, <2>2, <2>3, PublishSelected, Zenon
  <2> QED
    BY <1>3, <2>3, <2>4
<1> QED
  BY <1>4, <1>5, PartialLeaves

\* A sector that was never programmed, or not in full, holds no record.
LEMMA Unusable == UnusableCells \subseteq Cell /\ \A u \in UnusableCells : ~decode_ok(u)
BY DEF UnusableCells, ErasedCell, Cell, decode_ok

\* An image of a record that may follow the empty one decodes.
LEMMA ProvisionedDecodes ==
  ASSUME NEW r \in Record, validate_transition(metadata_empty, r) = "OK"
  PROVE  provisioned(r) \in Cell /\ decode_ok(provisioned(r))
<1>1. state_record_is_canonical(r)
  BY DEF validate_transition
<1> QED
  BY <1>1 DEF provisioned, Cell, decode_ok

\* Two copies of one image are that image's record to a reader.
LEMMA SameImages ==
  ASSUME NEW cs, NEW r, cs["A"] = provisioned(r), cs["B"] = provisioned(r), decode_ok(provisioned(r))
  PROVE  recover_status(cs) = "OK" /\ recover_copy(cs) = "A" /\ recover_selected(cs) = r
<1>1. provisioned(r).body = r
  BY DEF provisioned
<1>2. recover_status(cs) = "OK" /\ a_valid(cs) /\ b_valid(cs)
  BY DEF recover_status, records_are_equal, a_valid, b_valid, both_valid
<1>3. cs["A"].body.sequence >= cs["B"].body.sequence
  <2>1. r.sequence \in Nat
    BY <1>1, WidthAssumption DEF decode_ok, Record
  <2> QED
    BY <1>1, <2>1
<1>4. recover_copy(cs) = "A"
  BY <1>2, <1>3 DEF recover_copy, both_valid
<1> QED
  BY <1>1, <1>2, <1>4 DEF recover_selected, COPY_NONE

\* The sector an image goes to is not the one a reader recovers from.
LEMMA ImageOutside ==
  ASSUME IInv, pc \in {"copy_a", "copy_b"}
  PROVE  /\ image_sector \in Copies
         /\ recover_status(copies) # "ERR_AMBIGUOUS"
         /\ recover_status(copies) = "OK" => recover_copy(copies) = Other(image_sector)
         /\ ~decode_ok(copies[image_sector])
         /\ copies \in [Copies -> Cell] /\ req \in Record
<1>1. /\ copies \in [Copies -> Cell] /\ req \in Record
      /\ recover_status(copies) # "ERR_AMBIGUOUS"
  BY DEF IInv, TypeOK, NeverAmbiguous
<1>2. CASE pc = "copy_a"
  <2>1. recover_status(copies) = "ERR_NO_VALID_COPY"
    BY <1>2 DEF IInv, ProvisionInv
  <2>2. ~decode_ok(copies["A"])
    BY <2>1 DEF recover_status, a_valid, b_valid, both_valid
  <2> QED
    BY <1>1, <1>2, <2>1, <2>2 DEF image_sector, Copies
<1>3. CASE pc = "copy_b"
  <2>1. ~decode_ok(copies["B"])
    BY <1>3 DEF IInv, ProvisionInv
  <2> QED
    BY <1>1, <1>3, <2>1 DEF image_sector, Copies, Other, recover_copy, a_valid, b_valid
<1> QED
  BY <1>2, <1>3

\* An image programmed in full is what a reader recovers from then on.
LEMMA ImageWritten ==
  ASSUME IInv, pc \in {"copy_a", "copy_b"},
         copies' = [copies EXCEPT ![image_sector] = provisioned(req)]
  PROVE  /\ copies' \in [Copies -> Cell]
         /\ recover_status(copies') = "OK"
         /\ \/ recover_selected(copies') = recover_selected(copies)
            \/ validate_transition(recover_selected(copies), recover_selected(copies')) = "OK"
<1>1. /\ image_sector \in Copies
      /\ recover_status(copies) # "ERR_AMBIGUOUS"
      /\ recover_status(copies) = "OK" => recover_copy(copies) = Other(image_sector)
      /\ ~decode_ok(copies[image_sector])
      /\ copies \in [Copies -> Cell] /\ req \in Record
  BY ImageOutside
<1>2. validate_transition(metadata_empty, req) = "OK"
  BY DEF IInv, ProvisionInv, ProvisionSteps
<1>3. provisioned(req) \in Cell /\ decode_ok(provisioned(req))
  BY <1>1, <1>2, ProvisionedDecodes
<1>4. copies' \in [Copies -> Cell]
  BY <1>1, <1>3
<1>5. CASE pc = "copy_a"
  <2>1. recover_selected(copies) = metadata_empty
    BY <1>5 DEF IInv, ProvisionInv, recover_copy, recover_selected
  <2>2. recover_status(copies') = "OK" /\ recover_selected(copies') = req
    <3> DEFINE c == image_sector
               new == [copies EXCEPT ![c] = [body |-> req, marker |-> "set"]]
    <3>1. copies' = new
      BY DEF provisioned
    <3>2. recover_status(new) = "OK" /\ recover_selected(new) = req
      <4>1. validate_transition(recover_selected(copies), req) = "OK"
        BY <1>2, <2>1
      <4> QED
        BY <1>1, <4>1, PublishSelected, Zenon
    <3> QED
      BY <3>1, <3>2, Zenon
  <2> QED
    BY <1>2, <1>4, <2>1, <2>2
<1>6. CASE pc = "copy_b"
  <2>1. copies["A"] = provisioned(req) /\ image_sector = "B"
    BY <1>6 DEF IInv, ProvisionInv, image_sector
  <2>2. copies'["A"] = provisioned(req) /\ copies'["B"] = provisioned(req)
    BY <1>1, <2>1 DEF Copies
  <2>3. recover_status(copies') = "OK" /\ recover_selected(copies') = req
    BY <1>3, <2>2, SameImages, Zenon
  <2>4. recover_selected(copies) = req
    <3>1. a_valid(copies) /\ ~b_valid(copies)
      BY <1>1, <1>3, <2>1 DEF a_valid, b_valid
    <3>2. recover_copy(copies) = "A"
      BY <3>1 DEF recover_copy, recover_status, both_valid
    <3> QED
      BY <2>1, <3>2 DEF recover_selected, COPY_NONE, provisioned
  <2> QED
    BY <1>4, <2>3, <2>4
<1> QED
  BY <1>5, <1>6

\* An image that was cut short changes nothing for a reader.
LEMMA ImageCut ==
  ASSUME IInv, pc \in {"copy_a", "copy_b"}, NEW cell \in UnusableCells,
         copies' = [copies EXCEPT ![image_sector] = cell]
  PROVE  /\ copies' \in [Copies -> Cell]
         /\ recover_status(copies') # "ERR_AMBIGUOUS"
         /\ recover_selected(copies') = recover_selected(copies)
<1>1. /\ image_sector \in Copies
      /\ recover_status(copies) # "ERR_AMBIGUOUS"
      /\ recover_status(copies) = "OK" => recover_copy(copies) = Other(image_sector)
      /\ copies \in [Copies -> Cell]
  BY ImageOutside
<1>2. cell \in Cell /\ ~decode_ok(cell)
  BY Unusable
<1>3. copies' \in [Copies -> Cell]
  BY <1>1, <1>2
<1> QED
  BY <1>1, <1>2, <1>3, KeepSelected, Zenon

-----------------------------------------------------------------------------
(* The initial states.                                                     *)

\* The factory record is a record, whatever slot and version it names.
LEMMA ProvisionedRecord ==
  ASSUME NEW s \in Slots, NEW v \in ParsedVersions
  PROVE  provision_confirmed_record(s, v) \in Record
BY WidthAssumption, VersionAssumption, ResultAssumption
   DEF provision_confirmed_record, ParsedVersions, next_record, metadata_empty, Record, States,
       SlotValues, Slots, BOOT_SLOT_NONE, MAX_BOOT_ATTEMPTS

\* A new device satisfies the invariant.
LEMMA InitInv == Init => IInv
<1> SUFFICES ASSUME Init PROVE IInv
  OBVIOUS
<1>0. metadata_empty \in Record
  BY WidthAssumption, ResultAssumption
     DEF metadata_empty, Record, States, SlotValues, BOOT_SLOT_NONE, MAX_BOOT_ATTEMPTS
<1>1. UnusableCells \subseteq Cell /\ \A u \in UnusableCells : ~decode_ok(u)
  BY Unusable
<1>2. copies \in [Copies -> Cell] /\ \A c \in Copies : ~decode_ok(copies[c])
  BY <1>1 DEF Init
<1>3. NeverAmbiguous
  BY <1>2 DEF NeverAmbiguous, recover_status, a_valid, b_valid, Copies
<1>4. TypeOK
  BY <1>0, <1>2, Zenon DEF Init, TypeOK, Copies
<1> QED
  BY <1>3, <1>4 DEF Init, IInv, WritingInv, Writing, SectorInv, ReinitInv, ProvisionInv,
     ProvisionSteps, AckInv, AcknowledgedIsRecovered

-----------------------------------------------------------------------------
(* The steps.                                                              *)

\* Every step of the journal keeps the invariant, and is to a reader a step of
\* the atomic journal or no step at all.
LEMMA StepInv ==
  ASSUME IInv, [Next]_vars
  PROVE  /\ IInv'
         /\ \/ recover_selected(copies)' = recover_selected(copies)
            \/ validate_transition(recover_selected(copies), recover_selected(copies)') = "OK"
<1>0. /\ copies \in [Copies -> Cell]
      /\ req \in Record
      /\ metadata_empty \in Record
      /\ recover_status(copies) # "ERR_AMBIGUOUS"
  BY WidthAssumption, ResultAssumption
     DEF IInv, TypeOK, NeverAmbiguous, metadata_empty, Record, States, SlotValues,
         BOOT_SLOT_NONE, MAX_BOOT_ATTEMPTS
<1> USE DEF IInv, AckInv
<1>1. ASSUME NEW next \in Requests, CommitAccepted(next)
      PROVE  IInv' /\ copies' = copies
  <2>1. next \in Record
    BY RequestAssumption
  <2>2. validate_transition(recover_selected(copies), next) = "OK"
    BY <1>1 DEF CommitAccepted, commit_check
  <2>3. /\ commit_target(copies) \in Copies
        /\ recover_status(copies) = "OK" => recover_copy(copies) = Other(commit_target(copies))
    BY <1>0, TargetIsOther
  <2> QED
    BY <1>0, <1>1, <2>1, <2>2, <2>3
       DEF CommitAccepted, TypeOK, FlashSteps, NeverAmbiguous, WritingInv, Writing, SectorInv,
           ReinitInv, ProvisionInv, ProvisionSteps, FlashSteps, AcknowledgedIsRecovered
<1>2. ASSUME NEW next \in Requests, CommitRefused(next)
      PROVE  IInv' /\ copies' = copies
  <2>1. commit_check(next) \in {"ERR_AMBIGUOUS", "ERR_SEQUENCE", "ERR_BAD_FORMAT",
                                "ERR_BAD_TRANSITION"}
    BY <1>2, Zenon DEF CommitRefused, commit_check, validate_transition
  <2> QED
    BY <1>0, <1>2, <2>1
       DEF CommitRefused, TypeOK, NeverAmbiguous, WritingInv, Writing, SectorInv,
           ReinitInv, ProvisionInv, ProvisionSteps, FlashSteps, AcknowledgedIsRecovered
<1>3. ASSUME CommitUnreadable
      PROVE  IInv' /\ copies' = copies
  BY <1>0, <1>3
     DEF CommitUnreadable, TypeOK, NeverAmbiguous, WritingInv, Writing, SectorInv,
         ReinitInv, ProvisionInv, ProvisionSteps, FlashSteps, AcknowledgedIsRecovered
<1>4. ASSUME NEW next \in Requests, Reinitialize(next)
      PROVE  IInv' /\ copies' = copies
  <2>1. next \in Record
    BY RequestAssumption
  <2> QED
    BY <1>0, <1>4, <2>1
       DEF Reinitialize, reinitialize_allowed, TypeOK, FlashSteps, Copies, NeverAmbiguous,
           WritingInv, Writing, SectorInv, ReinitInv, ProvisionInv, ProvisionSteps,
           AcknowledgedIsRecovered
<1>5. ASSUME FlashOperation
      PROVE  /\ IInv'
             /\ \/ recover_selected(copies') = recover_selected(copies)
                \/ validate_transition(recover_selected(copies), recover_selected(copies')) = "OK"
  <2>0. /\ pc \in FlashSteps
        /\ sector \in Copies
        /\ recover_status(copies) # "ERR_AMBIGUOUS"
        /\ recover_status(copies) = "OK" => recover_copy(copies) = Other(sector)
        /\ copies' = [copies EXCEPT ![sector] = write_result(sector)]
    BY <1>5, OutsideSector DEF FlashOperation
  <2>1. CASE pc # "marker"
    <3>1. write_result(sector) \in Cell /\ ~decode_ok(write_result(sector))
      <4>1. CASE pc = "body"
        BY <1>0, <4>1 DEF SectorInv, sector, write_result, ErasedCell, Cell, decode_ok
      <4>2. CASE pc # "body"
        BY <2>1, <4>2 DEF write_result, ErasedCell, Cell, decode_ok
      <4> QED
        BY <4>1, <4>2
    <3>2. /\ recover_status(copies') = recover_status(copies)
          /\ recover_copy(copies') = recover_copy(copies)
          /\ recover_selected(copies') = recover_selected(copies)
      BY <1>0, <2>0, <3>1, KeepSelected, Zenon
    <3>3. /\ copies' \in [Copies -> Cell]
          /\ copies'[sector] = write_result(sector)
      BY <1>0, <2>0, <3>1
    <3>4. pc' = next_pc /\ req' = req /\ status' = status /\ target' = target
      BY <1>5, <2>1 DEF FlashOperation
    <3>5. TypeOK'
      BY <2>0, <3>3, <3>4 DEF TypeOK, next_pc, FlashSteps
    <3>6. NeverAmbiguous'
      BY <2>0, <3>2 DEF NeverAmbiguous
    <3>7. ReinitInv'
      BY <2>0, <3>2, <3>4 DEF ReinitInv, next_pc, FlashSteps
    <3>8. WritingInv'
      <4>1. CASE pc = "reinit_b"
        <5>1. recover_selected(copies) = metadata_empty
          BY <4>1 DEF ReinitInv, recover_copy, recover_selected
        <5> QED
          BY <3>2, <3>4, <4>1, <5>1 DEF ReinitInv, WritingInv
      <4>2. CASE pc # "reinit_b"
        BY <2>0, <2>1, <3>2, <3>4, <4>2 DEF WritingInv, Writing, next_pc, FlashSteps
      <4> QED
        BY <4>1, <4>2
    <3>9. SectorInv'
      <4>1. CASE pc = "erase"
        BY <3>3, <3>4, <4>1 DEF SectorInv, sector, write_result, next_pc
      <4>2. CASE pc = "body"
        BY <3>3, <3>4, <4>2 DEF SectorInv, sector, write_result, next_pc, ErasedCell
      <4>3. CASE pc \in {"reinit_a", "reinit_b"}
        BY <3>4, <4>3, Zenon DEF SectorInv, next_pc
      <4> QED
        BY <2>0, <2>1, <4>1, <4>2, <4>3 DEF FlashSteps
    <3>10. AckInv' /\ AcknowledgedIsRecovered' /\ ProvisionInv'
      BY <2>0, <2>1, <3>4 DEF AcknowledgedIsRecovered, FlashSteps, ProvisionInv, ProvisionSteps, next_pc
    <3> QED
      BY <3>2, <3>5, <3>6, <3>7, <3>8, <3>9, <3>10
  <2>2. CASE pc = "marker"
    <3>1. /\ sector = target
          /\ copies[sector] = [body |-> req, marker |-> "blank"]
      BY <2>2 DEF SectorInv, sector
    <3>2. write_result(sector) = [body |-> req, marker |-> "set"]
      BY <2>2, <3>1 DEF write_result
    <3>3. validate_transition(recover_selected(copies), req) = "OK" /\ ~decode_ok(copies[sector])
      BY <2>2, <3>1 DEF WritingInv, Writing, decode_ok
    <3>4. recover_status(copies') = "OK" /\ recover_selected(copies') = req
      <4>1. /\ copies \in [Copies -> Cell] /\ req \in Record
            /\ copies' = [copies EXCEPT ![sector] = [body |-> req, marker |-> "set"]]
        BY <1>0, <2>0, <3>2 DEF TypeOK
      <4>2. LET new == [copies EXCEPT ![sector] = [body |-> req, marker |-> "set"]]
            IN recover_status(new) = "OK" /\ recover_selected(new) = req
        BY <2>0, <3>3, <4>1, PublishSelected, Zenon
      <4> QED
        BY <4>1, <4>2, Zenon
    <3>5. copies' \in [Copies -> Cell]
      BY <1>0, <2>0, <3>2 DEF Cell
    <3>6. pc' = "idle" /\ status' = "OK" /\ req' = req /\ target' = target
      BY <1>5, <2>2, Zenon DEF FlashOperation, Return
    <3> QED
      BY <1>0, <3>3, <3>4, <3>5, <3>6
         DEF TypeOK, NeverAmbiguous, WritingInv, Writing, SectorInv, ReinitInv, ProvisionInv, ProvisionSteps,
             AcknowledgedIsRecovered
  <2> QED
    BY <2>1, <2>2
<1>6. ASSUME FlashFailure \/ PowerLoss
      PROVE  /\ IInv'
             /\ \/ recover_selected(copies') = recover_selected(copies)
                \/ validate_transition(recover_selected(copies), recover_selected(copies')) = "OK"
  <2>1. PICK cell \in partial_results(sector) : copies' = [copies EXCEPT ![sector] = cell]
    BY <1>6 DEF FlashFailure, PowerLoss
  <2>2. pc \in FlashSteps
    BY <1>6 DEF FlashFailure, PowerLoss
  <2>3. /\ copies' \in [Copies -> Cell]
        /\ recover_status(copies') # "ERR_AMBIGUOUS"
        /\ \/ recover_selected(copies') = recover_selected(copies)
           \/ /\ recover_selected(copies') = req
              /\ validate_transition(recover_selected(copies), req) = "OK"
    BY <2>1, <2>2, InterruptedCall, Zenon
  <2>4. /\ pc' = "idle"
        /\ status' \in {"ERR_FLASH", "none"}
        /\ req' = metadata_empty
        /\ target' = target
    BY <1>6 DEF FlashFailure, PowerLoss, Return
  <2> QED
    BY <1>0, <2>3, <2>4
       DEF TypeOK, NeverAmbiguous, WritingInv, Writing, SectorInv, ReinitInv, ProvisionInv, ProvisionSteps,
           AcknowledgedIsRecovered
<1>7. ASSUME UNCHANGED vars
      PROVE  IInv' /\ copies' = copies
  BY <1>7 DEF vars, TypeOK, NeverAmbiguous, WritingInv, Writing, SectorInv, ReinitInv, ProvisionInv, ProvisionSteps,
     AcknowledgedIsRecovered
<1>8. ASSUME NEW slot \in Slots, NEW version \in ParsedVersions, Provision(slot, version)
      PROVE  IInv' /\ copies' = copies
  <2> DEFINE r == provision_confirmed_record(slot, version)
             result == prepare_next_status(metadata_empty, r)
  <2>1. r \in Record
    BY ProvisionedRecord, Zenon
  <2>2. /\ pc = "idle" /\ recover_status(copies) = "ERR_NO_VALID_COPY"
        /\ target' = "A" /\ copies' = copies
        /\ IF result = "OK" THEN pc' = "copy_a" /\ req' = r /\ status' = "none" ELSE Return(result)
    BY <1>8 DEF Provision
  <2>3. CASE result = "OK"
    <3>1. validate_transition(metadata_empty, r) = "OK"
      BY <2>3 DEF prepare_next_status
    <3> HIDE DEF r, result
    <3> QED
      BY <1>0, <2>1, <2>2, <2>3, <3>1, Zenon
         DEF TypeOK, Copies, NeverAmbiguous, WritingInv, Writing, SectorInv, ReinitInv, ProvisionInv,
             ProvisionSteps, AcknowledgedIsRecovered
  <2>4. CASE result # "OK"
    <3>1. result \in {"ERR_SEQUENCE", "ERR_BAD_FORMAT", "ERR_BAD_TRANSITION"}
      BY <2>4 DEF prepare_next_status, validate_transition
    <3> HIDE DEF r, result
    <3>2. pc' = "idle" /\ status' = result /\ req' = metadata_empty
      BY <2>2, <2>4, Zenon DEF Return
    <3> QED
      BY <1>0, <2>2, <3>1, <3>2
         DEF TypeOK, Copies, NeverAmbiguous, WritingInv, Writing, SectorInv, ReinitInv, ProvisionInv,
             ProvisionSteps, AcknowledgedIsRecovered
  <2> QED
    BY <2>3, <2>4
<1>9. ASSUME WriteImage
      PROVE  /\ IInv'
             /\ \/ recover_selected(copies') = recover_selected(copies)
                \/ validate_transition(recover_selected(copies), recover_selected(copies')) = "OK"
  <2>1. /\ pc \in {"copy_a", "copy_b"}
        /\ copies' = [copies EXCEPT ![image_sector] = provisioned(req)]
        /\ pc' = IF pc = "copy_a" THEN "copy_b" ELSE "json"
        /\ target' = target /\ req' = req /\ status' = status
    BY <1>9 DEF WriteImage
  <2>2. /\ copies' \in [Copies -> Cell]
        /\ recover_status(copies') = "OK"
        /\ \/ recover_selected(copies') = recover_selected(copies)
           \/ validate_transition(recover_selected(copies), recover_selected(copies')) = "OK"
    BY <2>1, ImageWritten
  <2>3. status # "OK" /\ pc # "idle"
    BY <2>1
  <2>4. ProvisionInv'
    <3>1. CASE pc = "copy_a"
      <4>1. copies' = [copies EXCEPT !["A"] = provisioned(req)] /\ pc' = "copy_b"
        BY <2>1, <3>1 DEF image_sector
      <4>2. ~decode_ok(copies["B"])
        BY <3>1 DEF ProvisionInv, recover_status, a_valid, b_valid, both_valid
      <4>3. copies'["A"] = provisioned(req) /\ copies'["B"] = copies["B"]
        BY <1>0, <4>1 DEF Copies
      <4> QED
        BY <2>1, <3>1, <4>1, <4>2, <4>3 DEF ProvisionInv, ProvisionSteps
    <3>2. CASE pc = "copy_b"
      <4>1. copies' = [copies EXCEPT !["B"] = provisioned(req)] /\ pc' = "json"
        BY <2>1, <3>2 DEF image_sector
      <4>2. copies'["B"] = provisioned(req) /\ copies'["A"] = copies["A"]
        BY <1>0, <4>1, Zenon DEF Copies
      <4> QED
        BY <2>1, <3>2, <4>1, <4>2 DEF ProvisionInv, ProvisionSteps
    <3> QED
      BY <2>1, <3>1, <3>2
  <2> QED
    BY <2>1, <2>2, <2>3, <2>4
       DEF TypeOK, NeverAmbiguous, WritingInv, Writing, SectorInv, ReinitInv, ProvisionSteps,
           AcknowledgedIsRecovered
<1>10. ASSUME WriteReport
       PROVE  IInv' /\ copies' = copies
  <2>1. pc = "json" /\ copies' = copies /\ target' = target
        /\ pc' = "idle" /\ status' = "OK" /\ req' = req
    BY <1>10 DEF WriteReport, Return
  <2>2. recover_status(copies) = "OK" /\ recover_selected(copies) = req
    <3>1. copies["A"] = provisioned(req) /\ copies["B"] = provisioned(req)
      BY <2>1, Zenon DEF ProvisionInv
    <3>2. decode_ok(provisioned(req))
      BY <1>0, <2>1, ProvisionedDecodes, Zenon DEF ProvisionInv, ProvisionSteps
    <3> QED
      BY <3>1, <3>2, SameImages
  <2> QED
    BY <1>0, <2>1, <2>2
       DEF TypeOK, NeverAmbiguous, WritingInv, Writing, SectorInv, ReinitInv, ProvisionInv,
           ProvisionSteps, AcknowledgedIsRecovered
<1>11. ASSUME ProvisionFailure
       PROVE  /\ IInv'
              /\ \/ recover_selected(copies') = recover_selected(copies)
                 \/ validate_transition(recover_selected(copies), recover_selected(copies')) = "OK"
  <2>1. pc \in ProvisionSteps /\ target' = target
        /\ pc' = "idle" /\ status' = "EXIT_FAILED" /\ req' = metadata_empty
    BY <1>11 DEF ProvisionFailure, Return
  <2>2. /\ copies' \in [Copies -> Cell]
        /\ recover_status(copies') # "ERR_AMBIGUOUS"
        /\ \/ recover_selected(copies') = recover_selected(copies)
           \/ validate_transition(recover_selected(copies), recover_selected(copies')) = "OK"
    <3>1. CASE UNCHANGED copies
      BY <1>0, <3>1
    <3>2. CASE ~UNCHANGED copies
      <4>1. PICK cell \in UnusableCells \cup {provisioned(req)} :
              pc # "json" /\ copies' = [copies EXCEPT ![image_sector] = cell]
        BY <1>11, <3>2 DEF ProvisionFailure
      <4>2. pc \in {"copy_a", "copy_b"}
        BY <2>1, <4>1 DEF ProvisionSteps
      <4>3. CASE cell = provisioned(req)
        <5>1. copies' = [copies EXCEPT ![image_sector] = provisioned(req)]
          BY <4>1, <4>3
        <5>2. recover_status(copies') # "ERR_AMBIGUOUS"
          BY <4>2, <5>1, ImageWritten
        <5> QED
          BY <4>2, <5>1, <5>2, ImageWritten
      <4>4. CASE cell \in UnusableCells
        BY <4>1, <4>2, <4>4, ImageCut, Zenon
      <4> QED
        BY <4>3, <4>4
    <3> QED
      BY <3>1, <3>2
  <2> QED
    BY <1>0, <2>1, <2>2
       DEF TypeOK, NeverAmbiguous, WritingInv, Writing, SectorInv, ReinitInv, ProvisionInv,
           ProvisionSteps, AcknowledgedIsRecovered
<1> QED
  BY <1>1, <1>2, <1>3, <1>4, <1>5, <1>6, <1>7, <1>8, <1>9, <1>10, <1>11 DEF Next

-----------------------------------------------------------------------------
(* The results.                                                            *)

\* The inductive invariant holds in every state of the journal.
THEOREM JournalInvariant == Spec => []IInv
<1>1. IInv /\ [Next]_vars => IInv'
  BY StepInv
<1> QED
  BY InitInv, <1>1, PTL DEF Spec

\* The journal's variables keep their types.
THEOREM JournalType == Spec => []TypeOK
<1>1. IInv => TypeOK
  BY DEF IInv
<1> QED
  BY JournalInvariant, <1>1, PTL

\* boot_metadata_recover never finds two valid copies that contradict each
\* other, whatever commits fail and wherever the power is cut.
THEOREM JournalNeverAmbiguous == Spec => []NeverAmbiguous
<1>1. IInv => NeverAmbiguous
  BY DEF IInv
<1> QED
  BY JournalInvariant, <1>1, PTL

\* The record that a reset would recover is never in the sector that
\* write_copy is erasing or programming.
THEOREM JournalSurvivingCopy == Spec => []SurvivingCopy
<1>1. IInv => SurvivingCopy
  BY OutsideSector DEF SurvivingCopy, Other, Copies
<1> QED
  BY JournalInvariant, <1>1, PTL

\* A commit that returned BOOT_METADATA_OK is what the next boot recovers.
THEOREM JournalAcknowledged == Spec => []AcknowledgedIsRecovered
<1>1. IInv => AcknowledgedIsRecovered
  BY DEF IInv
<1> QED
  BY JournalInvariant, <1>1, PTL

\* The atomic journal is stated with the same rules for records.
LEMMA SameRules ==
  /\ Atomic!Record = Record
  /\ \A r, n : Atomic!validate_transition(r, n) = validate_transition(r, n)
<1>1. Atomic!Record = Record
  BY DEF Atomic!Record, Record, Atomic!States, States, Atomic!SlotValues, SlotValues,
     Atomic!Slots, Slots, Atomic!BOOT_SLOT_NONE, BOOT_SLOT_NONE,
     Atomic!MAX_BOOT_ATTEMPTS, MAX_BOOT_ATTEMPTS
<1>2. ASSUME NEW r, NEW n
      PROVE  Atomic!validate_transition(r, n) = validate_transition(r, n)
  <2>1. Atomic!sequence_follows(r, n) <=> sequence_follows(r, n)
    BY DEF Atomic!sequence_follows, sequence_follows
  <2>2. Atomic!state_record_is_canonical(n) <=> state_record_is_canonical(n)
    BY DEF Atomic!state_record_is_canonical, state_record_is_canonical,
       Atomic!empty_is_canonical, empty_is_canonical,
       Atomic!confirmed_is_canonical, confirmed_is_canonical,
       Atomic!candidate_is_canonical, candidate_is_canonical,
       Atomic!BOOT_SLOT_NONE, BOOT_SLOT_NONE, Atomic!MAX_BOOT_ATTEMPTS, MAX_BOOT_ATTEMPTS
  <2>3. Atomic!transition_state_allowed(r.state, n.state)
          <=> transition_state_allowed(r.state, n.state)
    BY DEF Atomic!transition_state_allowed, transition_state_allowed
  <2>4. Atomic!transition_fields_allowed(r, n) <=> transition_fields_allowed(r, n)
    BY DEF Atomic!transition_fields_allowed, transition_fields_allowed,
       Atomic!BOOT_SLOT_NONE, BOOT_SLOT_NONE
  <2> QED
    BY <2>1, <2>2, <2>3, <2>4 DEF Atomic!validate_transition, validate_transition
<1> QED
  BY <1>1, <1>2

\* The flash-level journal implements the atomic one.
THEOREM JournalRefinement == Spec => ImplementsAtomicJournal
<1>1. Init => recover_selected(copies) \in Atomic!Record
  BY InitInv, SelectedType, SameRules DEF IInv, TypeOK
<1>2. IInv /\ [Next]_vars => [Atomic!Commit]_(recover_selected(copies))
  <2> SUFFICES ASSUME IInv, [Next]_vars
               PROVE  [Atomic!Commit]_(recover_selected(copies))
    OBVIOUS
  <2>1. recover_selected(copies)' \in Record
    BY StepInv, SelectedType DEF IInv, TypeOK
  <2> QED
    BY <2>1, StepInv, SameRules DEF Atomic!Commit
<1> QED
  BY JournalInvariant, <1>1, <1>2, PTL DEF Spec, ImplementsAtomicJournal, Atomic!Spec

\* boot_metadata_provision create-update-sequence delivers its three records
\* for every active slot, candidate slot and pair of versions the command line
\* can carry where the candidate is in the other slot with a newer version,
\* and for no other: no rule of the journal stops it halfway.
THEOREM SequenceProvisioned ==
  ASSUME NEW active \in Slots, NEW candidate \in Slots,
         NEW av \in ParsedVersions, NEW cv \in ParsedVersions, UINT32_MAX > 3
  PROVE  run_create_update_sequence(active, candidate, av, cv) # <<>>
           <=> active # candidate /\ 0 < av /\ av < cv
<1> DEFINE c == provision_confirmed_record(active, av)
           w == next_record(c, "WRITING", active, candidate, cv, 0, 0, 0)
           r == next_record(w, "CANDIDATE_READY", active, candidate, cv, 0, 0, 0)
<1>0. av \in Nat /\ cv \in Nat /\ UINT32_MAX \in Nat
  BY WidthAssumption, VersionAssumption DEF ParsedVersions
<1>1. /\ c.sequence = 1 /\ c.state = "CONFIRMED" /\ c.active_slot = active
      /\ c.candidate_slot = BOOT_SLOT_NONE /\ c.candidate_image_version = av
      /\ c.boot_attempt_count = 0 /\ c.confirmation_state = 1
  BY DEF provision_confirmed_record, next_record, metadata_empty
<1>2. /\ w.sequence = 2 /\ w.state = "WRITING" /\ w.active_slot = active
      /\ w.candidate_slot = candidate /\ w.candidate_image_version = cv
      /\ w.boot_attempt_count = 0 /\ w.confirmation_state = 0
  BY <1>1 DEF next_record
<1>3. /\ r.sequence = 3 /\ r.state = "CANDIDATE_READY" /\ r.active_slot = active
      /\ r.candidate_slot = candidate /\ r.candidate_image_version = cv
      /\ r.boot_attempt_count = 0 /\ r.confirmation_state = 0
  BY <1>2 DEF next_record
<1>4. run_create_update_sequence(active, candidate, av, cv) # <<>>
        <=> /\ active # candidate /\ cv > av
            /\ prepare_next_status(metadata_empty, c) = "OK"
            /\ prepare_next_status(c, w) = "OK"
            /\ prepare_next_status(w, r) = "OK"
  BY Zenon DEF run_create_update_sequence, provision_update_sequence
<1> HIDE DEF c, w, r
<1>5. prepare_next_status(metadata_empty, c) = "OK" <=> av # 0
  BY <1>0, <1>1 DEF prepare_next_status, validate_transition, sequence_follows,
     state_record_is_canonical, confirmed_is_canonical, transition_state_allowed,
     transition_fields_allowed, metadata_empty, Slots, BOOT_SLOT_NONE, MAX_BOOT_ATTEMPTS
<1>6. active # candidate /\ cv # 0 => prepare_next_status(c, w) = "OK"
  BY <1>0, <1>1, <1>2 DEF prepare_next_status, validate_transition, sequence_follows,
     state_record_is_canonical, candidate_is_canonical, transition_state_allowed,
     transition_fields_allowed, Slots, BOOT_SLOT_NONE, MAX_BOOT_ATTEMPTS
<1>7. active # candidate /\ cv # 0 => prepare_next_status(w, r) = "OK"
  BY <1>0, <1>2, <1>3 DEF prepare_next_status, validate_transition, sequence_follows,
     state_record_is_canonical, candidate_is_canonical, transition_state_allowed,
     transition_fields_allowed, Slots, BOOT_SLOT_NONE, MAX_BOOT_ATTEMPTS
<1> QED
  BY <1>0, <1>4, <1>5, <1>6, <1>7

\* install-sim of update_package.py keeps the journal's own rule in the flash
\* image it makes: while the package is being written the device would recover
\* the WRITING record and a commit would go to copy A, where the tool then puts
\* the CANDIDATE_READY record, a legal successor, which is what the finished
\* image recovers to.
THEOREM SimulatedInstall ==
  ASSUME NEW active \in Slots, NEW av \in ParsedVersions, NEW cv \in ParsedVersions,
         UINT32_MAX > 3,
         NEW records, records = metadata_update_sequence(active, av, cv), records # <<>>
  PROVE  /\ recover_status(simulated_writing(records)) = "OK"
         /\ recover_selected(simulated_writing(records)) = records[2]
         /\ commit_target(simulated_writing(records)) = "A"
         /\ validate_transition(records[2], records[3]) = "OK"
         /\ recover_status(simulated_installed(records)) = "OK"
         /\ recover_selected(simulated_installed(records)) = records[3]
<1> DEFINE candidate == IF active = "A" THEN "B" ELSE "A"
           c == provision_confirmed_record(active, av)
           w == next_record(c, "WRITING", active, candidate, cv, 0, 0, 0)
           r == next_record(w, "CANDIDATE_READY", active, candidate, cv, 0, 0, 0)
<1>0. av \in Nat /\ cv \in Nat /\ UINT32_MAX \in Nat /\ 0 \in Results
  BY WidthAssumption, VersionAssumption, ResultAssumption DEF ParsedVersions
<1>1. candidate \in Slots /\ active # candidate
  BY DEF Slots
<1>2. /\ records = <<c, w, r>>
      /\ prepare_next_status(metadata_empty, c) = "OK"
      /\ prepare_next_status(c, w) = "OK"
      /\ prepare_next_status(w, r) = "OK"
  BY Zenon DEF metadata_update_sequence, run_create_update_sequence, provision_update_sequence
<1>3. c \in Record /\ w \in Record /\ r \in Record
  BY <1>0, <1>1 DEF provision_confirmed_record, next_record, metadata_empty, Record, States,
     SlotValues, ParsedVersions, MAX_BOOT_ATTEMPTS
<1>4. c.sequence = 1 /\ w.sequence = 2 /\ r.sequence = 3
  BY DEF provision_confirmed_record, next_record, metadata_empty
<1> HIDE DEF candidate, c, w, r
<1>5. /\ validate_transition(metadata_empty, c) = "OK"
      /\ validate_transition(c, w) = "OK"
      /\ validate_transition(w, r) = "OK"
  BY <1>2, Zenon DEF prepare_next_status
<1>6. /\ state_record_is_canonical(c) /\ state_record_is_canonical(w)
      /\ state_record_is_canonical(r)
  BY <1>5, Zenon DEF validate_transition
<1>7. records[1] = c /\ records[2] = w /\ records[3] = r
  BY <1>2
<1> DEFINE before == simulated_writing(records)
           after == simulated_installed(records)
<1>8. /\ before["A"] = [body |-> c, marker |-> "set"] /\ before["B"] = [body |-> w, marker |-> "set"]
      /\ after["A"] = [body |-> r, marker |-> "set"] /\ after["B"] = [body |-> w, marker |-> "set"]
  BY <1>7, Zenon DEF simulated_writing, simulated_installed, provisioned, Copies
<1> HIDE DEF before, after
<1>9. a_valid(before) /\ b_valid(before) /\ a_valid(after) /\ b_valid(after)
  BY <1>3, <1>6, <1>8 DEF a_valid, b_valid, decode_ok
<1>10. recover_status(before) = "OK" /\ recover_copy(before) = "B" /\ recover_selected(before) = w
  BY <1>4, <1>8, <1>9 DEF recover_status, both_valid, recover_copy, recover_selected, COPY_NONE
<1>11. recover_status(after) = "OK" /\ recover_copy(after) = "A" /\ recover_selected(after) = r
  BY <1>4, <1>8, <1>9 DEF recover_status, both_valid, recover_copy, recover_selected, COPY_NONE
<1>12. commit_target(before) = "A"
  BY <1>9, <1>10 DEF commit_target
<1> QED
  BY <1>5, <1>7, <1>10, <1>11, <1>12 DEF before, after
=============================================================================
