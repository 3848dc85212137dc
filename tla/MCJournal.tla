----------------------------- MODULE MCJournal -----------------------------
(* The journal for TLC: a counter that ends at UINT32_MAX = 5, and callers *)
(* that hand in every well-formed record and some malformed ones.          *)
EXTENDS MetadataJournal

MalformedRequests ==
  {[metadata_empty EXCEPT !.state = "WRITING", !.candidate_slot = "B",
                          !.candidate_image_version = v, !.sequence = n] :
     n \in {0, UINT32_MAX}, v \in Versions \ {1}}
  \cup
  {[metadata_empty EXCEPT !.state = s, !.sequence = n] :
     n \in 1..UINT32_MAX, s \in {"WRITING", "CONFIRMED"}}

\* The records the factory tool prepares for an update of version 1.
UpdateSequence ==
  LET records == provision_update_sequence("A", "B", 1, 2)
  IN {records[i] : i \in DOMAIN records}

\* Confirmed slot A updated into slot B, or slot A bootstrapped with no confirmed
\* slot; the other half of the records is the mirror image.  Of the attempt
\* counts the first, a middle and the last value are kept.
MCRequests ==
  {r \in Record : /\ state_record_is_canonical(r)
                  /\ <<r.active_slot, r.candidate_slot>> \in
                       {<<"A", "B">>, <<"A", "NONE">>, <<"B", "NONE">>, <<"NONE", "A">>}
                  /\ r.boot_attempt_count # 3 /\ r.candidate_image_version # 1}
  \cup MalformedRequests \cup UpdateSequence
=============================================================================
