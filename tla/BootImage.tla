------------------------------ MODULE BootImage ------------------------------
(***************************************************************************)
(* What the two firmware slots hold and what a signed update package       *)
(* offers, abstracted to what the boot decisions tell apart: the version   *)
(* in the signed manifest, how much of the payload is in flash, and        *)
(* whether those bytes are the ones that were signed.  Cryptography is     *)
(* assumed to do what it promises.                                         *)
(***************************************************************************)
EXTENDS BootMetadata

CONSTANTS
  MIN_IMAGE_VERSION,   \* the smallest version the verifier accepts
  PayloadBlocks        \* the size of a payload, in program-buffer blocks

ASSUME MinVersionAssumption == MIN_IMAGE_VERSION \in Nat \ {0}
ASSUME PayloadAssumption == PayloadBlocks \in Nat \ {0}

\* genuine: every byte programmed so far is the byte that was signed.
Image == [version : Versions \cup {0}, programmed : 0..PayloadBlocks, genuine : BOOLEAN]

NoImage == [version |-> 0, programmed |-> 0, genuine |-> FALSE]

WholeImage(v) == [version |-> v, programmed |-> PayloadBlocks, genuine |-> TRUE]

\* signed_image_verify_update_slot_buffer: the manifest is well formed and
\* recent enough, the payload lies in the slot, signature and hash agree.
image_verifies(image) ==
  /\ image.version >= MIN_IMAGE_VERSION
  /\ image.programmed = PayloadBlocks
  /\ image.genuine

\* An update package's header: the version it carries, the slot it was linked
\* for (none if the signature is wrong), and whether it fits once its size
\* is rounded up to the programming unit.
Package == [version : Versions, slot : SlotValues, fits : BOOLEAN]

verify_header_for_slot(package, slot) ==
  /\ package.slot = slot
  /\ package.version >= MIN_IMAGE_VERSION

candidate_package_fits(package) == package.fits
==============================================================================
