--------------------------- MODULE MCEntryWindow ----------------------------
(* EntryWindow over six bytes: 0 is a control byte, 1 and 2 are the magic   *)
(* and at the same time text, as the magic "SUPD" is, 3 is the space.       *)
EXTENDS EntryWindow

TwoByteMagic == <<1, 2>>
TextBytes == {1, 2, 3}
NewlineBytes == {4}
EraseBytes == {5}
CommandWords == [BOOT |-> <<1>>, RESET |-> <<2>>, RECOVERY |-> <<1, 2>>]
=============================================================================
