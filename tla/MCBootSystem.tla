---------------------------- MODULE MCBootSystem ----------------------------
(* A small instance of BootSystem for TLC.                                 *)
EXTENDS BootSystem

\* Good packages for both slots, one that is too large and one that is not
\* signed for any slot.
MCPackages ==
  [version : Versions, slot : Slots, fits : {TRUE}]
    \cup {[version |-> 3, slot |-> "B", fits |-> FALSE],
          [version |-> 3, slot |-> BOOT_SLOT_NONE, fits |-> TRUE]}

=============================================================================
