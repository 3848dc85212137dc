----------------------------- MODULE MCDrivers -----------------------------
(* The two register-level drivers of the bootloader, side by side: they share *)
(* no state, so a behaviour is a behaviour of one of them.                    *)
(*                                                                            *)
(* Flash: seven cells in five sectors: bootloader, the two metadata copies, a slot   *)
(* and the recovery area.  Requests start and end on every side of them.      *)
EXTENDS FlashDriver, UartDriver

VARIABLE device     \* the driver at work

DriversInit ==
  /\ device \in {"flash", "uart"} /\ Init /\ UartInit
  /\ device = "uart" => dcen /\ cells = [a \in Addresses |-> 1]
DriversNext ==
  \/ device = "flash" /\ Next /\ UNCHANGED <<device, uart_vars>>
  \/ device = "uart" /\ UartNext /\ UNCHANGED <<device, vars>>
DriversSpec == DriversInit /\ [][DriversNext]_<<device, vars, uart_vars>>

Region(b, e) == [base |-> b, end |-> e]
MCSectors == <<Region(1, 2), Region(2, 4), Region(4, 5), Region(5, 7), Region(7, 8)>>
MCMetadataA == Region(2, 4)
MCMetadataB == Region(4, 5)
MCCandidate == Region(5, 7)
MCProtected == {Region(1, 2), Region(2, 4), Region(4, 5), Region(7, 8)}
MCLabRequests ==
  {<<>>, <<Region(5, 7)>>, <<Region(5, 6), Region(6, 7)>>, <<Region(5, 7), Region(6, 7)>>,
   <<Region(4, 6)>>, <<Region(6, 8)>>, <<Region(6, 6)>>, <<Region(6, 9)>>}
MCPrograms ==
  {<<a, d>> : a \in {0, 1, 4, 6, 7, 8, 9}, d \in {<<0>>, <<0, 0>>}}
  \cup {<<2, <<0, 1>>>>, <<5, <<0, 0>>>>, <<5, <<>>>>}
=============================================================================
