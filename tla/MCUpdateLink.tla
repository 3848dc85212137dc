---------------------------- MODULE MCUpdateLink ----------------------------
(***************************************************************************)
(* The update link at two levels, side by side and sharing no state.       *)
(* "frames": UpdateLink on two packages of two blocks, with sequence       *)
(* numbers that wrap in the middle of an update.  "bytes": FrameReader     *)
(* over an alphabet just large enough for a three-byte magic and for       *)
(* lengths on both sides of the limit.                                     *)
(***************************************************************************)
EXTENDS UpdateLink, FrameReader

CONSTANTS p1, p2

VARIABLE level  \* which of the two a behaviour is about

AtFrames(A) == level = "frames" /\ A /\ UNCHANGED <<level, reader_vars>>
LevelsInit == level \in {"frames", "bytes"} /\ Init /\ ReaderInit
LevelsNext ==
  \/ AtFrames(Next)
  \/ level = "bytes" /\ ReaderNext /\ UNCHANGED <<level, vars>>
LevelsSpec == LevelsInit /\ [][LevelsNext]_<<level, vars, reader_vars>> /\ Fairness
NoisyLineSpec ==
  level = "frames" /\ LevelsInit /\ [][AtFrames(Next \/ Garbage)]_<<level, vars, reader_vars>> /\ Fairness

TwoPackages == {p1, p2}
OnePackage == {p1}
ThreeByteMagic == <<1, 2, 3>>
=============================================================================
