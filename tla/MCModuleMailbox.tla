------------------------ MODULE MCModuleMailbox ------------------------
(* Instances of ModuleMailbox for TLC. *)
EXTENDS ModuleMailbox, TLC

(* Two modules of one level are stopped in start order; with MCTwoLevels the *)
(* second one, of a higher level, is stopped first.                          *)
MCOneLevel == [m \in Modules |-> 0]
MCTwoLevels == [m \in Modules |-> m]

(* Producers are interchangeable; only the safety runs use it. *)
MCSymmetry == Permutations(Producers)
=============================================================================
