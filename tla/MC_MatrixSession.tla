------------------------- MODULE MC_MatrixSession -------------------------
(***************************************************************************)
(* Small instances of MatrixSession for TLC.                               *)
(***************************************************************************)
EXTENDS MatrixSession

CONSTANTS p1, p2

ZeroLen == [r \in Regions |-> 0]
NoEntries == [ph \in Phases |-> {}]

(* Every table below leaves the remap fields of its entries NULL.        *)
NoForged == [ph \in Phases |-> {}]

(* The end-to-end scenario of the spec (2 MSR reads at init, 1 per poll)  *)
(* with 2 polls, the power-island pci_ops read each poll needs, and one   *)
(* memory-map entry (ctrl and data address) polled each iteration.        *)
TablePoll ==
  [len |-> [ZeroLen EXCEPT ![<<"msr", "init">>] = 2, ![<<"msr", "poll">>] = 1,
                           ![<<"pci", "poll">>] = 1, ![<<"mem", "poll">>] = 1],
   wb  |-> [ZeroLen EXCEPT ![<<"msr", "init">>] = 2, ![<<"msr", "poll">>] = 1,
                           ![<<"pci", "poll">>] = 2, ![<<"mem", "poll">>] = 1],
   records |-> 2,
   ctrl |-> [NoEntries EXCEPT !["poll"] = {1}],
   data |-> [NoEntries EXCEPT !["poll"] = {1}],
   sized |-> [NoEntries EXCEPT !["poll"] = {1}],
   forged |-> NoForged,
   scu |-> 0]

(* One memory-map entry (data address only) read at init and at term,    *)
(* a single poll with no fallible operation, one SCU register.            *)
TableInitTerm ==
  [len |-> [ZeroLen EXCEPT ![<<"mem", "init">>] = 1, ![<<"mem", "term">>] = 1,
                           ![<<"pci", "poll">>] = 1],
   wb  |-> [ZeroLen EXCEPT ![<<"mem", "init">>] = 1, ![<<"mem", "term">>] = 1,
                           ![<<"pci", "poll">>] = 2],
   records |-> 1,
   ctrl |-> NoEntries,
   data |-> [NoEntries EXCEPT !["init"] = {1}, !["term"] = {1}],
   sized |-> [NoEntries EXCEPT !["init"] = {1}, !["term"] = {1}],
   forged |-> NoForged,
   scu |-> 1]

(* A table without the poll pci_ops entry mt_initialize_memory reads.    *)
TableNoPci ==
  [len |-> [ZeroLen EXCEPT ![<<"msr", "init">>] = 1],
   wb  |-> [ZeroLen EXCEPT ![<<"msr", "init">>] = 1],
   records |-> 1, ctrl |-> NoEntries, data |-> NoEntries,
   sized |-> NoEntries, forged |-> NoForged, scu |-> 0]

MCDescs == {TablePoll, TableInitTerm}
MCDescsNoPci == {TablePoll, TableNoPci}
MCDescsAll == {TablePoll, TableInitTerm, TableNoPci}
OneProc == {p1}
TwoProcs == {p1, p2}
=============================================================================
