---------------------------- MODULE MCEntryTiming ----------------------------
(* An instance of EntryTiming on the venues and the symbol of MCEngine.        *)
EXTENDS EntryTiming

CONSTANTS bn, bb, btc

=============================================================================
