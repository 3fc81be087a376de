---------------------------- MODULE FlashHistory ----------------------------
(* The flash management with a history variable: the last payload that a       *)
(* WriteToFlash programmed to its end, noticed or not.  It says what a user of *)
(* the registry expects to find after a restart.                               *)
EXTENDS MCFlashManagment

VARIABLE newest

Programs == pc = "program" /\ index = WordsPerBlock /\ flash' # flash

HistoryInit == Init /\ newest = NoPayload

HistoryNext == Next /\ newest' = IF Programs THEN buffer ELSE newest

HistorySpec == HistoryInit /\ [][HistoryNext]_<<vars, newest>>

\* README.md:27, "Registry (like a dictionary) that use to save data in the
\* internal flash on the ST": once a payload has been saved, a start of the
\* program finds some saved payload, also after a power failure.
SavedSurvivesPowerLoss == pc = "off" /\ newest # NoPayload => Recovered # NoPayload

\* FlashManagment.cpp:54, FindLastLogicalBlock is to "Find the last block that store
\* the data": a start finds the newest saved payload or none, and never an older one,
\* also when the erase in Write, whose result EraseSector drops, has failed.
NeverRollsBack == pc = "off" => Recovered \in {newest, NoPayload}
==============================================================================
