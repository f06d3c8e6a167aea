---------------------------- MODULE MCDiskBuffer ----------------------------
(***************************************************************************)
(* DiskBuffer for TLC: three entries of which one is too long, or three of  *)
(* which one cannot be encoded, after four that an earlier process lost.    *)
(***************************************************************************)
EXTENDS DiskBuffer

Earlier ==
  /\ accepted = 0
  /\ crashes = 0 /\ faults = 0
  /\ adding = [a \in Adders |-> "idle"] /\ ~closed /\ reader = "list"
  /\ accepted' = 4
  /\ gone' = 1..4
  /\ UNCHANGED <<closed, in, adding, writerVars, diskVars, readerVars, endVars, faults, resent>>

MCNext ==
  \/ Earlier
  \/ \E a \in Adders : AddChecked(a) /\ accepted # 3
  \/ \E a \in Adders : AddSend(a) \/ AddFails(a)
  \/ WriterStep
  \/ ReaderStep
  \/ CloseIn
  \/ CloseBatches
  \/ ReceiveBatch
  \/ CrashAndRestart

MCSpec == Init /\ [][MCNext]_vars /\ WF_vars(WriterStep) /\ WF_vars(ReaderStep)
=============================================================================
