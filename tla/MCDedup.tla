------------------------------ MODULE MCDedup ------------------------------
(***************************************************************************)
(* Dedup for TLC: two messages that differ in a masked number, an error, a  *)
(* message that comes with either level and shares the error's template,    *)
(* and one whose text has no tokens.                                        *)
(***************************************************************************)
EXTENDS Dedup

CONSTANTS req, one, two, db, down, up, dash

Entry(msg, level) == [msg |-> msg, level |-> level]

MCEntries ==
  {Entry(<<req, one>>, "INFO"), Entry(<<req, two>>, ""),
   Entry(<<db, down>>, "ERROR"), Entry(<<db, up>>, "FATAL"),
   Entry(<<db, up>>, "INFO"), Entry(<<dash, dash>>, "INFO")}

MCMessages == {e.msg : e \in MCEntries}
=============================================================================
