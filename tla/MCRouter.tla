------------------------------ MODULE MCRouter ------------------------------
(***************************************************************************)
(* Router for TLC: a Loki output, and an Elasticsearch output that callers  *)
(* may remove and add again at any time.                                    *)
(***************************************************************************)
EXTENDS Router

CONSTANTS loki, es

MCKind == [o \in Outputs |-> IF o = loki THEN "loki" ELSE "elasticsearch"]

MCJobLabel == <<"job", "logsieve">>

\* Entries for every output, and for one alone.  Two of Only(o, id) are of one stream,
\* because only a label that Loki does not index tells them apart.
Request(id) ==
  [output |-> NoOutput, core |-> {<<"level", "info">>}, labels |-> {<<"request_id", id>>}]

Only(o, id) ==
  [output |-> o, core |-> {}, labels |-> {<<"output", o>>, <<"request_id", id>>}]

MCBatches == {<<Only(loki, "1"), Only(loki, "2")>>, <<Request("1"), Only(es, "2")>>}
=============================================================================
