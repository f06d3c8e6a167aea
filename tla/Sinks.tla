-------------------------------- MODULE Sinks --------------------------------
(***************************************************************************)
(* What one Send of the Loki, Elasticsearch and stdout adapters may do      *)
(* (pkg/output/loki.go, elasticsearch.go, stdout.go).  The adapters keep no *)
(* state: a Send is one exchange with the sink, of which the adapter sees   *)
(* the response and the sink keeps what it took.                            *)
(*                                                                          *)
(* entries is the batch that is routed; a batch of one output is a sequence *)
(* of positions in entries.  A label is a pair of a key and a value.        *)
(***************************************************************************)
EXTENDS Naturals, Sequences, FiniteSets, Functions

CONSTANTS
  HighCardinality,  \* keys of isHighCardinalityLabel
  ContextKeys,      \* keys that begin with "context_"
  JobLabel          \* the label of an entry that has no other

ASSUME SinksAssumption == HighCardinality \cap ContextKeys = {}

-----------------------------------------------------------------------------
(* Loki *)

KeysOf(labels) == {l[1] : l \in labels}

\* Whether a label of the entry's own becomes a label of its stream.
Indexed(l) == l[1] \notin HighCardinality \cup ContextKeys

\* extractLabels: a label of the entry's own overwrites a core label of that key.
ExtractLabels(e) ==
  LET own == {l \in e.labels : Indexed(l)}
      all == own \cup {l \in e.core : l[1] \notin KeysOf(own)}
  IN IF all = {} THEN {JobLabel} ELSE all

\* Mutant of GroupByLabels: a stream of the same key replaces the one before it.
GroupByLabels_LastOnly(entries, batch) ==
  {{n} : n \in {m \in Range(batch) :
                   \A k \in Range(batch) :
                     ExtractLabels(entries[k]) = ExtractLabels(entries[m]) => k <= m}}

\* groupByLabels: entries of equal labels make one stream, here the set of their
\* positions; the values of a stream are in the order of the batch.
GroupByLabels(entries, batch) ==
  {{n \in Range(batch) : ExtractLabels(entries[n]) = ls} :
     ls \in {ExtractLabels(entries[n]) : n \in Range(batch)}}

-----------------------------------------------------------------------------
(* Responses.  None arrives when the request, the response or the connection   *)
(* is lost or the client's time-out passes.                                    *)

NoResponse == [status |-> "none", body |-> "none"]

Responses ==
  [status : {"200", "204", "other 2xx", "error"}, body : {"clean", "errors", "garbled"}]
  \cup {NoResponse}

\* LokiAdapter.Send returns nil.
PushAccepted(r) == r.status \in {"200", "204"}

\* Mutant of BulkAccepted: the errors flag of the response is not looked at.
BulkAccepted_IgnoresErrors(r) ==
  /\ r.body \in {"clean", "errors"}
  /\ r.status \in {"200", "204", "other 2xx"}

\* ElasticsearchAdapter.Send returns nil: the body can be decoded, whatever the
\* status, the status is a success, and no item failed.
BulkAccepted(r) ==
  /\ r.body \in {"clean", "errors"}
  /\ r.status \in {"200", "204", "other 2xx"}
  /\ r.body # "errors"

-----------------------------------------------------------------------------
(* The sinks, from outside. *)

\* Loki takes the values of every stream when it answers 200 or 204.  Any other answer,
\* or none, leaves open what it took.
PushExchanges(entries, batch) ==
  LET sent == UNION GroupByLabels(entries, batch)
  IN {x \in [response : Responses, taken : SUBSET Range(batch)] :
        x.response.status \in {"200", "204"} => x.taken = sent}

\* Elasticsearch answers item by item: a success without errors means that every item
\* was indexed, one with errors that some were not.  Any other answer, or none, leaves
\* open what it indexed.
BulkExchanges(batch) ==
  {x \in [response : Responses, taken : SUBSET Range(batch)] :
     x.response.status # "error" =>
       /\ x.response.body = "clean" => x.taken = Range(batch)
       /\ x.response.body = "errors" => x.taken # Range(batch)}

-----------------------------------------------------------------------------
(* Send: whether it returns nil, and the positions that the sink took. *)

\* StdoutAdapter.Send ignores the result of Fprintln.
Outcomes(kind, entries, batch) ==
  CASE kind = "loki" ->
         {[ok |-> PushAccepted(x.response), taken |-> x.taken] : x \in PushExchanges(entries, batch)}
    [] kind = "elasticsearch" ->
         {[ok |-> BulkAccepted(x.response), taken |-> x.taken] : x \in BulkExchanges(batch)}
    [] kind = "stdout" ->
         {[ok |-> TRUE, taken |-> t] : t \in SUBSET Range(batch)}
=============================================================================
