----------------------------- MODULE DrainTree -----------------------------
(***************************************************************************)
(* The template miner of pkg/dedup/drain3.go as functions on its state.     *)
(*                                                                          *)
(* A message is a sequence of words and delimiters; tokenize makes tokens   *)
(* of it.  The prefix tree is the set of its nodes, each named by the keys  *)
(* that lead to it; the first key, the number of tokens, is kept apart from *)
(* the others.  A similarity is the number of matching tokens: over         *)
(* templates of one length that orders them as the quotient does.           *)
(***************************************************************************)
EXTENDS Naturals, Sequences, FiniteSets, SequencesExt

CONSTANTS
  Messages,     \* the messages logged: sequences of words and delimiters
  Delimiters,   \* config.ExtraDelimiters, and space
  Mask,         \* the token "<NUM>", for all masks
  Masked,       \* the words that a masking rule matches
  Wild,         \* the token "<*>"
  MaxNodeDepth, \* config.MaxNodeDepth (4 in DefaultDrain3Config)
  MaxChildren,  \* config.MaxChildren: clusters a new cluster leaves in its leaf
  SimNum,       \* config.SimThreshold is SimNum / SimDen
  SimDen

ASSUME DrainAssumption ==
  /\ MaxNodeDepth \in Nat \ {0}
  /\ MaxChildren \in Nat \ {0}
  /\ SimNum \in Nat /\ SimDen \in Nat \ {0} /\ SimNum <= SimDen
  /\ \A m \in Messages : m \in Seq(ToSet(m))

\* clusters[id] is d.clusters[id] (ids are given out in order and never withdrawn),
\* nodes the tree's nodes, leaf[p] the ids in the Clusters of node p.
EmptyDrain == [clusters |-> <<>>, nodes |-> {}, leaf |-> [p \in {} |-> <<>>]]

\* The elements of s at the positions in P, in their order.
Kept(s, P) ==
  LET kept[n \in 0..Len(s)] ==
        IF n = 0 THEN <<>>
        ELSE IF n \in P THEN Append(kept[n - 1], s[n]) ELSE kept[n - 1]
  IN kept[Len(s)]

\* tokenize and applyMasking.
Tokenize(message) ==
  LET masked == [i \in DOMAIN message |->
                   IF message[i] \in Masked THEN Mask ELSE message[i]]
  IN Kept(masked, {i \in DOMAIN message : message[i] \notin Delimiters})

Node(len, keys) == [len |-> len, keys |-> keys]
NoNode == Node(0, <<>>)

\* How many tokens lead to a leaf.
KeyDepth(len) == IF len < MaxNodeDepth - 1 THEN len ELSE MaxNodeDepth - 1

Child(p, key) == Node(p.len, Append(p.keys, key))

LeafClusters(d, p) == IF p \in DOMAIN d.leaf THEN d.leaf[p] ELSE <<>>

\* One level of treeSearch: the exact child if there is one, else the wildcard child,
\* else nothing.
Step(d, p, token) ==
  IF p = NoNode THEN NoNode
  ELSE IF Child(p, token) \in d.nodes THEN Child(p, token)
  ELSE IF Child(p, Wild) \in d.nodes THEN Child(p, Wild)
  ELSE NoNode

\* The leaf that treeSearch reaches; it never comes back.
Descend(d, tokens) ==
  LET root == Node(Len(tokens), <<>>)
      path[n \in 0..KeyDepth(Len(tokens))] ==
        IF n = 0 THEN (IF root \in d.nodes THEN root ELSE NoNode)
        ELSE Step(d, path[n - 1], tokens[n])
  IN path[KeyDepth(Len(tokens))]

\* calculateSimilarity, times the length.
Matches(template, tokens) ==
  IF Len(template) # Len(tokens) THEN 0
  ELSE Cardinality({i \in DOMAIN tokens : template[i] \in {tokens[i], Wild}})

Similar(template, tokens) ==
  /\ Matches(template, tokens) > 0
  /\ Matches(template, tokens) * SimDen >= SimNum * Len(tokens)

\* treeSearch: the first of the most similar clusters in the leaf; 0 for nil.
TreeSearch(d, tokens) ==
  LET ids == LeafClusters(d, Descend(d, tokens))
      m(i) == Matches(d.clusters[ids[i]].template, tokens)
      best == {i \in DOMAIN ids :
                 /\ Similar(d.clusters[ids[i]].template, tokens)
                 /\ \A j \in DOMAIN ids : m(j) < m(i) \/ (m(j) = m(i) /\ i <= j)}
  IN IF best = {} THEN 0 ELSE ids[CHOOSE i \in best : TRUE]

\* Mutant of Insert: eviction removes the newest cluster of the leaf.
Insert_EvictsNewest(d, tokens) ==
  LET id == Len(d.clusters) + 1
      k == KeyDepth(Len(tokens))
      p == Node(Len(tokens), SubSeq(tokens, 1, k))
      ids == Append(LeafClusters(d, p), id)
  IN [clusters |-> Append(d.clusters, [template |-> tokens, size |-> 1]),
      nodes |-> d.nodes \cup {Node(Len(tokens), SubSeq(tokens, 1, n)) : n \in 0..k},
      leaf |-> [q \in DOMAIN d.leaf \cup {p} |->
                  IF q # p THEN d.leaf[q]
                  ELSE IF Len(ids) > MaxChildren THEN Front(ids) ELSE ids]]

\* createCluster and addClusterToTree: the cluster goes to the leaf of its own
\* tokens; when the leaf is full its oldest cluster is dropped from the leaf (but not
\* from d.clusters).
Insert(d, tokens) ==
  LET id == Len(d.clusters) + 1
      k == KeyDepth(Len(tokens))
      p == Node(Len(tokens), SubSeq(tokens, 1, k))
      ids == Append(LeafClusters(d, p), id)
  IN [clusters |-> Append(d.clusters, [template |-> tokens, size |-> 1]),
      nodes |-> d.nodes \cup {Node(Len(tokens), SubSeq(tokens, 1, n)) : n \in 0..k},
      leaf |-> [q \in DOMAIN d.leaf \cup {p} |->
                  IF q # p THEN d.leaf[q]
                  ELSE IF Len(ids) > MaxChildren THEN Tail(ids) ELSE ids]]

\* addWildcardPathForCluster: the cluster is also put into the leaf under wildcards
\* only; on the way every specific token of the template gets a node of its own, with
\* nothing in it, beside the wildcard.
AddWildcardPath(d, id) ==
  LET template == d.clusters[id].template
      len == Len(template)
      k == KeyDepth(len)
      wilds(n) == [i \in 1..n |-> Wild]
      p == Node(len, wilds(k))
      ids == LeafClusters(d, p)
  IN [clusters |-> d.clusters,
      nodes |-> d.nodes
                \cup {Node(len, wilds(n)) : n \in 0..k}
                \cup {Node(len, Append(wilds(n - 1), template[n])) : n \in 1..k},
      leaf |-> [q \in DOMAIN d.leaf \cup {p} |->
                  IF q # p THEN d.leaf[q]
                  ELSE IF id \in ToSet(ids) THEN ids ELSE Append(ids, id)]]

\* Mutant of Generalise: only the first difference is generalised.
Generalise_First(template, tokens) ==
  [i \in DOMAIN template |->
     IF /\ template[i] # tokens[i]
        /\ \A j \in 1..i - 1 : template[j] \in {tokens[j], Wild}
     THEN Wild ELSE template[i]]

\* updateTemplate: what differs becomes a wildcard.
Generalise(template, tokens) ==
  [i \in DOMAIN template |-> IF template[i] = tokens[i] THEN template[i] ELSE Wild]

\* The update branch of AddLogMessage.
Absorb(d, id, tokens) ==
  LET old == d.clusters[id]
      new == [template |-> Generalise(old.template, tokens), size |-> old.size + 1]
      e == [d EXCEPT !.clusters[id] = new]
  IN IF new.template = old.template THEN e ELSE AddWildcardPath(e, id)

\* AddLogMessage on a message: the new state.  A message without tokens changes
\* nothing.
AddLogMessage(d, message) ==
  LET tokens == Tokenize(message)
  IN IF tokens = <<>> THEN d
     ELSE IF TreeSearch(d, tokens) = 0 THEN Insert(d, tokens)
     ELSE Absorb(d, TreeSearch(d, tokens), tokens)

\* The ClusterID that AddLogMessage returns; 0 for a message without tokens.
ClusterOf(d, message) ==
  LET tokens == Tokenize(message)
  IN IF tokens = <<>> THEN 0
     ELSE IF TreeSearch(d, tokens) = 0 THEN Len(d.clusters) + 1
     ELSE TreeSearch(d, tokens)

\* AddLogMessage returns "cluster_created".
CreatesCluster(d, message) ==
  Tokenize(message) # <<>> /\ TreeSearch(d, Tokenize(message)) = 0

Placeholders == {Wild, Mask}

\* extractParametersFromTokens
Parameters(template, tokens) ==
  Kept(tokens, {i \in DOMAIN tokens : template[i] \in Placeholders})

NoMatch == [cluster |-> 0, template |-> <<>>, parameters |-> <<>>]

\* Match, which changes nothing.
Match(d, message) ==
  LET tokens == Tokenize(message)
      id == TreeSearch(d, tokens)
  IN IF tokens = <<>> \/ id = 0 THEN NoMatch
     ELSE [cluster |-> id, template |-> d.clusters[id].template,
           parameters |-> Parameters(d.clusters[id].template, tokens)]

\* A template stands for a message.
Covers(template, tokens) ==
  /\ Len(template) = Len(tokens)
  /\ \A i \in DOMAIN tokens : template[i] \in {tokens[i], Wild}
=============================================================================
