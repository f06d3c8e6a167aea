------------------------------- MODULE Drain -------------------------------
(***************************************************************************)
(* The template miner at work: messages are added one at a time (Engine     *)
(* holds its lock around AddLogMessage) and Reset starts afresh.            *)
(***************************************************************************)
EXTENDS DrainTree, Functions

CONSTANT MaxMessages   \* bound: messages added between two resets

VARIABLES
  miner,    \* the miner's state
  members,  \* history: members[id] are the messages that went to cluster id
  added,    \* history: how many messages with tokens were added
  last      \* history: the last message added, or <<>>

drainVars == <<miner, members, added, last>>

DrainInit ==
  /\ miner = EmptyDrain
  /\ members = <<>>
  /\ added = 0
  /\ last = <<>>

Add(m) ==
  /\ added < MaxMessages
  /\ miner' = AddLogMessage(miner, m)
  /\ members' = IF Tokenize(m) = <<>> THEN members
                ELSE IF CreatesCluster(miner, m) THEN Append(members, {m})
                ELSE [members EXCEPT ![ClusterOf(miner, m)] = @ \cup {m}]
  /\ added' = IF Tokenize(m) = <<>> THEN added ELSE added + 1
  /\ last' = m

ResetMiner ==
  /\ miner' = EmptyDrain
  /\ members' = <<>>
  /\ added' = 0
  /\ last' = <<>>

DrainNext == (\E m \in Messages : Add(m)) \/ ResetMiner

DrainSpec == DrainInit /\ [][DrainNext]_drainVars

-----------------------------------------------------------------------------
(* Properties. *)

Ids == DOMAIN miner.clusters

\* The tree refers to clusters that exist, its leaves are nodes, every node's parent
\* is one, and there are as many templates as clusters with members.
DrainTypeOK ==
  /\ added \in 0..MaxMessages
  /\ miner.clusters \in Seq([template : Seq(UNION {Range(m) : m \in Messages} \cup Placeholders),
                             size : 1..MaxMessages])
  /\ DOMAIN members = Ids
  /\ DOMAIN miner.leaf \subseteq miner.nodes
  /\ \A p \in DOMAIN miner.leaf : Range(miner.leaf[p]) \subseteq Ids
  /\ \A p \in miner.nodes :
       p.keys = <<>> \/ Node(p.len, SubSeq(p.keys, 1, Len(p.keys) - 1)) \in miner.nodes

\* A template always stands for every message that was ever counted to it, whatever
\* the cluster has absorbed since: no suppressed line is misrepresented by the
\* template under which it was suppressed.
TemplatesCoverMembers ==
  \A id \in Ids : \A m \in members[id] : Covers(miner.clusters[id].template, Tokenize(m))

\* A template with its placeholders replaced, from left to right.
Filled(template, parameters) ==
  [i \in DOMAIN template |->
     IF template[i] \in Placeholders
     THEN parameters[Cardinality({j \in 1..i : template[j] \in Placeholders})]
     ELSE template[i]]

\* A message that has just been added is recognised by Match, with parameters from which
\* its tokens can be put together again, however the addition has changed templates and
\* tree and evicted from leaves: its repetition never makes a new cluster.
LastIsFound ==
  last # <<>> /\ Tokenize(last) # <<>> =>
    /\ Match(miner, last) # NoMatch
    /\ Filled(Match(miner, last).template, Match(miner, last).parameters) = Tokenize(last)
=============================================================================
