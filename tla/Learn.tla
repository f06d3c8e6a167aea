------------------------------- MODULE Learn -------------------------------
(***************************************************************************)
(* `logsieve learn` and `logsieve audit` (cmd/logsieve/main.go).  learn     *)
(* feeds the lines of a file to a miner of its own (module Drain) and turns *)
(* the largest clusters into rules until they make up the wanted coverage;  *)
(* audit counts the lines that the rules of a profile match.                *)
(*                                                                          *)
(* A line is a message as the miner sees it: words with delimiters of the   *)
(* miner between some of them, and white space at an edge.  Words stand     *)
(* apart unless a delimiter joins them.  A rule is a template:              *)
(* templateToRegex makes \S+ of a token in angle brackets, the literal of   *)
(* any other, \s+ of what is between, and anchors it at both ends.          *)
(***************************************************************************)
EXTENDS Drain

CONSTANTS
  Space,    \* white space at an edge of a line, which nothing trims
  Joined,   \* a field with a delimiter of the miner in it
  CovNum,   \* the wanted coverage is CovNum / CovDen
  CovDen

\* There are finitely many lines: scanner.Buffer limits their length.
ASSUME LearnAssumption ==
  /\ CovNum \in Nat /\ CovDen \in Nat \ {0} /\ CovNum <= CovDen
  /\ Joined \notin Placeholders
  /\ IsFiniteSet(Messages)
  /\ Space \in Delimiters
  /\ \A m \in Messages : \A i \in 2..Len(m) - 1 : m[i] # Space

VARIABLE lines   \* lines[m]: how many lines m the file had so far

learnVars == <<drainVars, lines>>

NoLines == [m \in Messages |-> 0]

LearnInit == DrainInit /\ lines = NoLines

TotalLines == SumFunction(lines)

\* The next line of the file that is not blank.  Bound: a file has at most MaxMessages
\* lines.
ReadLine(m) ==
  /\ TotalLines < MaxMessages
  /\ \E i \in DOMAIN m : m[i] # Space
  /\ Add(m)
  /\ lines' = [lines EXCEPT ![m] = @ + 1]

\* The end of the file, and of the process once the profile is written.
LearnEnds ==
  /\ ResetMiner
  /\ lines' = NoLines

-----------------------------------------------------------------------------
(* What learn makes of its clusters. *)

Sizes == [id \in DOMAIN miner.clusters |-> miner.clusters[id].size]

\* GetTopClusters(0): all of them, larger ones first, those of one size in any order.
TopClusters ==
  LET ids == DOMAIN miner.clusters
  IN {s \in Bijection(ids, ids) : \A i, j \in ids : i < j => Sizes[s[i]] >= Sizes[s[j]]}

TargetCoverage == (SumFunction(Sizes) * CovNum) \div CovDen

\* The messages that the first n clusters of s cover.
CoveredMessages(s, n) == SumFunction([i \in 1..n |-> Sizes[s[i]]])

\* Mutant of Taken: the last cluster is left out.
Taken_OneLess(s, n) ==
  /\ n = 0 \/ CoveredMessages(s, n - 1) < TargetCoverage
  /\ n = Len(s) \/ (n < Len(s) /\ CoveredMessages(s, n + 1) >= TargetCoverage)

\* The loop stops after n clusters of s: not before the coverage is reached, and then at
\* once.
Taken(s, n) ==
  /\ n = 0 \/ CoveredMessages(s, n - 1) < TargetCoverage
  /\ n = Len(s) \/ CoveredMessages(s, n) >= TargetCoverage

\* The fingerprints that learn may write.
FingerprintRules ==
  UNION {{[i \in 1..n |-> miner.clusters[s[i]].template] :
            n \in {k \in 0..Len(miner.clusters) : Taken(s, k)}} : s \in TopClusters}

-----------------------------------------------------------------------------
(* What audit makes of a line. *)

\* The white-space separated fields of a line.
Fields(line) ==
  LET glued(i) == i \in DOMAIN line /\ line[i] \in Delimiters
      starts == Kept([i \in DOMAIN line |-> i],
                     {i \in DOMAIN line : i = 1 \/ ~(glued(i - 1) \/ glued(i))})
  IN [k \in DOMAIN starts |->
        IF glued(starts[k]) \/ glued(starts[k] + 1) THEN Joined ELSE line[starts[k]]]

HasEdge(line) == line # <<>> /\ Space \in {line[1], line[Len(line)]}

\* Mutant of RuleMatches: the regular expression spells masks out.
RuleMatches_SpellsMasks(rule, line) ==
  LET fields == Fields(line)
  IN ~HasEdge(line) /\ Len(rule) = Len(fields) /\ \A i \in DOMAIN rule : rule[i] \in {Wild, fields[i]}

\* FingerprintRule.Matches on a rule that templateToRegex has made: no rule matches
\* white space at an edge.
RuleMatches(rule, line) ==
  LET fields == Fields(line)
  IN ~HasEdge(line) /\ Len(rule) = Len(fields) /\ \A i \in DOMAIN rule : rule[i] \in Placeholders \cup {fields[i]}

\* AuditStats.MatchedLines: a line counts once, for the first rule that matches it.
MatchedLines(rules) ==
  SumFunctionOnSet(lines, {m \in Messages : \E i \in DOMAIN rules : RuleMatches(rules[i], m)})

-----------------------------------------------------------------------------
(* Properties. *)

\* Lines of which the miner and the regular expression see different tokens: there is a
\* delimiter of the miner between words, or white space at an edge.
HasDelimiter(line) == \E i \in DOMAIN line : line[i] \in Delimiters

\* Whenever the file ends and however ties are broken, an audit of the same lines with
\* the learned profile matches as many as learn wanted covered, less those with a
\* delimiter of the miner in them and those with white space at an edge, which are mined
\* and may never be matched: templates that were generalised later, masks and rules that
\* overlap lose nothing.
LearnedCovers ==
  \A rules \in FingerprintRules :
    MatchedLines(rules) + SumFunctionOnSet(lines, {m \in Messages : HasDelimiter(m)})
      >= TargetCoverage
=============================================================================
