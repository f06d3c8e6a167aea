----------------------------- MODULE MCProfiles -----------------------------
(***************************************************************************)
(* Profiles for TLC: lines of up to five tokens, of which two lead to a     *)
(* leaf; a learned profile with the name of a built-in one.                 *)
(***************************************************************************)
EXTENDS Profiles

CONSTANTS a, b, c, one, two, colon, space

\* Pairs of tokens, one with a delimiter and one indented; three-token messages that
\* differ in one or two places or in a masked number, one with a literal "<*>"; messages
\* of one leaf that are similar but for two places, and two that are not similar; one
\* without tokens.
MCMessages ==
  {<<a, a>>, <<a, colon, b>>, <<space, a, a>>}
  \cup {<<a, b, one>>, <<a, b, two>>, <<a, b, b>>, <<a, a, c>>, <<b, a, one>>, <<Wild, b, c>>}
  \cup {<<a, b, a, a>>, <<a, b, b, b>>, <<a, b, a, a, a>>, <<a, b, b, b, b>>}
  \cup {<<colon>>}

Profile(name, from, trusted) ==
  [name |-> name, from |-> from, valid |-> TRUE, trusted |-> trusted]

\* Only the pattern "*" for images makes verifyProfile pass an unsigned profile in
\* strict mode.
MCBuiltin == {Profile("generic", "builtin", TRUE), Profile("nginx", "builtin", FALSE)}
MCLearned == Profile("nginx", "local", TRUE)
MCInCache == {Profile("nginx", "cache", FALSE)}
MCOffered == {Profile("nginx", "api", FALSE)}
=============================================================================
