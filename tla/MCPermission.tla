---------------------------- MODULE MCPermission -----------------------------
EXTENDS Permission, TLC

CONSTANTS ls, rm, src, conf

Symmetry == Permutations(Requests)

MCPatterns == {ls, rm, src, conf}
AnyBash    == {ls, rm}
AnyEdit    == {src, conf}
MCRules    == {AnyBash, {ls}, AnyEdit}

\* Bash commands: the rule hierarchy of a command, broad rules first.
Bash(s, ps, rs) ==
  [session |-> s, patterns |-> ps, rules |-> <<AnyBash, {ls}>>, always |-> {ls},
   ruleset |-> rs]

\* File edits: one file or, for a patch, several; "always" is "*".
Edit(s, ps, rs) ==
  [session |-> s, patterns |-> ps, rules |-> <<AnyEdit>>, always |-> AnyEdit,
   ruleset |-> rs]

\* The rules of two agents.
Careful == [p \in MCPatterns |-> "ask"]
Free    == [p \in MCPatterns |-> IF p \in {ls, rm} THEN "ask" ELSE "allow"]
NoRm    == [p \in MCPatterns |-> IF p = rm THEN "deny" ELSE "ask"]

MCAsks == {Bash("main", <<ls>>, Careful), Bash("sub", <<ls, rm>>, NoRm),
           Edit("main", <<src>>, Careful),
           Edit("main", <<src, conf>>, Careful), Edit("sub", <<conf>>, Free)}
=============================================================================
