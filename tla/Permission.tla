------------------------------ MODULE Permission ------------------------------
(***************************************************************************)
(* Permission requests of one project instance: the tools of all sessions  *)
(* and subagents ask, clients reply or save rules, and rules answer the    *)
(* requests that they come to cover                                        *)
(* (packages/opencode/src/permission/next.ts, kilocode/permission).        *)
(*                                                                         *)
(* A pattern of a request, with its permission (bash, edit, ...), is a     *)
(* model value.  A rule, a permission and a wildcard, is the set of the    *)
(* patterns it matches.  The last matching rule decides, and the approved  *)
(* rules follow those of the agent: so the approved rules are kept as the  *)
(* action that the last of them gives each pattern.                        *)
(***************************************************************************)
EXTENDS Naturals, Sequences, FiniteSetsExt

CONSTANTS
  Requests,   \* identifiers of the requests tools make
  Patterns,   \* what they ask for: commands, files
  Rules,      \* the rules that can be approved, as sets of patterns
  Protected,  \* the patterns that name config files
  Asks,       \* the requests a run lets tools make
  Replies,    \* the replies a run lets clients give
  MaxSaves    \* bound: config updates the clients' decisions make

Actions  == {"allow", "ask", "deny"}
Decision == {"none", "allow", "deny"}

\* "rules" lists metadata.rules and then "always", as saveAlwaysRules does.
Request == [session : STRING, patterns : Seq(Patterns), rules : Seq(Rules),
            always : Rules, ruleset : [Patterns -> Actions]]

ASSUME RulesAssumption == Rules \subseteq SUBSET Patterns
ASSUME ProtectedAssumption == Protected \subseteq Patterns
ASSUME AsksAssumption == \A q \in Asks : q \in Request
ASSUME RepliesAssumption == Replies \subseteq {"once", "always", "reject"}
ASSUME MaxSavesAssumption == MaxSaves \in Nat

VARIABLES
  approved,   \* what the approved rules say of each pattern
  pending,    \* the requests that wait
  info,       \* the request made under an identifier
  outcome,    \* how the promise of a request stands
  save,       \* the config update a call on a request has under way
  config,     \* the permission rules in the global config file
  answered,   \* history: requests a client replied to with once or always
  saves       \* config updates begun so far

vars == <<approved, pending, info, outcome, save, config, answered, saves>>
history == <<answered, saves>>

Outcomes == {"new", "waiting", "granted", "rejected", "denied"}
NoRules  == [u \in Rules |-> "none"]
Save == [stage : {"none", "read", "write"}, rules : [Rules -> Decision],
         seen : [Rules -> Decision], drain : BOOLEAN]
NoSave == [stage |-> "none", rules |-> NoRules, seen |-> NoRules, drain |-> FALSE]

\* PermissionNext.evaluate, over the agent's rules and the approved ones.
Evaluate(ap, p, ruleset) == IF ap[p] = "none" THEN ruleset[p] ELSE ap[p]

Verdicts(ap, q) == [i \in DOMAIN q.patterns |-> Evaluate(ap, q.patterns[i], q.ruleset)]
\* Mutant: some instead of every.
MutAllows(ap, q) == \E i \in DOMAIN q.patterns : Verdicts(ap, q)[i] = "allow"
Allows(ap, q)   == \A i \in DOMAIN q.patterns : Verdicts(ap, q)[i] = "allow"
Denies(ap, q)   == \E i \in DOMAIN q.patterns : Verdicts(ap, q)[i] = "deny"

\* ConfigProtection.isRequest.
IsProtected(q) == \E i \in DOMAIN q.patterns : q.patterns[i] \in Protected

Init ==
  /\ approved = [p \in Patterns |-> "none"]
  /\ pending = {}
  /\ info \in [Requests -> Asks]
  /\ outcome = [r \in Requests |-> "new"]
  /\ save = [r \in Requests |-> NoSave]
  /\ config = NoRules
  /\ answered = {}
  /\ saves = 0

\* The promises of the requests rs settle, and they wait no longer.
Settle(rs, how) ==
  /\ pending' = pending \ rs
  /\ outcome' = [r \in Requests |-> IF r \in rs THEN how[r] ELSE outcome[r]]

Waiting(s) == {r \in pending : info[r].session = s}

(***************************************************************************)
(* A tool asks.  The patterns are looked at in order until one is not      *)
(* simply allowed.                                                         *)
(***************************************************************************)
Verdict(q) ==
  LET v == Verdicts(approved, q)
      stops == {i \in DOMAIN v : v[i] # "allow" \/ IsProtected(q)}
  IN IF stops = {} THEN "allow"
     ELSE IF v[Min(stops)] = "deny" THEN "deny" ELSE "ask"

Ask(r) ==
  /\ outcome[r] = "new"
  /\ LET v == Verdict(info[r])
     IN /\ pending' = IF v = "ask" THEN pending \cup {r} ELSE pending
        /\ outcome' = [outcome EXCEPT ![r] = CASE v = "ask"   -> "waiting"
                                               [] v = "allow" -> "granted"
                                               [] v = "deny"  -> "denied"]
  /\ UNCHANGED <<approved, info, save, config, history>>

(***************************************************************************)
(* A client replies.                                                       *)
(***************************************************************************)
Reject(r) ==
  /\ r \in pending
  /\ Settle(Waiting(info[r].session), [d \in Requests |-> "rejected"])
  /\ UNCHANGED <<approved, info, save, config, history>>

\* Mutant: the request stays in the list.
MutOnce(r) ==
  /\ r \in pending
  /\ outcome' = [outcome EXCEPT ![r] = "granted"]
  /\ answered' = answered \cup {r}
  /\ UNCHANGED <<approved, pending, info, save, config, saves>>

Once(r) ==
  /\ r \in pending
  /\ Settle({r}, [d \in Requests |-> "granted"])
  /\ answered' = answered \cup {r}
  /\ UNCHANGED <<approved, info, save, config, saves>>

\* Rules put into force: the last that covers a pattern decides.
InForce(ap, us, to(_)) ==
  [p \in Patterns |->
     LET hits == {i \in DOMAIN us : p \in us[i]}
     IN IF hits = {} THEN ap[p] ELSE to(us[Max(hits)])]

StartSave(r, rules, drain) ==
  /\ saves < MaxSaves
  /\ saves' = saves + 1
  /\ save[r].stage = "none"
  /\ save' = [save EXCEPT ![r] = [NoSave EXCEPT !.stage = "read", !.rules = rules,
                                                !.drain = drain]]

\* "always" on a config file counts once.  Otherwise the rule is approved, and
\* with it the requests of the same session that are now allowed.
Always(r) ==
  /\ r \in pending
  /\ answered' = answered \cup {r}
  /\ IF IsProtected(info[r])
     THEN /\ Settle({r}, [d \in Requests |-> "granted"])
          /\ UNCHANGED <<approved, save, saves>>
     ELSE LET rule  == info[r].always
              rules == [NoRules EXCEPT ![rule] = "allow"]
              now   == InForce(approved, <<rule>>, LAMBDA u : "allow")
          IN /\ approved' = now
             /\ Settle({r} \cup {d \in Waiting(info[r].session) : Allows(now, info[d])},
                       [d \in Requests |-> "granted"])
             /\ StartSave(r, rules, FALSE)
  /\ UNCHANGED <<info, config>>

(***************************************************************************)
(* A client saves rules, allowing some and denying others; it replies to   *)
(* the request itself in a call of its own.                                *)
(***************************************************************************)
\* Mutant: only requests of the same session are looked at.
MutDrainSession(r, ap) ==
  LET settled == {d \in Waiting(info[r].session) \ {r} :
                    /\ ~IsProtected(info[d])
                    /\ Denies(ap, info[d]) \/ Allows(ap, info[d])}
  IN Settle(settled, [d \in Requests |-> IF Denies(ap, info[d]) THEN "denied" ELSE "granted"])

\* Mutant: config file edits are not left out.
MutDrainConfig(r, ap) ==
  LET settled == {d \in pending \ {r} : Denies(ap, info[d]) \/ Allows(ap, info[d])}
  IN Settle(settled, [d \in Requests |-> IF Denies(ap, info[d]) THEN "denied" ELSE "granted"])

\* drainCovered: the waiting requests that the rules now settle, in whatever
\* session, but config file edits and the request the rules came from.
Drain(r, ap) ==
  LET settled == {d \in pending \ {r} : /\ ~IsProtected(info[d])
                                        /\ Denies(ap, info[d]) \/ Allows(ap, info[d])}
  IN Settle(settled, [d \in Requests |-> IF Denies(ap, info[d]) THEN "denied" ELSE "granted"])

SaveRules(r, allow, deny) ==
  /\ r \in pending
  /\ ~IsProtected(info[r])
  /\ LET new   == SelectSeq(info[r].rules, LAMBDA u : u \in allow \cup deny)
         to(u) == IF u \in deny THEN "deny" ELSE "allow"
         rules == [u \in Rules |-> IF u \in allow \cup deny THEN to(u) ELSE "none"]
     IN /\ new # <<>>
        /\ approved' = InForce(approved, new, to)
        /\ StartSave(r, rules, TRUE)
  /\ UNCHANGED <<pending, info, outcome, config, answered>>

\* No rule of the request is among those given: only the drain is left.
SaveNoRules(r) ==
  /\ r \in pending
  /\ ~IsProtected(info[r])
  /\ Drain(r, approved)
  /\ UNCHANGED <<approved, info, save, config, history>>

(***************************************************************************)
(* Config.updateGlobal: read the file, merge, write it back.  Then a saved *)
(* rule settles what it covers.                                            *)
(***************************************************************************)
ReadConfig(r) ==
  /\ save[r].stage = "read"
  /\ save' = [save EXCEPT ![r].stage = "write", ![r].seen = config]
  /\ UNCHANGED <<approved, pending, info, outcome, config, history>>

WriteConfig(r) ==
  /\ save[r].stage = "write"
  /\ config' = [u \in Rules |-> IF save[r].rules[u] = "none" THEN save[r].seen[u]
                                ELSE save[r].rules[u]]
  /\ save' = [save EXCEPT ![r] = NoSave]
  /\ IF save[r].drain THEN Drain(r, approved) ELSE UNCHANGED <<pending, outcome>>
  /\ UNCHANGED <<approved, info, history>>

SavedRules(r) == {info[r].rules[i] : i \in DOMAIN info[r].rules}

Next ==
  \E r \in Requests :
    \/ Ask(r)
    \/ "reject" \in Replies /\ Reject(r)
    \/ "once" \in Replies /\ Once(r)
    \/ "always" \in Replies /\ Always(r)
    \/ \E allow, deny \in SUBSET SavedRules(r) : SaveRules(r, allow, deny)
    \/ SaveNoRules(r)
    \/ ReadConfig(r)
    \/ WriteConfig(r)

Spec == Init /\ [][Next]_vars

-----------------------------------------------------------------------------
TypeOK ==
  /\ approved \in [Patterns -> Decision]
  /\ pending \subseteq Requests
  /\ info \in [Requests -> Asks]
  /\ outcome \in [Requests -> Outcomes]
  /\ \A r \in Requests : save[r] \in Save
  /\ config \in [Rules -> Decision]
  /\ answered \subseteq Requests
  /\ saves \in 0..MaxSaves

\* A promise waits exactly as long as its request is listed: none is dropped
\* unsettled by the replies, rejections and drains that settle several.
WaitsWhilePending == \A r \in Requests : r \in pending <=> outcome[r] = "waiting"

\* What the rules say of the i-th pattern of the request d.
Rule(ap, d, i) == Evaluate(ap, info[d].patterns[i], info[d].ruleset)

\* A tool goes ahead only when a client granted its very request, or rules
\* allow everything it asked for.
GrantIsJustified ==
  [][\A r \in Requests :
       outcome[r] # "granted" /\ outcome'[r] = "granted" =>
         \/ r \in answered'
         \/ \A i \in DOMAIN info[r].patterns : Rule(approved', r, i) = "allow"]_vars

\* A config file edit is granted by the very reply of a client and never by a
\* rule being saved, whatever the rules then say.
SavesSpareConfigFiles ==
  [][\A r \in Requests :
       IsProtected(info[r]) /\ outcome[r] # "granted" /\ outcome'[r] = "granted" =>
         answered' # answered]_vars

\* When saved rules are written nobody in any session is left waiting for what
\* the rules, which may have changed since, now allow or deny; the request they
\* came from is left to its own reply.
SavesLeaveNoCovered ==
  [][\A r \in Requests :
       save[r].drain /\ ~save'[r].drain =>
         \A d \in pending' \ {r} :
           \/ IsProtected(info[d])
           \/ /\ \E i \in DOMAIN info[d].patterns : Rule(approved', d, i) = "ask"
              /\ \A i \in DOMAIN info[d].patterns : Rule(approved', d, i) # "deny"]_vars
=============================================================================
