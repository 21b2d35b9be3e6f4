--------------------------- MODULE PermissionProofs ---------------------------
(***************************************************************************)
(* What Permission promises for any requests, rules and agents: no promise *)
(* is left behind by the calls that settle several, and every grant has a  *)
(* reply to the request or rules that allow all of it.                     *)
(***************************************************************************)
EXTENDS Permission, TLAPS

Shape ==
  /\ pending \subseteq Requests
  /\ outcome \in [Requests -> Outcomes]
  /\ WaitsWhilePending

Granted(r) == outcome[r] # "granted" /\ outcome'[r] = "granted"

\* The ground on which a request may go ahead.
Justified(r) ==
  \/ r \in answered'
  \/ \A i \in DOMAIN info[r].patterns : Rule(approved', r, i) = "allow"

\* Requests that settle leave the list with their promises, and only they.
LEMMA SettleKeeps ==
  ASSUME Shape, NEW rs \in SUBSET pending, NEW how,
         \A r \in rs : how[r] \in Outcomes \ {"waiting"},
         Settle(rs, how)
  PROVE  Shape'
  BY DEF Shape, Settle, WaitsWhilePending, Outcomes

\* When requests settle, those granted are among them and are meant to be.
LEMMA SettleGrants ==
  ASSUME NEW rs, NEW how, Settle(rs, how), NEW r \in Requests, Granted(r)
  PROVE  r \in rs /\ how[r] = "granted"
  BY DEF Settle, Granted

LEMMA AllowsJustifies ==
  ASSUME NEW r \in Requests, Allows(approved', info[r])
  PROVE  Justified(r)
  BY DEF Allows, Verdicts, Rule, Justified

LEMMA DrainKeeps ==
  ASSUME Shape, NEW r \in Requests, NEW ap, Drain(r, ap)
  PROVE  Shape'
  <1>. DEFINE settled == {d \in pending \ {r} : /\ ~IsProtected(info[d])
                                                /\ Denies(ap, info[d]) \/ Allows(ap, info[d])}
              how == [d \in Requests |-> IF Denies(ap, info[d]) THEN "denied" ELSE "granted"]
  <1>1. settled \in SUBSET pending
    OBVIOUS
  <1>2. \A d \in settled : how[d] \in Outcomes \ {"waiting"}
    BY DEF Shape, Outcomes
  <1>3. Settle(settled, how)
    BY DEF Drain
  <1>. HIDE DEF settled, how
  <1>. QED  BY <1>1, <1>2, <1>3, SettleKeeps

LEMMA DrainGrants ==
  ASSUME NEW r \in Requests, Drain(r, approved), approved' = approved,
         NEW d \in Requests, Granted(d)
  PROVE  Justified(d) /\ ~IsProtected(info[d])
  <1>. DEFINE settled == {e \in pending \ {r} :
                            /\ ~IsProtected(info[e])
                            /\ Denies(approved, info[e]) \/ Allows(approved, info[e])}
              how == [e \in Requests |->
                        IF Denies(approved, info[e]) THEN "denied" ELSE "granted"]
  <1>1. Settle(settled, how)
    BY DEF Drain
  <1>2. d \in settled /\ how[d] = "granted"
    <2>. HIDE DEF settled, how
    <2>. QED  BY <1>1, SettleGrants
  <1>3. ~Denies(approved, info[d])
    BY <1>2
  <1>4. Allows(approved', info[d])
    BY <1>2, <1>3
  <1>. QED  BY <1>2, <1>4, AllowsJustifies

-----------------------------------------------------------------------------
LEMMA AlwaysSettles ==
  ASSUME Shape, NEW r \in Requests, Always(r)
  PROVE  /\ Shape'
         /\ \A d \in Requests : Granted(d) => Justified(d)
  <1>. DEFINE how == [d \in Requests |-> "granted"]
  <1>1. r \in pending /\ r \in answered' /\ info' = info
    BY DEF Always
  <1>2. CASE IsProtected(info[r])
    <2>1. Settle({r}, how)
      BY <1>2 DEF Always
    <2>2. Shape'
      BY <1>1, <2>1, SettleKeeps DEF Outcomes
    <2>3. \A d \in Requests : Granted(d) => d = r
      BY <2>1, SettleGrants
    <2>. QED  BY <1>1, <2>2, <2>3 DEF Justified
  <1>3. CASE ~IsProtected(info[r])
    <2>. DEFINE rs == {r} \cup {d \in Waiting(info[r].session) : Allows(approved', info[d])}
    <2>1. Settle(rs, how)
      BY <1>3 DEF Always
    <2>2. rs \in SUBSET pending
      BY <1>1 DEF Waiting
    <2>3. Shape'
      <3>. HIDE DEF rs
      <3>. QED  BY <2>1, <2>2, SettleKeeps DEF Outcomes, Shape
    <2>4. \A d \in Requests : Granted(d) => d \in rs
      <3>. HIDE DEF rs
      <3>. QED  BY <2>1, SettleGrants
    <2>5. \A d \in rs : d = r \/ Allows(approved', info[d])
      OBVIOUS
    <2>. QED  BY <1>1, <2>3, <2>4, <2>5, AllowsJustifies DEF Justified
  <1>. QED  BY <1>2, <1>3

\* Every step keeps the list and the promises together, and grants nothing
\* without ground.
LEMMA SettlingStep ==
  ASSUME Shape, [Next]_vars
  PROVE  /\ Shape'
         /\ \A d \in Requests : Granted(d) => Justified(d)
  <1>1. ASSUME NEW r \in Requests, Ask(r)
        PROVE  /\ Shape'
               /\ \A d \in Requests : Granted(d) => Justified(d)
    <2>. DEFINE v == Verdict(info[r])
    <2>1. v \in {"allow", "deny", "ask"}
      BY DEF Verdict
    <2>2. /\ outcome[r] = "new"
          /\ pending' = IF v = "ask" THEN pending \cup {r} ELSE pending
          /\ outcome' = [outcome EXCEPT ![r] = IF v = "ask" THEN "waiting"
                                               ELSE IF v = "allow" THEN "granted"
                                               ELSE "denied"]
          /\ approved' = approved /\ info' = info
      BY <1>1, <2>1 DEF Ask
    <2>3. Shape'
      <3>. HIDE DEF v
      <3>. QED  BY <2>1, <2>2 DEF Shape, WaitsWhilePending, Outcomes
    <2>4. ASSUME NEW d \in Requests, Granted(d)
          PROVE  Justified(d)
      <3>1. d = r /\ v = "allow"
        <4>. HIDE DEF v
        <4>. QED  BY <2>1, <2>2, <2>4 DEF Shape, Granted
      <3>2. \A i \in DOMAIN Verdicts(approved, info[r]) :
              Verdicts(approved, info[r])[i] = "allow"
        BY <3>1 DEF Verdict
      <3>3. Allows(approved', info[r])
        BY <2>2, <3>2 DEF Allows, Verdicts
      <3>. QED  BY <3>1, <3>3, AllowsJustifies
    <2>. QED  BY <2>3, <2>4
  <1>2. ASSUME NEW r \in Requests, Reject(r)
        PROVE  /\ Shape'
               /\ \A d \in Requests : ~Granted(d)
    <2>. DEFINE rs == Waiting(info[r].session)
                how == [d \in Requests |-> "rejected"]
    <2>1. Settle(rs, how)
      BY <1>2 DEF Reject
    <2>2. rs \in SUBSET pending
      BY DEF Waiting
    <2>3. Shape'
      <3>. HIDE DEF rs
      <3>. QED  BY <2>1, <2>2, SettleKeeps DEF Outcomes, Shape
    <2>4. \A d \in Requests : ~Granted(d)
      <3>. HIDE DEF rs
      <3>. QED  BY <2>1, SettleGrants
    <2>. QED  BY <2>3, <2>4
  <1>3. ASSUME NEW r \in Requests, Once(r)
        PROVE  /\ Shape'
               /\ \A d \in Requests : Granted(d) => Justified(d)
    <2>. DEFINE how == [d \in Requests |-> "granted"]
    <2>1. r \in pending /\ r \in answered' /\ Settle({r}, how)
      BY <1>3 DEF Once
    <2>2. Shape'
      BY <2>1, SettleKeeps DEF Outcomes, Shape
    <2>3. \A d \in Requests : Granted(d) => d = r
      BY <2>1, SettleGrants
    <2>. QED  BY <2>1, <2>2, <2>3 DEF Justified
  <1>4. ASSUME NEW r \in Requests, Always(r)
        PROVE  /\ Shape'
               /\ \A d \in Requests : Granted(d) => Justified(d)
    BY <1>4, AlwaysSettles
  <1>5. ASSUME NEW r \in Requests, NEW allow \in SUBSET SavedRules(r),
               NEW deny \in SUBSET SavedRules(r), SaveRules(r, allow, deny)
        PROVE  Shape' /\ \A d \in Requests : ~Granted(d)
    BY <1>5 DEF SaveRules, Shape, WaitsWhilePending, Granted
  <1>6. ASSUME NEW r \in Requests, SaveNoRules(r)
        PROVE  /\ Shape'
               /\ \A d \in Requests : Granted(d) => Justified(d)
    BY <1>6, DrainKeeps, DrainGrants DEF SaveNoRules
  <1>7. ASSUME NEW r \in Requests, ReadConfig(r)
        PROVE  Shape' /\ \A d \in Requests : ~Granted(d)
    BY <1>7 DEF ReadConfig, Shape, WaitsWhilePending, Granted
  <1>8. ASSUME NEW r \in Requests, WriteConfig(r)
        PROVE  /\ Shape'
               /\ \A d \in Requests : Granted(d) => Justified(d)
    <2>1. CASE save[r].drain
      BY <1>8, <2>1, DrainKeeps, DrainGrants DEF WriteConfig
    <2>2. CASE ~save[r].drain
      BY <1>8, <2>2 DEF WriteConfig, Shape, WaitsWhilePending, Granted
    <2>. QED  BY <2>1, <2>2
  <1>9. CASE UNCHANGED vars
    BY <1>9 DEF vars, Shape, WaitsWhilePending, Granted
  <1>. QED
    BY <1>1, <1>2, <1>3, <1>4, <1>5, <1>6, <1>7, <1>8, <1>9 DEF Next

LEMMA ShapeInit == Init => Shape
  BY DEF Init, Shape, WaitsWhilePending, Outcomes

\* However many requests a reply, a rejection or a saved rule settles, none is
\* taken off the list unsettled and none that settled stays on it.
THEOREM NoPromiseIsLost == Spec => []WaitsWhilePending
  <1>1. Shape /\ [Next]_vars => Shape'
    BY SettlingStep
  <1>2. Shape => WaitsWhilePending
    BY DEF Shape
  <1>. QED  BY <1>1, <1>2, ShapeInit, PTL DEF Spec

\* No tool goes ahead but on a reply to its own request or on rules that allow
\* every pattern it asked for.
THEOREM GrantsAreJustified == Spec => GrantIsJustified
  <1>1. Shape /\ [Next]_vars => Shape'
    BY SettlingStep
  <1>2. Shape /\ [Next]_vars =>
          [\A r \in Requests :
             outcome[r] # "granted" /\ outcome'[r] = "granted" =>
               \/ r \in answered'
               \/ \A i \in DOMAIN info[r].patterns : Rule(approved', r, i) = "allow"]_vars
    BY SettlingStep DEF Granted, Justified
  <1>. QED  BY <1>1, <1>2, ShapeInit, PTL DEF Spec, GrantIsJustified

-----------------------------------------------------------------------------
\* Who was replied to waits no longer.
Answered == answered \subseteq Requests /\ \A r \in answered : outcome[r] = "granted"

LEMMA SettleAnswered ==
  ASSUME Shape, Answered, NEW rs \in SUBSET pending, NEW how, Settle(rs, how),
         NEW given \in SUBSET rs, \A r \in given : how[r] = "granted",
         answered' = answered \cup given
  PROVE  Answered'
  BY DEF Shape, Answered, Settle, WaitsWhilePending

LEMMA SettleUnanswered ==
  ASSUME Shape, Answered, NEW rs \in SUBSET pending, NEW how, Settle(rs, how),
         answered' = answered
  PROVE  Answered'
  BY DEF Shape, Answered, Settle, WaitsWhilePending

LEMMA DrainAnswered ==
  ASSUME Shape, Answered, NEW r \in Requests, NEW ap, Drain(r, ap), answered' = answered
  PROVE  Answered'
  <1>. DEFINE settled == {d \in pending \ {r} : /\ ~IsProtected(info[d])
                                                /\ Denies(ap, info[d]) \/ Allows(ap, info[d])}
              how == [d \in Requests |-> IF Denies(ap, info[d]) THEN "denied" ELSE "granted"]
  <1>1. settled \in SUBSET pending /\ Settle(settled, how)
    BY DEF Drain
  <1>. HIDE DEF settled, how
  <1>. QED  BY <1>1, SettleUnanswered

LEMMA AnsweredStep ==
  ASSUME Shape, Answered, [Next]_vars
  PROVE  Answered'
  <1>1. ASSUME NEW r \in Requests, Ask(r) PROVE Answered'
    <2>. DEFINE v == Verdict(info[r])
    <2>1. v \in {"allow", "deny", "ask"}
      BY DEF Verdict
    <2>2. /\ outcome[r] = "new" /\ answered' = answered
          /\ \A d \in Requests \ {r} : outcome'[d] = outcome[d]
      <3>. HIDE DEF v
      <3>. QED  BY <1>1, <2>1 DEF Ask, history, Shape
    <2>. QED  BY <2>2 DEF Answered
  <1>2. ASSUME NEW r \in Requests, Reject(r) PROVE Answered'
    <2>. DEFINE rs == Waiting(info[r].session)
                how == [d \in Requests |-> "rejected"]
    <2>1. rs \in SUBSET pending /\ Settle(rs, how) /\ answered' = answered
      BY <1>2 DEF Reject, Waiting, history
    <2>. HIDE DEF rs, how
    <2>. QED  BY <2>1, SettleUnanswered
  <1>3. ASSUME NEW r \in Requests, Once(r) PROVE Answered'
    <2>. DEFINE how == [d \in Requests |-> "granted"]
    <2>1. r \in pending /\ answered' = answered \cup {r} /\ Settle({r}, how) /\ how[r] = "granted"
      BY <1>3 DEF Once, Shape
    <2>. HIDE DEF how
    <2>. QED  BY <2>1, SettleAnswered
  <1>4. ASSUME NEW r \in Requests, Always(r) PROVE Answered'
    <2>. DEFINE how == [d \in Requests |-> "granted"]
                rs == {r} \cup {d \in Waiting(info[r].session) : Allows(approved', info[d])}
    <2>1. r \in pending /\ answered' = answered \cup {r} /\ how[r] = "granted" /\ info' = info
      BY <1>4 DEF Always, Shape
    <2>2. CASE IsProtected(info[r])
      <3>1. Settle({r}, how)
        BY <1>4, <2>2 DEF Always
      <3>. HIDE DEF how
      <3>. QED  BY <2>1, <3>1, SettleAnswered
    <2>3. CASE ~IsProtected(info[r])
      <3>1. Settle(rs, how)
        BY <1>4, <2>3 DEF Always
      <3>2. rs \in SUBSET pending /\ {r} \in SUBSET rs
        BY <2>1 DEF Waiting
      <3>. HIDE DEF how, rs
      <3>. QED  BY <2>1, <3>1, <3>2, SettleAnswered, ZenonT(40)
    <2>. QED  BY <2>2, <2>3
  <1>5. ASSUME NEW r \in Requests, SaveNoRules(r) PROVE Answered'
    BY <1>5, DrainAnswered DEF SaveNoRules, history
  <1>6. ASSUME NEW r \in Requests, WriteConfig(r) PROVE Answered'
    <2>1. CASE save[r].drain
      BY <1>6, <2>1, DrainAnswered DEF WriteConfig, history
    <2>2. CASE ~save[r].drain
      BY <1>6, <2>2 DEF WriteConfig, history, Answered
    <2>. QED  BY <2>1, <2>2
  <1>7. CASE UNCHANGED <<outcome, answered>>
    BY <1>7 DEF Answered
  <1>. QED  BY <1>1, <1>2, <1>3, <1>4, <1>5, <1>6, <1>7
            DEF Next, SaveRules, ReadConfig, vars, history

\* A request for a config file is granted by a reply and no other way.
LEMMA ProtectedStep ==
  ASSUME Shape, Answered, [Next]_vars,
         NEW d \in Requests, IsProtected(info[d]), Granted(d)
  PROVE  answered' # answered
  <1>1. ASSUME NEW r \in Requests, Ask(r) PROVE answered' # answered
    <2>. DEFINE v == Verdict(info[r])
    <2>1. v \in {"allow", "deny", "ask"}
      BY DEF Verdict
    <2>2. outcome' = [outcome EXCEPT ![r] = IF v = "ask" THEN "waiting"
                                            ELSE IF v = "allow" THEN "granted"
                                            ELSE "denied"]
      BY <1>1, <2>1 DEF Ask
    <2>3. d = r /\ v = "allow"
      <3>. HIDE DEF v
      <3>. QED  BY <2>1, <2>2 DEF Shape, Granted
    <2>4. {i \in DOMAIN Verdicts(approved, info[r]) :
             Verdicts(approved, info[r])[i] # "allow" \/ IsProtected(info[r])} = {}
      BY <2>3 DEF Verdict
    <2>5. DOMAIN info[r].patterns = {}
      BY <2>3, <2>4 DEF Verdicts
    <2>. QED  BY <2>3, <2>5 DEF IsProtected
  <1>2. ASSUME NEW r \in Requests, Once(r) \/ Always(r) PROVE answered' # answered
    <2>1. r \in pending /\ answered' = answered \cup {r}
      BY <1>2 DEF Once, Always
    <2>2. r \notin answered
      BY <2>1 DEF Answered, Shape, WaitsWhilePending
    <2>. QED  BY <2>1, <2>2
  <1>3. ASSUME NEW r \in Requests, Reject(r) PROVE answered' # answered
    <2>. DEFINE rs == Waiting(info[r].session)
                how == [e \in Requests |-> "rejected"]
    <2>1. Settle(rs, how)
      BY <1>3 DEF Reject
    <2>2. how[d] = "granted"
      <3>. HIDE DEF rs, how
      <3>. QED  BY <2>1, SettleGrants
    <2>. QED  BY <2>2
  <1>4. ASSUME NEW r \in Requests, SaveNoRules(r) PROVE answered' # answered
    BY <1>4, DrainGrants DEF SaveNoRules
  <1>5. ASSUME NEW r \in Requests, WriteConfig(r) PROVE answered' # answered
    <2>1. CASE save[r].drain
      BY <1>5, <2>1, DrainGrants DEF WriteConfig
    <2>2. CASE ~save[r].drain
      BY <1>5, <2>2 DEF WriteConfig, Granted
    <2>. QED  BY <2>1, <2>2
  <1>6. CASE UNCHANGED outcome
    BY <1>6 DEF Granted
  <1>. QED  BY <1>1, <1>2, <1>3, <1>4, <1>5, <1>6
            DEF Next, SaveRules, ReadConfig, vars

\* Whatever rules are approved, saved or drained, an edit of a config file is
\* granted only in the step of a client's reply (kilocode/permission/drain.ts:29).
THEOREM ConfigFilesNeedReply == Spec => SavesSpareConfigFiles
  <1>1. Init => Shape /\ Answered
    BY ShapeInit DEF Init, Answered
  <1>2. Shape /\ Answered /\ [Next]_vars => Shape' /\ Answered'
    BY SettlingStep, AnsweredStep
  <1>3. Shape /\ Answered /\ [Next]_vars =>
          [\A r \in Requests :
             IsProtected(info[r]) /\ outcome[r] # "granted" /\ outcome'[r] = "granted" =>
               answered' # answered]_vars
    BY ProtectedStep DEF Granted
  <1>. QED  BY <1>1, <1>2, <1>3, PTL DEF Spec, SavesSpareConfigFiles

-----------------------------------------------------------------------------
(***************************************************************************)
(* Saved rules.  A save that is to drain is under way from the approval to *)
(* the write, and only the write ends it: so what it leaves behind is what *)
(* the drain after the write leaves.                                       *)
(***************************************************************************)
SavesOK ==
  /\ save \in [Requests -> Save]
  /\ \A r \in Requests : save[r].drain => save[r].stage # "none"

SaveInv == Shape /\ TypeOK /\ SavesOK

LEMMA NoRulesTyped == NoRules \in [Rules -> Decision]
  BY DEF NoRules, Decision

\* A save begins where none was under way.
LEMMA SaveStarts ==
  ASSUME SaveInv, NEW r \in Requests, NEW rules \in [Rules -> Decision], NEW drain \in BOOLEAN,
         StartSave(r, rules, drain)
  PROVE  /\ SavesOK' /\ saves' \in 0..MaxSaves
         /\ \A d \in Requests : ~(save[d].drain /\ ~save'[d].drain)
  <1>. DEFINE new == [NoSave EXCEPT !.stage = "read", !.rules = rules, !.drain = drain]
  <1>1. /\ save' = [save EXCEPT ![r] = new] /\ save[r].stage = "none"
        /\ saves < MaxSaves /\ saves' = saves + 1
    BY DEF StartSave
  <1>2. new \in Save /\ new.stage = "read"
    BY NoRulesTyped DEF NoSave, Save
  <1>3. ~save[r].drain
    BY <1>1 DEF SaveInv, SavesOK
  <1>4. save \in [Requests -> Save]
    BY DEF SaveInv, SavesOK
  <1>5. saves' \in 0..MaxSaves
    BY <1>1, MaxSavesAssumption DEF SaveInv, TypeOK
  <1>. HIDE DEF new
  <1>6. save'[r] = new /\ \A d \in Requests \ {r} : save'[d] = save[d]
    BY <1>1, <1>4
  <1>7. \A d \in Requests : save'[d].drain => save'[d].stage # "none"
    BY <1>2, <1>6 DEF SaveInv, SavesOK
  <1>8. save' \in [Requests -> Save]
    BY <1>1, <1>2, <1>4
  <1>. QED  BY <1>3, <1>5, <1>6, <1>7, <1>8 DEF SavesOK

\* What the drain leaves: requests the rules leave open.
LEMMA DrainLeaves ==
  ASSUME SaveInv, NEW r \in Requests, Drain(r, approved), UNCHANGED <<approved, info>>,
         NEW d \in pending' \ {r}, ~IsProtected(info[d])
  PROVE  /\ \E i \in DOMAIN info[d].patterns : Rule(approved', d, i) = "ask"
         /\ \A i \in DOMAIN info[d].patterns : Rule(approved', d, i) # "deny"
  <1>1. d \in pending /\ d \in Requests
    BY DEF Drain, Settle, SaveInv, Shape
  <1>2. ~Denies(approved, info[d]) /\ ~Allows(approved, info[d])
    BY <1>1 DEF Drain, Settle
  <1>3. info[d] \in Request
    BY <1>1, AsksAssumption DEF SaveInv, TypeOK
  <1>4. \A i \in DOMAIN info[d].patterns : Rule(approved, d, i) \in Actions
    <2>1. SUFFICES ASSUME NEW i \in DOMAIN info[d].patterns PROVE Rule(approved, d, i) \in Actions
      OBVIOUS
    <2>2. info[d].patterns[i] \in Patterns /\ info[d].ruleset \in [Patterns -> Actions]
      BY <1>3 DEF Request
    <2>3. approved[info[d].patterns[i]] \in Decision
      BY <2>2 DEF SaveInv, TypeOK
    <2>. QED  BY <2>2, <2>3 DEF Rule, Evaluate, Decision, Actions
  <1>5. \A i \in DOMAIN info[d].patterns : Verdicts(approved, info[d])[i] = Rule(approved, d, i)
    BY DEF Verdicts, Rule
  <1>6. \A i \in DOMAIN info[d].patterns : Rule(approved', d, i) = Rule(approved, d, i)
    BY DEF Rule
  <1>7. \A i \in DOMAIN info[d].patterns : Rule(approved, d, i) # "deny"
    BY <1>2, <1>5 DEF Denies
  <1>8. PICK i \in DOMAIN info[d].patterns : Rule(approved, d, i) # "allow"
    BY <1>2, <1>5 DEF Allows
  <1>9. Rule(approved, d, i) = "ask"
    BY <1>4, <1>7, <1>8 DEF Actions
  <1>. QED  BY <1>6, <1>7, <1>9

\* The last conjunct of SavesLeaveNoCovered, for one save.
LeavesNoCovered(r) ==
  save[r].drain /\ ~save'[r].drain =>
    \A d \in pending' \ {r} :
      \/ IsProtected(info[d])
      \/ /\ \E i \in DOMAIN info[d].patterns : Rule(approved', d, i) = "ask"
         /\ \A i \in DOMAIN info[d].patterns : Rule(approved', d, i) # "deny"

\* The rest of the types, where Shape and SavesOK say the others.
RestOK ==
  /\ approved \in [Patterns -> Decision]
  /\ info \in [Requests -> Asks]
  /\ config \in [Rules -> Decision]
  /\ answered \subseteq Requests
  /\ saves \in 0..MaxSaves

LEMMA TypesSplit == SaveInv <=> Shape /\ RestOK /\ SavesOK
  BY DEF SaveInv, Shape, RestOK, SavesOK, TypeOK

LEMMA SavingStep ==
  ASSUME SaveInv, [Next]_vars
  PROVE  /\ SaveInv'
         /\ \A r \in Requests : LeavesNoCovered(r)
  <1>0. Shape' /\ RestOK
    BY SettlingStep, TypesSplit DEF SaveInv
  <1>1. SUFFICES /\ RestOK' /\ SavesOK'
                 /\ \A r \in Requests : LeavesNoCovered(r)
    BY <1>0, TypesSplit DEF SaveInv, RestOK, SavesOK, Shape, TypeOK, WaitsWhilePending
  <1>2. CASE UNCHANGED <<approved, info, config, save, saves>> /\ answered' \subseteq Requests
    BY <1>0, <1>2 DEF RestOK, SaveInv, SavesOK, LeavesNoCovered
  <1>3. ASSUME NEW r \in Requests, Ask(r) \/ Reject(r) \/ Once(r) \/ SaveNoRules(r)
        PROVE  UNCHANGED <<approved, info, config, save, saves>> /\ answered' \subseteq Requests
    BY <1>0, <1>3 DEF Ask, Reject, Once, SaveNoRules, history, RestOK
  <1>4. ASSUME NEW r \in Requests, Always(r)
        PROVE  RestOK' /\ SavesOK' /\ \A d \in Requests : LeavesNoCovered(d)
    <2>1. UNCHANGED <<info, config>> /\ answered' \subseteq Requests
      BY <1>0, <1>4 DEF Always, RestOK
    <2>2. CASE IsProtected(info[r])
      BY <1>0, <1>4, <2>1, <2>2 DEF Always, RestOK, SaveInv, SavesOK, LeavesNoCovered
    <2>3. CASE ~IsProtected(info[r])
      <3>. DEFINE rules == [NoRules EXCEPT ![info[r].always] = "allow"]
      <3>1. rules \in [Rules -> Decision]
        BY NoRulesTyped DEF Decision
      <3>2. StartSave(r, rules, FALSE)
        BY <1>4, <2>3 DEF Always
      <3>3. approved' = InForce(approved, <<info[r].always>>, LAMBDA u : "allow")
        BY <1>4, <2>3 DEF Always
      <3>4. approved' \in [Patterns -> Decision]
        BY <1>0, <3>3 DEF InForce, Decision, RestOK
      <3>. HIDE DEF rules
      <3>5. /\ SavesOK' /\ saves' \in 0..MaxSaves
            /\ \A d \in Requests : ~(save[d].drain /\ ~save'[d].drain)
        BY <3>1, <3>2, SaveStarts
      <3>. QED  BY <1>0, <2>1, <3>4, <3>5 DEF RestOK, LeavesNoCovered
    <2>. QED  BY <2>2, <2>3
  <1>5. ASSUME NEW r \in Requests, NEW allow \in SUBSET SavedRules(r),
               NEW deny \in SUBSET SavedRules(r), SaveRules(r, allow, deny)
        PROVE  RestOK' /\ SavesOK' /\ \A d \in Requests : LeavesNoCovered(d)
    <2>. DEFINE to(u) == IF u \in deny THEN "deny" ELSE "allow"
                new == SelectSeq(info[r].rules, LAMBDA u : u \in allow \cup deny)
                rules == [u \in Rules |-> IF u \in allow \cup deny THEN to(u) ELSE "none"]
    <2>1. /\ UNCHANGED <<info, config, answered>>
          /\ approved' = InForce(approved, new, to) /\ StartSave(r, rules, TRUE)
      BY <1>5 DEF SaveRules
    <2>2. rules \in [Rules -> Decision]
      BY DEF Decision
    <2>3. approved' \in [Patterns -> Decision]
      <3>. HIDE DEF new
      <3>. QED  BY <1>0, <2>1 DEF InForce, Decision, RestOK
    <2>. HIDE DEF rules, new
    <2>4. /\ SavesOK' /\ saves' \in 0..MaxSaves
          /\ \A d \in Requests : ~(save[d].drain /\ ~save'[d].drain)
      BY <2>1, <2>2, SaveStarts
    <2>. QED  BY <1>0, <2>1, <2>3, <2>4 DEF RestOK, LeavesNoCovered
  <1>6. ASSUME NEW r \in Requests, ReadConfig(r)
        PROVE  RestOK' /\ SavesOK' /\ \A d \in Requests : LeavesNoCovered(d)
    <2>. DEFINE new == [save[r] EXCEPT !.stage = "write", !.seen = config]
    <2>1. /\ UNCHANGED <<approved, info, config, answered, saves>>
          /\ save' = [save EXCEPT ![r] = new]
      BY <1>6 DEF ReadConfig, history
    <2>2. save \in [Requests -> Save] /\ config \in [Rules -> Decision]
      BY <1>0 DEF RestOK, SaveInv, SavesOK
    <2>3. new \in Save /\ new.stage = "write" /\ new.drain = save[r].drain
      BY <2>2 DEF Save
    <2>. HIDE DEF new
    <2>4. save' \in [Requests -> Save]
      BY <2>1, <2>2, <2>3
    <2>5. \A d \in Requests : /\ save'[d].drain = save[d].drain
                              /\ save'[d] = save[d] \/ save'[d].stage = "write"
      BY <2>1, <2>2, <2>3
    <2>6. SavesOK'
      BY <2>4, <2>5 DEF SaveInv, SavesOK
    <2>. QED  BY <1>0, <2>1, <2>5, <2>6 DEF RestOK, LeavesNoCovered
  <1>7. ASSUME NEW r \in Requests, WriteConfig(r)
        PROVE  RestOK' /\ SavesOK' /\ \A d \in Requests : LeavesNoCovered(d)
    <2>1. /\ UNCHANGED <<approved, info, answered, saves>>
          /\ save' = [save EXCEPT ![r] = NoSave]
      BY <1>7 DEF WriteConfig, history
    <2>2. save \in [Requests -> Save] /\ config \in [Rules -> Decision]
      BY <1>0 DEF RestOK, SaveInv, SavesOK
    <2>3. NoSave \in Save /\ ~NoSave.drain
      BY NoRulesTyped DEF NoSave, Save
    <2>4. config' \in [Rules -> Decision]
      <3>1. \A u \in Rules : save[r].rules[u] \in Decision /\ save[r].seen[u] \in Decision
        BY <2>2 DEF Save
      <3>. QED  BY <1>7, <3>1 DEF WriteConfig
    <2>5. save' \in [Requests -> Save]
      BY <2>1, <2>2, <2>3
    <2>6. save'[r] = NoSave /\ \A d \in Requests \ {r} : save'[d] = save[d]
      BY <2>1, <2>2
    <2>7. SavesOK'
      BY <2>3, <2>5, <2>6 DEF SaveInv, SavesOK
    <2>8. LeavesNoCovered(r)
      <3>1. SUFFICES ASSUME save[r].drain, NEW d \in pending' \ {r}, ~IsProtected(info[d])
                     PROVE  /\ \E i \in DOMAIN info[d].patterns : Rule(approved', d, i) = "ask"
                            /\ \A i \in DOMAIN info[d].patterns : Rule(approved', d, i) # "deny"
        BY DEF LeavesNoCovered
      <3>2. Drain(r, approved)
        BY <1>7, <3>1 DEF WriteConfig
      <3>. QED  BY <2>1, <3>1, <3>2, DrainLeaves
    <2>9. \A d \in Requests : LeavesNoCovered(d)
      BY <2>6, <2>8 DEF LeavesNoCovered
    <2>. QED  BY <1>0, <2>1, <2>4, <2>7, <2>9 DEF RestOK
  <1>8. CASE UNCHANGED vars
    BY <1>0, <1>2, <1>8 DEF vars, RestOK
  <1>. QED  BY <1>2, <1>3, <1>4, <1>5, <1>6, <1>7, <1>8 DEF Next

LEMMA SaveInit == Init => SaveInv
  BY ShapeInit, NoRulesTyped, MaxSavesAssumption
  DEF Init, SaveInv, TypeOK, SavesOK, NoSave, Save, Decision, Outcomes

\* The types of the requests, the rules and the saves under way.
THEOREM PermissionType == Spec => []TypeOK
  <1>1. SaveInv /\ [Next]_vars => SaveInv'
    BY SavingStep
  <1>2. SaveInv => TypeOK
    BY DEF SaveInv
  <1>. QED  BY <1>1, <1>2, SaveInit, PTL DEF Spec

\* However many saves overlap, and whichever rules come into force before one
\* of them is written, its write leaves no request of any session waiting that
\* the rules then allow or deny, but the request the rules came from and edits
\* of config files (kilocode/permission/drain.ts:29-41).
THEOREM SavedRulesSettleAll == Spec => SavesLeaveNoCovered
  <1>1. SaveInv /\ [Next]_vars => SaveInv'
    BY SavingStep
  <1>2. SaveInv /\ [Next]_vars =>
          [\A r \in Requests :
             save[r].drain /\ ~save'[r].drain =>
               \A d \in pending' \ {r} :
                 \/ IsProtected(info[d])
                 \/ /\ \E i \in DOMAIN info[d].patterns : Rule(approved', d, i) = "ask"
                    /\ \A i \in DOMAIN info[d].patterns : Rule(approved', d, i) # "deny"]_vars
    BY SavingStep DEF LeavesNoCovered
  <1>. QED  BY <1>1, <1>2, SaveInit, PTL DEF Spec, SavesLeaveNoCovered
=============================================================================
