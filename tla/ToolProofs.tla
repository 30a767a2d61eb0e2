----------------------------- MODULE ToolProofs -----------------------------
(***************************************************************************)
(* Proofs about the tools and the gate in front of them.  Of the policy    *)
(* and the registry of module ToolGate: what Decide answers for every      *)
(* sequence of rules, that nothing passes the gate on other terms, and     *)
(* what any number of registrations leave of the names already taken.  Of  *)
(* the file tools of module FileTools, for any tree, links and changes of  *)
(* it: what they touch is inside, a write is the one that was shown, and   *)
(* what is left out is said.                                               *)
(***************************************************************************)
EXTENDS ToolGate, FileTools, SequenceLemmas, SequenceTheorems

-----------------------------------------------------------------------------
(* Decide *)

(* A rule answers with a verdict, whatever it is asked. *)
LEMMA JudgeType ==
  ASSUME NEW rule \in Rule, NEW req
  PROVE  Judge(rule, req) \in Verdict
BY DEF Rule, Judge, Verdict, Allow

(* The strictest of some verdicts is one of them and above all others. *)
LEMMA MaxVerdict ==
  ASSUME NEW S \in SUBSET Verdict, S # {}
  PROVE  Max(S) \in S /\ \A v \in S : v <= Max(S)
<1>1. S \subseteq {0, 1, 2}
  BY DEF Verdict, Allow, Ask, Deny
<1>2. \E m \in S : \A v \in S : m >= v
  <2>1. CASE 2 \in S
    BY <1>1, <2>1
  <2>2. CASE 2 \notin S /\ 1 \in S
    BY <1>1, <2>2
  <2>3. CASE 2 \notin S /\ 1 \notin S
    <3>1. S = {0}
      BY <1>1, <2>3
    <3>2. QED
      BY <3>1
  <2>4. QED
    BY <2>1, <2>2, <2>3
<1>3. QED
  BY <1>1, <1>2 DEF Max

(* Decide is a verdict some rule reached and no rule exceeded. *)
LEMMA DecideWorst ==
  ASSUME NEW rules \in Seq(Rule), rules # <<>>, NEW req
  PROVE  /\ Decide(rules, req) \in Verdict
         /\ \E i \in 1..Len(rules) : Decide(rules, req) = Judge(rules[i], req)
         /\ \A i \in 1..Len(rules) : Judge(rules[i], req) <= Decide(rules, req)
<1> DEFINE S == {Judge(rules[i], req) : i \in 1..Len(rules)}
<1>1. S \in SUBSET Verdict
  BY JudgeType
<1>2. S # {}
  <2>1. 1 \in 1..Len(rules)
    OBVIOUS
  <2>2. QED
    BY <2>1
<1>3. Max(S) \in S /\ \A v \in S : v <= Max(S)
  BY <1>1, <1>2, MaxVerdict
<1>4. Decide(rules, req) = Max(S)
  BY DEF Decide
<1>5. QED
  BY <1>1, <1>3, <1>4

(* One more rule never loosens a policy that has some, for every policy,      *)
(* rule and request (guard.go Decide).                                        *)
THEOREM DecideTightens ==
  ASSUME NEW rules \in Seq(Rule), rules # <<>>, NEW rule \in Rule, NEW req
  PROVE  Decide(Append(rules, rule), req) >= Decide(rules, req)
<1> DEFINE more == Append(rules, rule)
<1>1. more \in Seq(Rule) /\ more # <<>> /\ Len(more) = Len(rules) + 1
  OBVIOUS
<1>2. \A i \in 1..Len(rules) : i \in 1..Len(more) /\ more[i] = rules[i]
  OBVIOUS
<1>3. PICK i \in 1..Len(rules) : Decide(rules, req) = Judge(rules[i], req)
  BY DecideWorst
<1>4. Judge(more[i], req) <= Decide(more, req)
  BY <1>1, <1>2, DecideWorst
<1>5. Decide(more, req) \in Verdict /\ Decide(rules, req) \in Verdict
  BY <1>1, DecideWorst
<1>6. QED
  BY <1>2, <1>3, <1>4, <1>5 DEF Verdict, Allow, Ask, Deny

(* The order in which rules were registered does not matter, nor does         *)
(* registering one twice: two policies with the same rules decide alike       *)
(* (guard.go TestPolicy_OrderOfRegistrationDoesNotMatter, for every policy).  *)
THEOREM OrderDoesNotMatter ==
  ASSUME NEW p \in Seq(Rule), NEW q \in Seq(Rule), NEW req,
         {p[i] : i \in 1..Len(p)} = {q[i] : i \in 1..Len(q)}
  PROVE  Decide(p, req) = Decide(q, req)
<1>1. \A i \in 1..Len(p) : \E j \in 1..Len(q) : p[i] = q[j]
  OBVIOUS
<1>2. \A j \in 1..Len(q) : \E i \in 1..Len(p) : q[j] = p[i]
  OBVIOUS
<1>3. CASE p = <<>>
  <2>1. q = <<>>
    BY <1>2, <1>3
  <2>2. QED
    BY <1>3, <2>1
<1>4. CASE p # <<>>
  <2>1. q # <<>>
    <3>1. 1 \in 1..Len(p)
      BY <1>4
    <3>2. QED
      BY <1>1, <3>1
  <2>2. Decide(p, req) <= Decide(q, req)
    BY <1>1, <1>4, <2>1, DecideWorst
  <2>3. Decide(q, req) <= Decide(p, req)
    BY <1>2, <1>4, <2>1, DecideWorst
  <2>4. Decide(p, req) \in Int /\ Decide(q, req) \in Int
    BY <1>4, <2>1, DecideWorst DEF Verdict, Allow, Ask, Deny
  <2>5. QED
    BY <2>2, <2>3, <2>4
<1>5. QED
  BY <1>3, <1>4

-----------------------------------------------------------------------------
(* The gate.  The policy stays a sequence of rules; while somebody is being   *)
(* asked, the policy still says to ask; a tool that runs passed it.           *)

PolicyOK == policy \in Seq(Rule)

AskedFor == phase = "asking" => policy # <<>> /\ Decide(policy, Request(call)) = Ask

GateInv == PolicyOK /\ AskedFor /\ RanAsJudged /\ phase \in {"idle", "asking", "running"}

(* The default policy is a policy, and nothing is being called. *)
LEMMA GateInit == Init => GateInv
<1> SUFFICES ASSUME Init PROVE GateInv
  OBVIOUS
<1>1. /\ ForEffect("reads", Allow) \in Rule /\ ForEffect("writes", Deny) \in Rule
      /\ ForEffect("executes", Deny) \in Rule
  BY DEF Rule, ForEffect, Effect, Verdict
<1>2. PolicyOK
  BY <1>1 DEF Init, PolicyOK, ReadOnly
<1>3. phase = "idle"
  BY DEF Init
<1>4. QED
  BY <1>2, <1>3 DEF GateInv, AskedFor, RanAsJudged

(* What RanAsJudged asks of the rules follows from the verdict. *)
LEMMA VerdictCoversRules ==
  ASSUME NEW rules \in Seq(Rule), rules # <<>>, NEW req, NEW yes,
         \/ Decide(rules, req) = Allow
         \/ Decide(rules, req) = Ask /\ yes
  PROVE  \A i \in 1..Len(rules) : /\ Judge(rules[i], req) # Deny
                                  /\ Judge(rules[i], req) = Ask => yes
<1> SUFFICES ASSUME NEW i \in 1..Len(rules)
             PROVE  /\ Judge(rules[i], req) # Deny
                    /\ Judge(rules[i], req) = Ask => yes
  OBVIOUS
<1>1. Judge(rules[i], req) <= Decide(rules, req)
  BY DecideWorst
<1>2. QED
  BY <1>1 DEF Allow, Ask, Deny

(* Only the policy changed, and nothing is being called. *)
LEMMA IdleStep ==
  ASSUME GateInv, phase' = "idle", PolicyOK'
  PROVE  GateInv'
BY DEF GateInv, AskedFor, RanAsJudged

(* A policy that Govern sets is a sequence of rules. *)
LEMMA BoundedSeqIsSeq ==
  ASSUME NEW rules \in BoundedSeq(Rules, MaxRules)
  PROVE  rules \in Seq(Rule)
<1>1. PICK n \in 0..MaxRules : rules \in [1..n -> Rules]
  BY DEF BoundedSeq, SeqOf
<1>2. n \in Nat /\ rules \in [1..n -> Rule]
  BY <1>1, GateAssumption
<1>3. QED
  BY <1>2

(* Every registration, change of policy and step of a call keeps the gate. *)
LEMMA GateStep == GateInv /\ [Next]_vars => GateInv'
<1> SUFFICES ASSUME GateInv, [Next]_vars PROVE GateInv'
  OBVIOUS
<1> USE DEF GateInv, PolicyOK
<1>1. ASSUME NEW t \in LocalTool, AddTool(t) PROVE GateInv'
  BY <1>1, IdleStep DEF AddTool
<1>2. ASSUME NEW rts, NEW trust, AddRemote(rts, trust) PROVE GateInv'
  BY <1>2, IdleStep DEF AddRemote
<1>3. ASSUME NEW rules \in BoundedSeq(Rules, MaxRules), NEW a \in Approver, Govern(rules, a)
      PROVE  GateInv'
  BY <1>3, IdleStep, BoundedSeqIsSeq DEF Govern
<1>4. ASSUME NEW rule \in Rules, AddRule(rule) PROVE GateInv'
  <2>1. rule \in Rule
    BY GateAssumption
  <2>2. QED
    BY <1>4, <2>1, IdleStep DEF AddRule
<1>5. ASSUME NEW n \in Name, Refuse(n) PROVE GateInv'
  BY <1>5 DEF Refuse, vars, AskedFor, RanAsJudged, Request
<1>6. ASSUME NEW n \in Name, RunAllowed(n) PROVE GateInv'
  <2>1. policy # <<>>
    BY <1>6 DEF RunAllowed, Decide, Allow, Deny
  <2>2. \A i \in 1..Len(policy) : /\ Judge(policy[i], Request(n)) # Deny
                                  /\ Judge(policy[i], Request(n)) = Ask => consent
    BY <1>6, <2>1, VerdictCoversRules DEF RunAllowed
  <2>3. RanAsJudged'
    BY <1>6, <2>1, <2>2 DEF RunAllowed, Enter, RanAsJudged, Request
  <2>4. QED
    BY <1>6, <2>3 DEF RunAllowed, Enter, AskedFor
<1>7. ASSUME NEW n \in Name, AskPerson(n) PROVE GateInv'
  <2>1. policy # <<>>
    BY <1>7 DEF AskPerson, Decide, Ask, Deny
  <2>2. QED
    BY <1>7, <2>1 DEF AskPerson, Enter, AskedFor, RanAsJudged, Request
<1>8. CASE Declined
  BY <1>8, IdleStep DEF Declined, Finish
<1>9. CASE Approved
  <2>1. \A i \in 1..Len(policy) : /\ Judge(policy[i], Request(call)) # Deny
                                  /\ Judge(policy[i], Request(call)) = Ask => TRUE
    BY <1>9, VerdictCoversRules DEF Approved, AskedFor
  <2>2. RanAsJudged'
    BY <1>9, <2>1 DEF Approved, AskedFor, RanAsJudged, Request
  <2>3. QED
    BY <1>9, <2>2 DEF Approved, AskedFor
<1>10. CASE Returns
  BY <1>10, IdleStep DEF Returns, Finish
<1>11. CASE UNCHANGED vars
  BY <1>11 DEF vars, AskedFor, RanAsJudged, Request
<1>12. QED
  BY <1>1, <1>2, <1>3, <1>4, <1>5, <1>6, <1>7, <1>8, <1>9, <1>10, <1>11 DEF Next

(* The gate holds in every reachable state. *)
LEMMA GateInvariant == Spec => []GateInv
BY GateInit, GateStep, PTL DEF Spec

(* For any tools, rules and order of registration: a tool that runs was       *)
(* denied by no rule, and where a rule wanted somebody asked, somebody said   *)
(* yes (tools.go Run, guard.go Decide).                                       *)
THEOREM GateHolds == Spec => []RanAsJudged
<1>1. GateInv => RanAsJudged
  BY DEF GateInv
<1>2. QED
  BY <1>1, GateInvariant, PTL

(* In every reachable state one more rule tightens (guard.go Decide).         *)
THEOREM AlwaysTightens == Spec => []AddingTightens
<1>1. GateInv => AddingTightens
  BY DecideTightens, GateAssumption DEF GateInv, PolicyOK, AddingTightens
<1>2. QED
  BY <1>1, GateInvariant, PTL

-----------------------------------------------------------------------------
(* The registry *)

(* Registering a tool of the shell. *)
LEMMA AddKeeps ==
  ASSUME NEW reg, NEW t
  PROVE  /\ \A n \in DOMAIN reg : n \in DOMAIN Add(reg, t) /\ Add(reg, t)[n] = reg[n]
         /\ DOMAIN Add(reg, t) \subseteq DOMAIN reg \cup {t.name}
<1>1. CASE t.effect = "" \/ t.name \in DOMAIN reg
  BY <1>1 DEF Add
<1>2. CASE ~(t.effect = "" \/ t.name \in DOMAIN reg)
  BY <1>2 DEF Add
<1> QED BY <1>1, <1>2

(* Registering what a server offers: taken names stay as they are, and a free *)
(* one that was offered in a form that can be sent is there, with the effect  *)
(* of one such offer.                                                         *)
LEMMA RemoteKeeps ==
  ASSUME NEW reg, NEW rts \in Seq(RemoteTool), NEW trust
  PROVE  /\ \A n \in DOMAIN reg : /\ n \in DOMAIN WithRemote(reg, rts, trust)
                                  /\ WithRemote(reg, rts, trust)[n] = reg[n]
         /\ \A i \in 1..Len(rts) : rts[i].sendable => rts[i].name \in DOMAIN WithRemote(reg, rts, trust)
         /\ \A n \in DOMAIN WithRemote(reg, rts, trust) \ DOMAIN reg :
              \E i \in 1..Len(rts) : /\ rts[i].sendable /\ rts[i].name = n
                                     /\ WithRemote(reg, rts, trust)[n] = Classify(rts[i], trust)
<1> DEFINE sent(n) == {i \in 1..Len(rts) : rts[i].sendable /\ rts[i].name = n}
           free == {n \in RemoteName \ DOMAIN reg : sent(n) # {}}
           after == WithRemote(reg, rts, trust)
<1>1. after = [n \in DOMAIN reg \cup free |->
               IF n \in DOMAIN reg THEN reg[n] ELSE AsTool(rts[Min(sent(n))], trust).effect]
  BY DEF WithRemote
<1>2. ASSUME NEW i \in 1..Len(rts), rts[i].sendable PROVE rts[i].name \in DOMAIN reg \cup free
  <2>1. rts[i].name \in RemoteName
    <3>1. rts[i] \in RemoteTool
      BY <1>2
    <3> QED BY <3>1 DEF RemoteTool
  <2>2. i \in sent(rts[i].name)
    BY <1>2
  <2> QED BY <2>1, <2>2
<1>3. ASSUME NEW n \in free
      PROVE  \E i \in 1..Len(rts) : /\ rts[i].sendable /\ rts[i].name = n
                                    /\ AsTool(rts[Min(sent(n))], trust).effect = Classify(rts[i], trust)
  <2>1. sent(n) \in SUBSET Nat /\ sent(n) # {}
    BY <1>3
  <2>2. Min(sent(n)) \in sent(n)
    <3> HIDE DEF sent
    <3> QED BY <2>1, MinIsLeast
  <2> QED BY <2>2 DEF AsTool
<1>4. DOMAIN after = DOMAIN reg \cup free /\ \A n \in DOMAIN reg : after[n] = reg[n]
  BY <1>1
<1>5. \A n \in DOMAIN after \ DOMAIN reg : n \in free /\ after[n] = AsTool(rts[Min(sent(n))], trust).effect
  BY <1>1
<1> HIDE DEF sent, free
<1>6. \A n \in DOMAIN after \ DOMAIN reg :
        \E i \in 1..Len(rts) : rts[i].sendable /\ rts[i].name = n /\ after[n] = Classify(rts[i], trust)
  <2> HIDE DEF after
  <2> QED BY <1>3, <1>5
<1> QED BY <1>2, <1>4, <1>6

(* A server's offer is a sequence. *)
LEMMA OfferIsSeq ==
  ASSUME NEW rts \in BoundedSeq(RemoteTool, MaxOffer)
  PROVE  rts \in Seq(RemoteTool) /\ ToSet(rts) = {rts[i] : i \in 1..Len(rts)}
<1>1. PICK n \in 0..MaxOffer : rts \in [1..n -> RemoteTool]
  BY DEF BoundedSeq, SeqOf
<1>2. n \in Nat
  BY GateAssumption
<1>3. rts \in Seq(RemoteTool)
  BY <1>1, <1>2
<1> QED BY <1>3 DEF ToSet

(* What an offer adds to the histories. *)
LEMMA OfferRecorded ==
  ASSUME NEW rts \in BoundedSeq(RemoteTool, MaxOffer), NEW trust \in Trust, AddRemote(rts, trust)
  PROVE  /\ tools' = WithRemote(tools, rts, trust)
         /\ announced' = announced \cup {rts[i].name : i \in {j \in 1..Len(rts) : rts[j].sendable}}
         /\ vouched \subseteq vouched'
         /\ \A i \in 1..Len(rts) :
              rts[i].sendable /\ Classify(rts[i], trust) = "reads" => rts[i].name \in vouched'
<1>1. ToSet(rts) = {rts[i] : i \in 1..Len(rts)}
  BY OfferIsSeq
<1>2. {rt.name : rt \in {r \in ToSet(rts) : r.sendable}}
        = {rts[i].name : i \in {j \in 1..Len(rts) : rts[j].sendable}}
  BY <1>1
<1>3. ASSUME NEW i \in 1..Len(rts), rts[i].sendable, Classify(rts[i], trust) = "reads"
      PROVE  rts[i] \in {r \in {q \in ToSet(rts) : q.sendable} : trust = "hints" /\ r.readOnly /\ ~r.destructive}
  BY <1>1, <1>3 DEF Classify
<1> QED BY <1>2, <1>3 DEF AddRemote

(* No step but a registration touches what is registered. *)
LEMMA RegistrySteps ==
  ASSUME [Next]_vars
  PROVE  \/ UNCHANGED <<tools, announced, vouched>>
         \/ \E t \in LocalTool : tools' = Add(tools, t) /\ UNCHANGED <<announced, vouched>>
         \/ \E rts \in BoundedSeq(RemoteTool, MaxOffer), trust \in Trust : AddRemote(rts, trust)
  BY DEF Next, vars, AddTool, Govern, AddRule, Refuse, RunAllowed, AskPerson, Enter, Declined, Finish,
         Approved, Returns

(* For any number of tools, servers and offers: no registration changes the   *)
(* effect a name is judged by or makes a tool disappear (tools.go Add).       *)
THEOREM NamesAreKept == Spec => NoShadowing
<1>1. [Next]_vars => \A n \in DOMAIN tools : n \in DOMAIN tools' /\ tools'[n] = tools[n]
  <2> SUFFICES ASSUME [Next]_vars
               PROVE  \A n \in DOMAIN tools : n \in DOMAIN tools' /\ tools'[n] = tools[n]
    OBVIOUS
  <2>1. CASE UNCHANGED tools
    BY <2>1
  <2>2. CASE \E t \in LocalTool : tools' = Add(tools, t)
    BY <2>2, AddKeeps
  <2>3. ASSUME NEW rts \in BoundedSeq(RemoteTool, MaxOffer), NEW trust \in Trust, AddRemote(rts, trust)
        PROVE  \A n \in DOMAIN tools : n \in DOMAIN tools' /\ tools'[n] = tools[n]
    BY <2>3, OfferIsSeq, OfferRecorded, RemoteKeeps
  <2> QED BY <2>1, <2>2, <2>3, RegistrySteps
<1> QED BY <1>1, PTL DEF Spec, NoShadowing

(* For any servers, offers and trust: a remote tool that counts as reading    *)
(* was called read-only, and not destructive, by a server the operator        *)
(* trusts (remote.go Classify).                                               *)
THEOREM ClaimsAreWeighed == Spec => []ClaimsDoNotLoosen
<1>1. Init => ClaimsDoNotLoosen
  BY DEF Init, ClaimsDoNotLoosen
<1>2. ClaimsDoNotLoosen /\ [Next]_vars => ClaimsDoNotLoosen'
  <2> SUFFICES ASSUME ClaimsDoNotLoosen, [Next]_vars,
                      NEW n \in DOMAIN tools', n \in RemoteName, tools'[n] = "reads"
               PROVE  n \in vouched'
    BY DEF ClaimsDoNotLoosen
  <2>1. CASE UNCHANGED <<tools, announced, vouched>>
    BY <2>1 DEF ClaimsDoNotLoosen
  <2>2. ASSUME NEW t \in LocalTool, tools' = Add(tools, t), UNCHANGED <<announced, vouched>>
        PROVE  n \in vouched'
    <3>1. n # t.name
      BY GateAssumption
    <3>2. n \in DOMAIN tools
      BY <2>2, <3>1, AddKeeps
    <3>3. tools'[n] = tools[n]
      BY <2>2, <3>2, AddKeeps
    <3> QED BY <2>2, <3>2, <3>3 DEF ClaimsDoNotLoosen
  <2>3. ASSUME NEW rts \in BoundedSeq(RemoteTool, MaxOffer), NEW trust \in Trust, AddRemote(rts, trust)
        PROVE  n \in vouched'
    <3>1. rts \in Seq(RemoteTool) /\ tools' = WithRemote(tools, rts, trust) /\ vouched \subseteq vouched'
      BY <2>3, OfferIsSeq, OfferRecorded
    <3>2. CASE n \in DOMAIN tools
      <4>1. tools'[n] = tools[n]
        BY <3>1, <3>2, RemoteKeeps
      <4> QED BY <3>1, <3>2, <4>1 DEF ClaimsDoNotLoosen
    <3>3. CASE n \notin DOMAIN tools
      <4>1. PICK i \in 1..Len(rts) : rts[i].sendable /\ rts[i].name = n /\ tools'[n] = Classify(rts[i], trust)
        BY <3>1, <3>3, RemoteKeeps
      <4> QED BY <2>3, <4>1, OfferRecorded
    <3> QED BY <3>2, <3>3
  <2> QED BY <2>1, <2>2, <2>3, RegistrySteps
<1> QED BY <1>1, <1>2, PTL DEF Spec

(* For any offers: every tool a server offered in a form that can be sent is  *)
(* there, whatever else was in the offer (remote.go AddRemote).               *)
THEOREM BadToolsCostThemselves == Spec => []OneBadToolCostsOne
<1>1. Init => OneBadToolCostsOne
  BY DEF Init, OneBadToolCostsOne
<1>2. OneBadToolCostsOne /\ [Next]_vars => OneBadToolCostsOne'
  <2> SUFFICES ASSUME OneBadToolCostsOne, [Next]_vars, NEW n \in announced' PROVE n \in DOMAIN tools'
    BY DEF OneBadToolCostsOne
  <2>1. CASE UNCHANGED <<tools, announced, vouched>>
    BY <2>1 DEF OneBadToolCostsOne
  <2>2. ASSUME NEW t \in LocalTool, tools' = Add(tools, t), UNCHANGED <<announced, vouched>>
        PROVE  n \in DOMAIN tools'
    BY <2>2, AddKeeps DEF OneBadToolCostsOne
  <2>3. ASSUME NEW rts \in BoundedSeq(RemoteTool, MaxOffer), NEW trust \in Trust, AddRemote(rts, trust)
        PROVE  n \in DOMAIN tools'
    <3>1. rts \in Seq(RemoteTool) /\ tools' = WithRemote(tools, rts, trust)
      BY <2>3, OfferIsSeq, OfferRecorded
    <3>2. n \in announced \/ \E i \in 1..Len(rts) : rts[i].sendable /\ rts[i].name = n
      BY <2>3, OfferRecorded
    <3> QED BY <3>1, <3>2, RemoteKeeps DEF OneBadToolCostsOne
  <2> QED BY <2>1, <2>2, <2>3, RegistrySteps
<1> QED BY <1>1, <1>2, PTL DEF Spec

-----------------------------------------------------------------------------
(* Paths *)

(* Sequences of names, and what may stand at one; Home besides the goals,     *)
(* since the working directory is itself a link.                              *)
Path == Seq(FileName)

Entry == {Dir} \cup {Plain(c) : c \in Content} \cup {Link(g) : g \in Goal \cup {Home}}

(* A tree: whatever is there is in a directory, up to the top. *)
Grown(t) ==
  /\ t \in [DOMAIN t -> Entry] /\ DOMAIN t \subseteq Path /\ IsFiniteSet(DOMAIN t)
  /\ \A p \in DOMAIN t : \A n \in 0..(Len(p) - 1) : Top(p, n) \in DOMAIN t /\ t[Top(p, n)] = Dir

(* The working directory is where it was, and the link to it too. *)
TreeInv ==
  /\ Grown(tree)
  /\ Root \in DOMAIN tree /\ tree[Root] = Link(Home)
  /\ Home \in DOMAIN tree /\ tree[Home] = Dir

(* The first names of a path, *)
LEMMA TopIs ==
  ASSUME NEW S, NEW p \in Seq(S), NEW n \in 0..Len(p)
  PROVE  /\ Top(p, n) \in Seq(S) /\ Len(Top(p, n)) = n
         /\ \A i \in 1..n : Top(p, n)[i] = p[i]
  BY DEF Top

(* the first names of those, *)
LEMMA TopOfTop ==
  ASSUME NEW S, NEW p \in Seq(S), NEW n \in 0..Len(p), NEW m \in 0..n
  PROVE  Top(Top(p, n), m) = Top(p, m) /\ Top(p, Len(p)) = p
<1>1. Top(p, Len(p)) = p
  BY SubSeqFull DEF Top
<1>2. Top(p, n) \in Seq(S) /\ Len(Top(p, n)) = n /\ \A i \in 1..n : Top(p, n)[i] = p[i]
  BY TopIs
<1>3. m \in 0..Len(p) /\ m \in 0..Len(Top(p, n))
  BY <1>2
<1>4. Top(p, m) \in Seq(S) /\ Len(Top(p, m)) = m /\ \A i \in 1..m : Top(p, m)[i] = p[i]
  BY <1>3, TopIs
<1> DEFINE q == Top(p, n)
<1>5. Top(q, m) \in Seq(S) /\ Len(Top(q, m)) = m /\ \A i \in 1..m : Top(q, m)[i] = q[i]
  <2>1. q \in Seq(S) /\ m \in 0..Len(q)
    BY <1>2, <1>3
  <2> HIDE DEF q
  <2> QED BY <2>1, TopIs
<1>6. \A i \in 1..m : i \in 1..n
  OBVIOUS
<1>7. Top(q, m) = Top(p, m)
  <2>1. \A i \in 1..m : Top(q, m)[i] = Top(p, m)[i]
    BY <1>2, <1>4, <1>5, <1>6
  <2> DEFINE a == Top(q, m) b == Top(p, m)
  <2>2. a \in Seq(S) /\ b \in Seq(S) /\ Len(a) = Len(b) /\ \A i \in 1..Len(a) : a[i] = b[i]
    BY <1>4, <1>5, <2>1
  <2> HIDE DEF a, b
  <2>3. a = b
    BY <2>2, SeqEqual
  <2> QED BY <2>3 DEF a, b
<1> QED BY <1>1, <1>7

(* and a path put together. *)
LEMMA TopJoin ==
  ASSUME NEW S, NEW p \in Seq(S), NEW q \in Seq(S)
  PROVE  /\ p \o q \in Seq(S) /\ Len(p \o q) = Len(p) + Len(q)
         /\ Top(p \o q, Len(p)) = p
         /\ q # <<>> => Top(p \o q, Len(p) + 1) = Append(p, q[1])
<1>1. p \o q \in Seq(S) /\ Len(p \o q) = Len(p) + Len(q) /\ Len(p) \in Nat /\ Len(q) \in Nat
  OBVIOUS
<1>2. \A i \in 1..Len(p) : (p \o q)[i] = p[i]
  OBVIOUS
<1>3. \A i \in 1..Len(q) : (p \o q)[Len(p) + i] = q[i]
  OBVIOUS
<1> DEFINE w == p \o q
<1> HIDE DEF w
<1>4. Top(w, Len(p)) = p
  <2>1. Len(p) \in 0..Len(w)
    BY <1>1 DEF w
  <2>2. w \in Seq(S)
    BY <1>1 DEF w
  <2>3. Top(w, Len(p)) \in Seq(S) /\ Len(Top(w, Len(p))) = Len(p) /\ \A i \in 1..Len(p) : Top(w, Len(p))[i] = w[i]
    BY <2>1, <2>2, TopIs
  <2>4. \A i \in 1..Len(p) : Top(w, Len(p))[i] = p[i]
    BY <1>2, <2>3 DEF w
  <2> QED BY <2>3, <2>4, SeqEqual
<1>5. ASSUME q # <<>> PROVE Top(w, Len(p) + 1) = Append(p, q[1])
  <2>1. Len(q) >= 1 /\ q[1] \in S
    BY <1>5
  <2>2. Len(p) + 1 \in 0..Len(w) /\ w \in Seq(S)
    BY <1>1, <2>1 DEF w
  <2> DEFINE a == Top(w, Len(p) + 1) b == Append(p, q[1])
  <2>3. a \in Seq(S) /\ Len(a) = Len(p) + 1 /\ \A i \in 1..(Len(p) + 1) : a[i] = w[i]
    BY <2>2, TopIs
  <2>4. b \in Seq(S) /\ Len(b) = Len(p) + 1 /\ b[Len(p) + 1] = q[1] /\ \A i \in 1..Len(p) : b[i] = p[i]
    BY <2>1
  <2> HIDE DEF a, b
  <2>5. w[Len(p) + 1] = q[1]
    BY <1>3, <2>1 DEF w
  <2>6. \A i \in 1..(Len(p) + 1) : a[i] = b[i]
    <3> TAKE i \in 1..(Len(p) + 1)
    <3>1. CASE i = Len(p) + 1
      BY <2>3, <2>4, <2>5, <3>1
    <3>2. CASE i # Len(p) + 1
      <4>1. i \in 1..Len(p)
        BY <1>1, <3>2
      <4> QED BY <1>2, <2>3, <2>4, <4>1 DEF w
    <3> QED BY <3>1, <3>2
  <2>7. a = b
    BY <2>3, <2>4, <2>6, SeqEqual
  <2> QED BY <2>7 DEF a, b
<1> QED BY <1>1, <1>4, <1>5 DEF w

-----------------------------------------------------------------------------
(* Resolution *)

(* No path is nowhere. *)
LEMMA Nowhere ==
  NoPath \notin Path /\ NoPath \in Seq({"nowhere"})
<1>1. NoPath[1] = "nowhere" /\ Len(NoPath) = 1
  BY DEF NoPath
<1>2. \A p \in Path : Len(p) = 1 => p[1] \in FileName
  BY DEF Path
<1>3. NoPath \in Seq({"nowhere"})
  BY DEF NoPath
<1> QED BY <1>1, <1>2, <1>3, FileAssumption

(* The working directory and the link that is configured are paths of one     *)
(* name.                                                                      *)
LEMMA HomeIs ==
  /\ Home \in Path /\ Len(Home) = 1 /\ Home[1] = "work"
  /\ Root \in Path /\ Len(Root) = 1 /\ Root # Home
<1>1. "work" \in FileName /\ "cwd" \in FileName
  BY FileAssumption
<1> QED BY <1>1 DEF Path, Home, Root

(* What a name stands for is one of three things. *)
LEMMA EntryIs ==
  ASSUME Grown(tree), NEW p \in DOMAIN tree
  PROVE  /\ p \in Path
         /\ tree[p].type \in {"dir", "file", "link"}
         /\ tree[p].type = "dir" <=> tree[p] = Dir
         /\ tree[p].type = "file" => tree[p].content \in Content
         /\ tree[p].type = "link" => tree[p].to \in Path
<1>1. tree[p] \in Entry /\ p \in Path
  BY DEF Grown
<1>2. CASE tree[p] = Dir
  BY <1>1, <1>2 DEF Dir
<1>3. ASSUME NEW c \in Content, tree[p] = Plain(c)
      PROVE  tree[p].type = "file" /\ tree[p].content = c /\ tree[p] # Dir
  BY <1>3 DEF Plain, Dir
<1>4. ASSUME NEW g \in Goal \cup {Home}, tree[p] = Link(g)
      PROVE  tree[p].type = "link" /\ tree[p].to \in Path /\ tree[p] # Dir
  <2>1. g \in Path
    BY HomeIs, FileAssumption DEF Path
  <2> QED BY <1>4, <2>1 DEF Link, Dir
<1> QED BY <1>1, <1>2, <1>3, <1>4 DEF Entry

(* What is there and is no link is where it says it is, *)
LEMMA CanonicalHere ==
  ASSUME Grown(tree), NEW p \in DOMAIN tree, tree[p].type # "link"
  PROVE  Canonical(p)
<1>1. p \in Path /\ Top(p, Len(p)) = p /\ Len(p) \in Nat
  <2>1. p \in Path
    BY DEF Grown
  <2>2. 0 \in 0..Len(p)
    BY <2>1 DEF Path
  <2> QED BY <2>1, <2>2, TopOfTop DEF Path
<1>2. ASSUME NEW n \in 1..Len(p), Top(p, n) \notin DOMAIN tree \/ Is(Top(p, n), "link")
      PROVE  FALSE
  <2>1. CASE n = Len(p)
    BY <1>1, <1>2, <2>1 DEF Is
  <2>2. CASE n # Len(p)
    <3>1. n \in 0..(Len(p) - 1)
      BY <1>1, <2>2
    <3>2. Top(p, n) \in DOMAIN tree /\ tree[Top(p, n)] = Dir
      BY <3>1 DEF Grown
    <3> QED BY <1>2, <3>2 DEF Is, Dir
  <2> QED BY <2>1, <2>2
<1> QED BY <1>2 DEF Canonical, Stops

(* and the other way around. *)
LEMMA HereIfCanonical ==
  ASSUME NEW p \in Path, Canonical(p), NEW n \in 1..Len(p)
  PROVE  Top(p, n) \in DOMAIN tree /\ ~Is(Top(p, n), "link")
  BY DEF Canonical, Stops

(* What leads to such a path is such a path. *)
LEMMA CanonicalTop ==
  ASSUME NEW p \in Path, Canonical(p), NEW n \in 0..Len(p)
  PROVE  Canonical(Top(p, n)) /\ Top(p, n) \in Path
<1>1. Top(p, n) \in Path /\ Len(Top(p, n)) = n
  BY TopIs DEF Path
<1>2. ASSUME NEW m \in 1..n
      PROVE  Top(Top(p, n), m) \in DOMAIN tree /\ ~Is(Top(Top(p, n), m), "link")
  <2>1. Top(Top(p, n), m) = Top(p, m) /\ m \in 1..Len(p)
    BY <1>2, TopOfTop DEF Path
  <2> QED BY <2>1, HereIfCanonical
<1> QED BY <1>1, <1>2 DEF Canonical, Stops

(* Following leads to a path, or nowhere. *)
LEMMA FollowType ==
  ASSUME Grown(tree), NEW p \in Path \cup {NoPath}
  PROVE  Follow(p) \in Path \cup {NoPath}
<1> DEFINE n == Min(Stops(p))
<1>1. ASSUME ~Canonical(p) PROVE n \in Stops(p)
  <2>1. Stops(p) \in SUBSET Nat /\ Stops(p) # {}
    <3>1. Len(p) \in Nat
      BY Nowhere DEF Path
    <3> QED BY <1>1, <3>1 DEF Canonical, Stops
  <2> QED BY <2>1, MinIsLeast
<1>2. ASSUME ~Canonical(p), Top(p, n) \in DOMAIN tree PROVE tree[Top(p, n)].to \o SubSeq(p, n + 1, Len(p)) \in Path
  <2> HIDE DEF n
  <2>1. n \in 1..Len(p) /\ Is(Top(p, n), "link")
    BY <1>1, <1>2 DEF Stops
  <2>2. tree[Top(p, n)].to \in Path
    BY <1>2, <2>1, EntryIs DEF Is
  <2>3. p \in Path
    <3>1. CASE p = NoPath
      <4>1. Top(p, n) = NoPath
        <5>1. n = 1
          BY <2>1, <3>1 DEF NoPath
        <5>2. Len(NoPath) = 1
          BY DEF NoPath
        <5> QED BY <3>1, <5>1, <5>2, Nowhere, SubSeqFull DEF Top
      <4> QED BY <1>2, <4>1, Nowhere DEF Grown
    <3> QED BY <3>1
  <2>4. SubSeq(p, n + 1, Len(p)) \in Path
    BY <2>1, <2>3 DEF Path
  <2> QED BY <2>2, <2>4 DEF Path
<1> QED BY <1>2 DEF Follow

(* EvalSymlinks follows as often as it may, *)
LEMMA EvalHops ==
  ASSUME Grown(tree), NEW p \in Path \cup {NoPath}
  PROVE  \E h \in [0..MaxLinks -> Path \cup {NoPath}] :
           /\ h[0] = p /\ \A n \in 1..MaxLinks : h[n] = Follow(h[n - 1])
           /\ EvalSymlinks(p) = IF Canonical(h[MaxLinks]) THEN h[MaxLinks] ELSE NoPath
<1> DEFINE S == Path \cup {NoPath}
           step == [n \in 1..MaxLinks |-> [x \in S |-> Follow(x)]]
           Eq(f) == f = [n \in 0..MaxLinks |-> IF n = 0 THEN p ELSE Follow(f[n - 1])]
           hop == CHOOSE f : Eq(f)
<1>1. MaxLinks \in Nat \ {0}
  BY FileAssumption
<1>2. EvalSymlinks(p) = IF Canonical(hop[MaxLinks]) THEN hop[MaxLinks] ELSE NoPath
  BY DEF EvalSymlinks
<1>3. \A x \in S : Follow(x) \in S
  BY FollowType
<1>4. p \in S /\ step \in [1..MaxLinks -> [S -> S]]
  <2> HIDE DEF S
  <2>1. [x \in S |-> Follow(x)] \in [S -> S]
    BY <1>3
  <2> QED BY <2>1 DEF S
<1> HIDE DEF S
<1>5. PICK f : StepsIn(f, step, p, MaxLinks, S)
  <2> HIDE DEF step
  <2> QED BY <1>1, <1>4, Iterates
<1>6. Eq(f)
  <2>1. f \in [0..MaxLinks -> S] /\ f[0] = p
    BY <1>5 DEF StepsIn, Steps
  <2>2. ASSUME NEW n \in 1..MaxLinks PROVE f[n] = Follow(f[n - 1])
    <3>1. n - 1 \in 0..MaxLinks
      BY <1>1
    <3>2. f[n - 1] \in S
      BY <2>1, <3>1
    <3>3. f[n] = step[n][f[n - 1]]
      BY <1>5 DEF StepsIn, Steps
    <3> QED BY <3>2, <3>3
  <2>3. \A n \in 0..MaxLinks : n = 0 \/ n \in 1..MaxLinks
    BY <1>1
  <2> HIDE DEF step
  <2> QED BY <2>1, <2>2, <2>3
<1>7. Eq(hop)
  BY <1>6
<1> HIDE DEF hop
<1>8. DOMAIN hop = 0..MaxLinks /\ hop[0] = p /\ \A n \in 1..MaxLinks : hop[n] = Follow(hop[n - 1])
  <2>1. \A n \in 0..MaxLinks : hop[n] = IF n = 0 THEN p ELSE Follow(hop[n - 1])
    BY <1>7
  <2>2. \A n \in 1..MaxLinks : n \in 0..MaxLinks /\ n # 0
    BY <1>1
  <2>3. 0 \in 0..MaxLinks /\ DOMAIN hop = 0..MaxLinks
    BY <1>1, <1>7
  <2> HIDE DEF Eq
  <2> QED BY <2>1, <2>2, <2>3
<1>9. hop = [n \in 0..MaxLinks |-> hop[n]]
  BY <1>7
<1>10. hop \in [0..MaxLinks -> S]
  <2>1. \A n \in 1..MaxLinks : hop[n - 1] \in S => hop[n] \in S
    BY <1>3, <1>8
  <2>2. MaxLinks \in Nat /\ hop[0] \in S
    BY <1>1, <1>4, <1>8
  <2> QED BY <1>9, <2>1, <2>2, Stays
<1> QED BY <1>2, <1>8, <1>10 DEF S

(* to something that is where it says it is, if anywhere, *)
LEMMA EvalIs ==
  ASSUME Grown(tree), NEW p \in Path \cup {NoPath}
  PROVE  /\ EvalSymlinks(p) \in Path \cup {NoPath}
         /\ EvalSymlinks(p) # NoPath => EvalSymlinks(p) \in Path /\ Canonical(EvalSymlinks(p))
<1>1. PICK h \in [0..MaxLinks -> Path \cup {NoPath}] :
        EvalSymlinks(p) = IF Canonical(h[MaxLinks]) THEN h[MaxLinks] ELSE NoPath
  BY EvalHops
<1>2. MaxLinks \in 0..MaxLinks
  <2>1. MaxLinks \in Nat
    BY FileAssumption
  <2> QED BY <2>1
<1>3. h[MaxLinks] \in Path \cup {NoPath}
  BY <1>2
<1> QED BY <1>1, <1>3

(* and there already if one link is followed and no other is left. *)
LEMMA EvalAtOnce ==
  ASSUME Grown(tree), NEW p \in Path \cup {NoPath}, Follow(Follow(p)) = Follow(p)
  PROVE  EvalSymlinks(p) = IF Canonical(Follow(p)) THEN Follow(p) ELSE NoPath
<1>1. PICK h \in [0..MaxLinks -> Path \cup {NoPath}] :
        /\ h[0] = p /\ \A n \in 1..MaxLinks : h[n] = Follow(h[n - 1])
        /\ EvalSymlinks(p) = IF Canonical(h[MaxLinks]) THEN h[MaxLinks] ELSE NoPath
  BY EvalHops
<1>2. MaxLinks \in Nat \ {0}
  BY FileAssumption
<1> DEFINE N == MaxLinks - 1
           T == {n \in 0..N : h[n + 1] = Follow(p)}
<1>3. N \in Nat /\ N \in 0..N /\ N + 1 = MaxLinks
  BY <1>2
<1>4. 0 \in T
  <2>1. 0 \in 0..N /\ 0 + 1 \in 1..MaxLinks /\ 0 + 1 - 1 = 0
    BY <1>2
  <2> QED BY <1>1, <2>1
<1>5. ASSUME NEW n \in 1..N, n - 1 \in T PROVE n \in T
  <2>1. n \in 0..N /\ n + 1 \in 1..MaxLinks /\ n + 1 - 1 = n /\ n - 1 + 1 = n
    BY <1>2
  <2>2. h[n] = Follow(p)
    BY <1>5, <2>1
  <2>3. h[n + 1] = Follow(h[n])
    BY <1>1, <2>1
  <2> QED BY <2>1, <2>2, <2>3
<1>6. N \in T
  <2> HIDE DEF T, N
  <2> QED BY <1>3, <1>4, <1>5, Upwards
<1> QED BY <1>1, <1>3, <1>6

(* A path of directories and no links is its own, *)
LEMMA EvalCanonical ==
  ASSUME Grown(tree), NEW p \in Path, Canonical(p)
  PROVE  EvalSymlinks(p) = p
<1>1. Follow(p) = p
  BY DEF Follow
<1> QED BY <1>1, EvalAtOnce

(* one through something missing is nowhere, *)
LEMMA EvalMissing ==
  ASSUME Grown(tree), NEW p \in Path, NEW n \in 1..Len(p),
         Canonical(Top(p, n - 1)), Top(p, n) \notin DOMAIN tree
  PROVE  EvalSymlinks(p) = NoPath
<1>1. n \in Stops(p)
  BY DEF Stops
<1>2. ASSUME NEW m \in Stops(p) PROVE m >= n
  <2>1. SUFFICES ASSUME m < n PROVE FALSE
    BY <1>2 DEF Stops, Path
  <2>2. m \in 1..(n - 1) /\ n - 1 \in 0..Len(p) /\ m \in 0..(n - 1)
    BY <1>2, <2>1 DEF Stops, Path
  <2>3. Top(Top(p, n - 1), m) = Top(p, m)
    BY <2>2, TopOfTop DEF Path
  <2>4. Top(p, n - 1) \in Path /\ Len(Top(p, n - 1)) = n - 1
    BY <2>2, TopIs DEF Path
  <2>5. Top(Top(p, n - 1), m) \in DOMAIN tree /\ ~Is(Top(Top(p, n - 1), m), "link")
    BY <2>2, <2>4, HereIfCanonical
  <2> QED BY <1>2, <2>3, <2>5 DEF Stops
<1>3. Min(Stops(p)) = n
  <2>1. Stops(p) \in SUBSET Nat
    BY DEF Stops, Path
  <2>2. Min(Stops(p)) \in Stops(p) /\ Min(Stops(p)) <= n
    BY <1>1, <2>1, MinIsLeast
  <2>3. Min(Stops(p)) >= n /\ Min(Stops(p)) \in Nat
    BY <1>2, <2>1, <2>2
  <2> QED BY <2>2, <2>3 DEF Path
<1>4. Follow(p) = NoPath
  BY <1>1, <1>3 DEF Follow, Canonical
<1>5. Follow(NoPath) = NoPath /\ ~Canonical(NoPath)
  <2>1. Len(NoPath) = 1 /\ Top(NoPath, 1) = NoPath
    <3>1. Len(NoPath) = 1
      BY DEF NoPath
    <3> QED BY <3>1, Nowhere, SubSeqFull DEF Top
  <2>2. NoPath \notin DOMAIN tree
    BY Nowhere DEF Grown
  <2>3. Stops(NoPath) = {1}
    BY <2>1, <2>2 DEF Stops
  <2>4. Min({1}) = 1
    BY MinIsLeast
  <2> QED BY <2>1, <2>2, <2>3, <2>4 DEF Follow, Canonical
<1> QED BY <1>4, <1>5, EvalAtOnce

(* and the working directory is found. *)
LEMMA EvalRoot ==
  ASSUME TreeInv
  PROVE  EvalSymlinks(Root) = Home /\ Canonical(Home)
<1>1. Grown(tree) /\ Canonical(Home)
  BY CanonicalHere DEF TreeInv, Dir
<1>2. Top(Root, 1) = Root
  BY HomeIs, SubSeqFull DEF Path, Top
<1>3. Stops(Root) = {1}
  BY <1>2, HomeIs DEF Stops, TreeInv, Is, Link
<1>4. Min({1}) = 1
  BY MinIsLeast
<1>5. Follow(Root) = Home \o SubSeq(Root, 2, 1)
  BY <1>2, <1>3, <1>4, HomeIs DEF Follow, Canonical, TreeInv, Link
<1>6. SubSeq(Root, 2, 1) = <<>>
  BY SubSeqEmpty
<1>7. Follow(Root) = Home
  BY <1>5, <1>6, HomeIs, ConcatEmptySeq DEF Path
<1>8. Follow(Home) = Home
  BY <1>1 DEF Follow
<1> QED BY <1>1, <1>7, <1>8, HomeIs, EvalAtOnce

(* A path is in the working directory, and not in .git, by its names. *)
LEMMA InsideIs ==
  ASSUME NEW p \in Path
  PROVE  /\ under(Home, p) <=> Len(p) >= 1 /\ p[1] = "work"
         /\ under(Home, p) => (insideGitDir(Home, p) <=> \E i \in 2..Len(p) : p[i] = ".git")
         /\ Inside(p) <=> Len(p) >= 1 /\ p[1] = "work" /\ \A i \in 2..Len(p) : p[i] # ".git"
<1>1. Len(p) \in Nat
  BY DEF Path
<1>2. under(Home, p) <=> Len(p) >= 1 /\ p[1] = "work"
  <2>1. under(Home, p) <=> Len(p) >= 1 /\ SubSeq(Home, 1, 1) = SubSeq(p, 1, 1)
    BY HomeIs DEF under, IsPrefix
  <2>2. SubSeq(Home, 1, 1) = Home
    BY HomeIs, SubSeqFull DEF Path
  <2>3. ASSUME Len(p) >= 1 PROVE SubSeq(p, 1, 1) = Home <=> p[1] = "work"
    <3>1. 1 \in 0..Len(p) /\ 1 \in 1..1
      BY <1>1, <2>3
    <3>2. Top(p, 1) \in Path /\ Len(Top(p, 1)) = 1 /\ Top(p, 1)[1] = p[1]
      BY <3>1, TopIs DEF Path
    <3> DEFINE t == Top(p, 1)
    <3> HIDE DEF t
    <3>3. t \in Path /\ Len(t) = 1 /\ t[1] = p[1]
      BY <3>2 DEF t
    <3>4. ASSUME p[1] = "work" PROVE t = Home
      <4>1. \A i \in 1..Len(t) : t[i] = Home[i]
        BY <3>3, <3>4, HomeIs
      <4> QED BY <3>3, <4>1, HomeIs, SeqEqual DEF Path
    <3> QED BY <3>3, <3>4, HomeIs DEF t, Top
  <2> QED BY <2>1, <2>2, <2>3
<1>3. ASSUME Len(p) >= 1 PROVE insideGitDir(Home, p) <=> \E i \in 2..Len(p) : p[i] = ".git"
  <2> DEFINE s == SubSeq(p, 2, Len(p))
  <2>1. Len(s) = Len(p) - 1 /\ DOMAIN s = 1..(Len(p) - 1) /\ \A i \in 1..(Len(p) - 1) : s[i] = p[i + 1]
    <3>1. s \in Seq(FileName) /\ Len(s) = Len(p) - 1 /\ \A i \in 1..Len(s) : s[i] = p[2 + i - 1]
      <4>1. \A i \in 2..Len(p) : p[i] \in FileName
        BY <1>1 DEF Path
      <4>2. s \in Seq(FileName) /\ Len(s) = (IF 2 <= Len(p) THEN Len(p) - 2 + 1 ELSE 0)
            /\ \A i \in 1..(Len(p) - 2 + 1) : s[i] = p[2 + i - 1]
        <5>1. 2 \in Int /\ Len(p) \in Int
          BY <1>1
        <5> QED BY <4>1, <5>1, SubSeqProperties
      <4>3. Len(s) = Len(p) - 1 /\ Len(p) - 2 + 1 = Len(s)
        BY <1>1, <1>3, <4>2
      <4> QED BY <4>2, <4>3
    <3>2. DOMAIN s = 1..Len(s) /\ \A i \in 1..(Len(p) - 1) : 2 + i - 1 = i + 1
      BY <1>1, <3>1
    <3> HIDE DEF s
    <3> QED BY <3>1, <3>2
  <2>2. insideGitDir(Home, p) <=> ".git" \in ToSet(s)
    BY HomeIs DEF insideGitDir
  <2> HIDE DEF s
  <2>3. ".git" \in ToSet(s) <=> \E i \in 1..(Len(p) - 1) : s[i] = ".git"
    BY <2>1 DEF ToSet
  <2>4. \A i \in 2..Len(p) : i - 1 \in 1..(Len(p) - 1) /\ i - 1 + 1 = i
    BY <1>1
  <2>5. \A i \in 1..(Len(p) - 1) : i + 1 \in 2..Len(p)
    BY <1>1
  <2> QED BY <2>1, <2>2, <2>3, <2>4, <2>5
<1> QED BY <1>2, <1>3 DEF Inside

(* What leads to a path inside, from the working directory on, is inside. *)
LEMMA InsideTop ==
  ASSUME NEW p \in Path, Inside(p), NEW n \in 1..Len(p)
  PROVE  Top(p, n) \in Path /\ Inside(Top(p, n))
<1>1. n \in 0..Len(p) /\ Len(p) >= 1 /\ p[1] = "work" /\ \A i \in 2..Len(p) : p[i] # ".git"
  BY InsideIs DEF Path
<1>2. Top(p, n) \in Path /\ Len(Top(p, n)) = n /\ \A i \in 1..n : Top(p, n)[i] = p[i]
  BY <1>1, TopIs DEF Path
<1>3. 1 \in 1..n /\ \A i \in 2..n : i \in 1..n /\ i \in 2..Len(p)
  BY DEF Path
<1> DEFINE q == Top(p, n)
<1> HIDE DEF q
<1>4. q \in Path /\ Len(q) >= 1 /\ q[1] = "work" /\ \A i \in 2..Len(q) : q[i] # ".git"
  BY <1>1, <1>2, <1>3 DEF q
<1>5. Inside(q)
  BY <1>4, InsideIs
<1> QED BY <1>2, <1>5 DEF q

(* Front is the top but one. *)
LEMMA FrontIs ==
  ASSUME NEW S, NEW p \in Seq(S), p # <<>>
  PROVE  /\ Front(p) = Top(p, Len(p) - 1) /\ Last(p) \in S /\ Last(p) = p[Len(p)]
         /\ Front(p) \in Seq(S) /\ Len(Front(p)) = Len(p) - 1
         /\ p = Append(Front(p), Last(p))
<1>1. Len(p) \in Nat /\ Len(p) >= 1 /\ Front(p) = Top(p, Len(p) - 1) /\ Last(p) = p[Len(p)] /\ p[Len(p)] \in S
  BY DEF Front, Top, Last
<1>2. Len(p) - 1 \in 0..Len(p)
  BY <1>1
<1>3. Front(p) \in Seq(S) /\ Len(Front(p)) = Len(p) - 1 /\ \A i \in 1..(Len(p) - 1) : Front(p)[i] = p[i]
  BY <1>1, <1>2, TopIs
<1> DEFINE f == Front(p) l == Last(p) a == Append(f, l)
<1>4. f \in Seq(S) /\ l \in S /\ Len(f) = Len(p) - 1 /\ l = p[Len(p)] /\ \A i \in 1..(Len(p) - 1) : f[i] = p[i]
  BY <1>1, <1>3
<1> HIDE DEF f, l
<1>5. a \in Seq(S) /\ Len(a) = Len(p) /\ \A i \in 1..Len(p) : a[i] = p[i]
  BY <1>1, <1>4
<1>6. a = p
  <2> HIDE DEF a
  <2> QED BY <1>5, SeqEqual
<1> QED BY <1>1, <1>3, <1>6 DEF f, l, a

(* Where the place of a name is, *)
LEMMA PlaceIs ==
  ASSUME Grown(tree), NEW p \in Path
  PROVE  /\ Place(p) \in DOMAIN tree => p = <<>> \/ EvalSymlinks(Front(p)) # NoPath
         /\ p # <<>> /\ Canonical(Front(p)) => Place(p) = p
         /\ Place(p) \in Path \/ (p # <<>> /\ EvalSymlinks(Front(p)) = NoPath)
<1>1. CASE p = <<>>
  BY <1>1 DEF Place
<1>2. CASE p # <<>>
  <2>1. Front(p) \in Path /\ Last(p) \in FileName /\ p = Append(Front(p), Last(p))
    BY <1>2, FrontIs DEF Path
  <2>2. Place(p) = Append(EvalSymlinks(Front(p)), Last(p))
    BY <1>2 DEF Place
  <2>3. ASSUME EvalSymlinks(Front(p)) = NoPath PROVE Place(p) \notin DOMAIN tree
    <3>1. Append(NoPath, Last(p))[1] = "nowhere" /\ Len(Append(NoPath, Last(p))) = 2
      BY DEF NoPath
    <3>2. \A q \in Path : 1 \in 1..Len(q) => q[1] \in FileName
      BY DEF Path
    <3> DEFINE a == Append(NoPath, Last(p))
    <3>3. a \notin Path
      <4>1. Len(a) = 2 /\ a[1] = "nowhere" /\ 1 \in 1..2
        BY <3>1
      <4> HIDE DEF a
      <4>2. a \in Path => a[1] \in FileName
        BY <3>2, <4>1
      <4> QED BY <4>1, <4>2, FileAssumption
    <3> QED BY <2>2, <2>3, <3>3 DEF Grown
  <2>4. ASSUME EvalSymlinks(Front(p)) # NoPath PROVE Place(p) \in Path
    <3>1. EvalSymlinks(Front(p)) \in Path
      BY <2>1, <2>4, EvalIs
    <3> QED BY <2>1, <2>2, <3>1 DEF Path
  <2>5. Canonical(Front(p)) => EvalSymlinks(Front(p)) = Front(p)
    BY <2>1, EvalCanonical
  <2> QED BY <1>2, <2>1, <2>2, <2>3, <2>4, <2>5
<1> QED BY <1>1, <1>2

(* and how much of a path exists. *)
LEMMA ExistingIs ==
  ASSUME TreeInv, NEW p \in Path
  PROVE  /\ Existing(p) \in 0..Len(p) /\ Lexists(Top(p, Existing(p)))
         /\ \A n \in 0..Len(p) : n > Existing(p) => ~Lexists(Top(p, n))
<1> DEFINE S == {n \in 0..Len(p) : Lexists(Top(p, n))}
           R == {Len(p) - n : n \in S}
<1>1. Len(p) \in Nat
  BY DEF Path
<1>2. 0 \in S
  <2>1. Top(p, 0) = <<>>
    BY SubSeqEmpty DEF Top
  <2>2. Top(Home, 0) = <<>>
    BY SubSeqEmpty DEF Top
  <2>3. <<>> \in DOMAIN tree
    <3>1. 0 \in 0..(Len(Home) - 1)
      BY HomeIs
    <3> QED BY <2>2, <3>1 DEF TreeInv, Grown
  <2> QED BY <1>1, <2>1, <2>3 DEF Lexists, Place
<1>3. PICK m \in S : \A n \in S : m >= n
  <2>1. R \in SUBSET Nat /\ R # {}
    BY <1>1, <1>2
  <2>2. PICK r \in R : \A x \in R : r <= x
    <3> HIDE DEF R
    <3> QED BY <2>1, Least
  <2>3. PICK m \in S : r = Len(p) - m
    BY <2>2
  <2>4. \A n \in S : Len(p) - m <= Len(p) - n
    BY <2>2, <2>3
  <2> QED BY <1>1, <2>4
<1>4. Existing(p) = Max(S)
  BY DEF Existing
<1>5. Max(S) \in S /\ \A n \in S : Max(S) >= n
  <2> HIDE DEF S
  <2> QED BY <1>3 DEF Max
<1>6. \A n \in 0..Len(p) : n > Max(S) => n \notin S
  <2> SUFFICES ASSUME NEW n \in 0..Len(p), n > Max(S), n \in S PROVE FALSE
    OBVIOUS
  <2>1. Max(S) \in Int /\ n \in Int /\ Max(S) >= n
    BY <1>1, <1>5
  <2> HIDE DEF S
  <2> QED BY <2>1
<1> QED BY <1>4, <1>5, <1>6

(* Whatever the path, its front is one. *)
LEMMA FrontType ==
  ASSUME NEW p \in Path
  PROVE  Front(p) \in Path
<1>1. CASE p = <<>>
  <2>1. Len(p) = 0 /\ Front(p) = SubSeq(p, 1, Len(p) - 1)
    BY <1>1 DEF Front
  <2>2. SubSeq(p, 1, 0 - 1) = <<>>
    BY SubSeqEmpty
  <2> QED BY <2>1, <2>2 DEF Path
<1>2. CASE p # <<>>
  BY <1>2, FrontIs DEF Path
<1> QED BY <1>1, <1>2

(* Join adds the names of a path one by one. *)
LEMMA JoinIs ==
  ASSUME NEW p \in Path, NEW rel \in Path
  PROVE  \E u \in [0..Len(rel) -> Path] :
           /\ Join(p, rel) = u[Len(rel)] /\ u[0] = p
           /\ \A n \in 1..Len(rel) :
                u[n] = IF rel[n] = ".." THEN Front(u[n - 1]) ELSE Append(u[n - 1], rel[n])
<1> DEFINE N == Len(rel)
           step == [n \in 1..N |-> [x \in Path |-> IF rel[n] = ".." THEN Front(x) ELSE Append(x, rel[n])]]
           Eq(f) == f = [n \in 0..N |->
                       IF n = 0 THEN p
                       ELSE IF rel[n] = ".." THEN Front(f[n - 1]) ELSE Append(f[n - 1], rel[n])]
           up == CHOOSE f : Eq(f)
<1>1. N \in Nat /\ \A n \in 1..N : rel[n] \in FileName
  BY DEF Path
<1>2. Join(p, rel) = up[N]
  BY DEF Join
<1> HIDE DEF N
<1>3. \A n \in 1..N, x \in Path : (IF rel[n] = ".." THEN Front(x) ELSE Append(x, rel[n])) \in Path
  <2> TAKE n \in 1..N, x \in Path
  <2>1. Front(x) \in Path
    BY FrontType
  <2>2. Append(x, rel[n]) \in Path
    BY <1>1 DEF Path
  <2> QED BY <2>1, <2>2
<1>4. step \in [1..N -> [Path -> Path]]
  BY <1>3
<1>5. PICK f : StepsIn(f, step, p, N, Path)
  <2> HIDE DEF step
  <2> QED BY <1>1, <1>4, Iterates
<1>6. Eq(f)
  <2>1. \A n \in 1..N : f[n] = IF rel[n] = ".." THEN Front(f[n - 1]) ELSE Append(f[n - 1], rel[n])
    <3> TAKE n \in 1..N
    <3>0. n - 1 \in 0..N
      BY <1>1
    <3>1. f[n - 1] \in Path
      BY <1>5, <3>0 DEF StepsIn
    <3>2. f[n] = step[n][f[n - 1]]
      BY <1>5 DEF StepsIn, Steps
    <3> QED BY <3>1, <3>2
  <2>2. \A n \in 0..N : n = 0 \/ n \in 1..N
    BY <1>1
  <2>3. f \in [0..N -> Path] /\ f[0] = p
    BY <1>5 DEF StepsIn, Steps
  <2> HIDE DEF step
  <2> QED BY <2>1, <2>2, <2>3
<1>7. Eq(up)
  BY <1>6
<1> HIDE DEF up
<1>8. /\ up = [n \in 0..N |-> up[n]] /\ up[0] = p
      /\ \A n \in 1..N : up[n] = IF rel[n] = ".." THEN Front(up[n - 1]) ELSE Append(up[n - 1], rel[n])
  <2>1. \A n \in 0..N : up[n] = IF n = 0 THEN p
                       ELSE IF rel[n] = ".." THEN Front(up[n - 1]) ELSE Append(up[n - 1], rel[n])
    BY <1>7
  <2>2. \A n \in 1..N : n \in 0..N /\ n # 0
    BY <1>1
  <2>3. 0 \in 0..N /\ up = [n \in 0..N |-> up[n]]
    BY <1>1, <1>7
  <2> HIDE DEF Eq
  <2> QED BY <2>1, <2>2, <2>3
<1>9. up \in [0..N -> Path]
  <2>1. \A n \in 1..N : up[n - 1] \in Path => up[n] \in Path
    BY <1>3, <1>8
  <2>2. up = [n \in 0..N |-> up[n]] /\ up[0] \in Path
    BY <1>8
  <2> QED BY <1>1, <2>1, <2>2, Stays
<1> QED BY <1>2, <1>8, <1>9 DEF N

(* so what is joined is a path. *)
LEMMA JoinType ==
  ASSUME NEW p \in Path, NEW rel \in Path
  PROVE  Join(p, rel) \in Path
<1>1. PICK u \in [0..Len(rel) -> Path] : Join(p, rel) = u[Len(rel)]
  BY JoinIs
<1>2. Len(rel) \in 0..Len(rel)
  BY DEF Path
<1> QED BY <1>1, <1>2

-----------------------------------------------------------------------------
(* Writing *)

(* A path that resolves may be written: it is a file, or what is missing of   *)
(* it begins behind a path that resolves.                                     *)
Behind(p, k) == k \in 1..(Len(p) - 1) /\ Canonical(Top(p, k)) /\ Top(p, k + 1) \notin DOMAIN tree

(* A settled path is inside, and a file there or missing behind what is       *)
(* there.                                                                     *)
Settled(p) ==
  /\ p \in Path /\ Inside(p)
  /\ (Canonical(p) /\ ~Is(p, "dir")) \/ \E k \in Nat : Behind(p, k)

(* What stands behind something missing is missing, *)
LEMMA BehindIs ==
  ASSUME Grown(tree), NEW base \in Path, NEW rest \in Path,
         rest # <<>> => Append(base, rest[1]) \notin DOMAIN tree
  PROVE  /\ base \o rest \in Path /\ Len(base \o rest) = Len(base) + Len(rest)
         /\ Top(base \o rest, Len(base)) = base
         /\ \A n \in (Len(base) + 1)..Len(base \o rest) : Top(base \o rest, n) \notin DOMAIN tree
<1> DEFINE w == base \o rest
<1>1. w \in Path /\ Len(w) = Len(base) + Len(rest) /\ Top(w, Len(base)) = base
      /\ (rest # <<>> => Top(w, Len(base) + 1) = Append(base, rest[1]))
  BY TopJoin DEF Path
<1>2. Len(base) \in Nat /\ Len(rest) \in Nat
  BY DEF Path
<1> HIDE DEF w
<1>3. ASSUME NEW n \in (Len(base) + 1)..Len(w), Top(w, n) \in DOMAIN tree PROVE FALSE
  <2>1. rest = <<>> => Len(rest) = 0
    OBVIOUS
  <2>2. rest # <<>> /\ n \in 0..Len(w) /\ Len(base) + 1 \in 0..n
    BY <1>1, <1>2, <1>3, <2>1
  <2>3. Top(w, n) \in Path /\ Len(Top(w, n)) = n
    BY <1>1, <2>2, TopIs DEF Path
  <2>4. Top(Top(w, n), Len(base) + 1) = Top(w, Len(base) + 1)
    BY <1>1, <2>2, TopOfTop DEF Path
  <2>5. Top(w, Len(base) + 1) \in DOMAIN tree
    <3>1. CASE n = Len(base) + 1
      BY <1>3, <3>1
    <3>2. CASE n # Len(base) + 1
      <4>1. Len(base) + 1 \in 0..(Len(Top(w, n)) - 1)
        BY <1>2, <2>2, <2>3, <3>2
      <4> QED BY <1>3, <2>4, <4>1 DEF Grown
    <3> QED BY <3>1, <3>2
  <2> QED BY <1>1, <2>2, <2>5
<1> QED BY <1>1, <1>3 DEF w

(* and so is what stands behind the part of a path that exists, *)
LEMMA RestoredIs ==
  ASSUME TreeInv, NEW p \in Path, Known(p) # NoPath
  PROVE  /\ Known(p) \in Path /\ Canonical(Known(p)) /\ Restored(p) \in Path
         /\ Len(Restored(p)) = Len(Known(p)) + (Len(p) - Existing(p)) /\ Existing(p) \in 0..Len(p)
         /\ Top(Restored(p), Len(Known(p))) = Known(p)
         /\ \A n \in (Len(Known(p)) + 1)..Len(Restored(p)) : Top(Restored(p), n) \notin DOMAIN tree
<1> DEFINE have == Existing(p)
           base == Known(p)
           rest == SubSeq(p, have + 1, Len(p))
<1>1. Grown(tree) /\ p \in Seq(FileName) /\ Len(p) \in Nat
  BY DEF TreeInv, Path
<1>2. have \in 0..Len(p) /\ \A n \in 0..Len(p) : n > have => ~Lexists(Top(p, n))
  BY ExistingIs
<1>3. base \in Path /\ Canonical(base)
  <2>1. Top(p, have) \in Path
    BY <1>1, <1>2, TopIs DEF Path
  <2> QED BY <1>1, <2>1, EvalIs DEF Known
<1>4. rest \in Path /\ Len(rest) = Len(p) - have /\ (rest # <<>> => rest[1] = p[have + 1])
  <2> HIDE DEF have
  <2>1. CASE have = Len(p)
    <3>1. have + 1 \in Int /\ Len(p) \in Int /\ Len(p) < have + 1
      BY <1>1, <1>2, <2>1
    <3>2. rest = <<>>
      BY <3>1, SubSeqEmpty
    <3>3. <<>> \in Path /\ Len(<<>>) = 0 /\ Len(p) - have = 0
      BY <1>1, <2>1 DEF Path
    <3> HIDE DEF rest
    <3> QED BY <3>2, <3>3
  <2>2. CASE have < Len(p)
    BY <1>1, <1>2, <2>2 DEF Path
  <2> QED BY <1>1, <1>2, <2>1, <2>2
<1>5. ASSUME rest # <<>> PROVE Append(base, rest[1]) \notin DOMAIN tree
  <2>1. have < Len(p) /\ have + 1 \in 0..Len(p) /\ have + 1 > have
    <3>1. rest \in Path /\ rest # <<>> => Len(rest) >= 1
      <4> HIDE DEF rest
      <4> QED BY DEF Path
    <3> HIDE DEF rest, have
    <3> QED BY <1>1, <1>2, <1>4, <1>5, <3>1
  <2> DEFINE q == Top(p, have + 1)
  <2>2. q \in Path /\ Len(q) = have + 1 /\ q[have + 1] = p[have + 1]
    <3> HIDE DEF have
    <3>1. have + 1 \in 1..(have + 1)
      BY <1>2
    <3> QED BY <1>1, <2>1, <3>1, TopIs DEF Path
  <2>3. Top(q, have) = Top(p, have)
    <3> HIDE DEF have
    <3>1. have \in 0..(have + 1)
      BY <1>2
    <3> QED BY <1>1, <2>1, <3>1, TopOfTop
  <2>4. ~Lexists(q)
    BY <1>2, <2>1
  <2>5. base = EvalSymlinks(Top(p, have))
    BY DEF Known
  <2> HIDE DEF q, have, base
  <2>6. q # <<>> /\ Len(q) - 1 = have
    BY <1>2, <2>2
  <2>7. Front(q) = Top(q, have) /\ Last(q) = p[have + 1]
    <3>1. Front(q) = Top(q, Len(q) - 1) /\ Last(q) = q[Len(q)]
      BY <2>2, <2>6, FrontIs DEF Path
    <3> QED BY <2>2, <2>6, <3>1
  <2>8. Place(q) = Append(base, p[have + 1])
    BY <2>3, <2>5, <2>6, <2>7 DEF Place
  <2> HIDE DEF rest
  <2> QED BY <1>4, <1>5, <2>4, <2>8 DEF Lexists
<1>6. Restored(p) = base \o rest
  BY DEF Restored
<1> HIDE DEF have, base, rest
<1>7. /\ base \o rest \in Path /\ Len(base \o rest) = Len(base) + Len(rest)
      /\ Top(base \o rest, Len(base)) = base
      /\ \A n \in (Len(base) + 1)..Len(base \o rest) : Top(base \o rest, n) \notin DOMAIN tree
  BY <1>1, <1>3, <1>4, <1>5, BehindIs
<1> QED BY <1>2, <1>3, <1>4, <1>6, <1>7 DEF base, have

(* and a write is resolved to a path that is settled. *)
LEMMA ResolvedIsSettled ==
  ASSUME TreeInv, NEW rel \in Path, resolveForWrite(rel) # NoPath
  PROVE  Settled(resolveForWrite(rel))
<1> DEFINE full == Join(Home, rel)
           base == Known(full)
           target == Restored(full)
<1>1. EvalSymlinks(Root) = Home /\ Grown(tree)
  BY EvalRoot DEF TreeInv
<1>2. /\ resolveForWrite(rel) = target /\ base # NoPath
      /\ under(Home, base) /\ under(Home, target) /\ ~insideGitDir(Home, target)
      /\ ~Is(EvalSymlinks(target), "dir")
  BY <1>1 DEF resolveForWrite
<1>3. full \in Path
  BY JoinType, HomeIs
<1> HIDE DEF full
<1>4. /\ base \in Path /\ Canonical(base) /\ target \in Path
      /\ Len(target) >= Len(base) /\ Top(target, Len(base)) = base
      /\ \A n \in (Len(base) + 1)..Len(target) : Top(target, n) \notin DOMAIN tree
  <2>1. \A a, b \in Nat : \A n \in 0..b : a + (b - n) >= a
    OBVIOUS
  <2>2. base \in Path /\ Len(full) \in Nat /\ Existing(full) \in 0..Len(full) /\ Len(target) = Len(base) + (Len(full) - Existing(full))
    BY <1>2, <1>3, RestoredIs DEF Path
  <2>3. Len(base) \in Nat
    BY <2>2 DEF Path
  <2>4. Len(target) >= Len(base)
    BY <2>1, <2>2, <2>3
  <2> QED BY <1>2, <1>3, <2>4, RestoredIs
<1> HIDE DEF base, target
<1>5. CASE Len(target) = Len(base)
  <2>1. target = base
    <3>1. 0 \in 0..Len(target)
      BY <1>4 DEF Path
    <3> QED BY <1>4, <1>5, <3>1, TopOfTop DEF Path
  <2>2. EvalSymlinks(target) = target
    BY <1>1, <1>4, <2>1, EvalCanonical
  <2> QED BY <1>2, <1>4, <2>1, <2>2 DEF Settled, Inside
<1>6. CASE Len(target) # Len(base)
  <2>1. Len(base) >= 1 /\ Len(base) \in Nat /\ Len(target) \in Nat
    BY <1>2, <1>4, InsideIs DEF Path
  <2>2. Len(base) \in 1..(Len(target) - 1) /\ Len(base) + 1 \in (Len(base) + 1)..Len(target)
    BY <1>4, <1>6, <2>1
  <2>3. Behind(target, Len(base))
    BY <1>4, <2>2 DEF Behind
  <2> QED BY <1>2, <1>4, <2>1, <2>3 DEF Settled, Inside
<1> QED BY <1>5, <1>6

-----------------------------------------------------------------------------
(* Trees *)

(* A path begins another if it is its first names. *)
LEMMA PrefixIs ==
  ASSUME NEW p \in Path, NEW q \in Path
  PROVE  IsPrefix(p, q) <=> Len(p) <= Len(q) /\ Top(q, Len(p)) = p
<1>1. Top(p, Len(p)) = p
  <2>1. 0 \in 0..Len(p)
    BY DEF Path
  <2> QED BY <2>1, TopOfTop DEF Path
<1> QED BY <1>1 DEF IsPrefix, Top

(* A tree that gets another entry, in a directory, is a tree, *)
LEMMA GrowsBy ==
  ASSUME NEW t, Grown(t), NEW p \in Path, p # <<>>, NEW e \in Entry,
         Front(p) \in DOMAIN t, t[Front(p)] = Dir, p \in DOMAIN t => t[p] # Dir,
         NEW u, u = Entered(t, {p}, e)
  PROVE  Grown(u)
<1>1. DOMAIN u = DOMAIN t \cup {p} /\ u[p] = e /\ (\A q \in DOMAIN t : q # p => u[q] = t[q])
      /\ u = [q \in DOMAIN u |-> u[q]]
  BY DEF Entered
<1>2. u \in [DOMAIN u -> Entry] /\ DOMAIN u \subseteq Path
  BY <1>1 DEF Grown
<1>3. IsFiniteSet(DOMAIN u)
  BY <1>1, FS_AddElement DEF Grown
<1>4. ASSUME NEW q \in DOMAIN t, t[q] = Dir PROVE q \in DOMAIN u /\ u[q] = Dir
  BY <1>1, <1>4
<1>5. Len(p) \in Nat /\ Len(p) >= 1 /\ Front(p) \in Path /\ Len(Front(p)) = Len(p) - 1
      /\ Front(p) = Top(p, Len(p) - 1)
  <2>1. Len(p) \in Nat /\ Len(p) >= 1
    BY DEF Path
  <2> QED BY <2>1, FrontIs DEF Path
<1>6. ASSUME NEW q \in DOMAIN u, NEW n \in 0..(Len(q) - 1)
      PROVE  Top(q, n) \in DOMAIN t /\ t[Top(q, n)] = Dir
  <2>1. CASE q \in DOMAIN t
    BY <1>6, <2>1 DEF Grown
  <2>2. CASE q = p /\ n = Len(p) - 1
    BY <1>5, <2>2
  <2>3. CASE q = p /\ n # Len(p) - 1
    <3>1. n \in 0..(Len(Front(p)) - 1) /\ Len(p) - 1 \in 0..Len(p) /\ n \in 0..(Len(p) - 1)
      BY <1>5, <1>6, <2>3
    <3>2. Top(Front(p), n) \in DOMAIN t /\ t[Top(Front(p), n)] = Dir
      BY <3>1 DEF Grown
    <3>3. Top(Front(p), n) = Top(p, n)
      BY <1>5, <3>1, TopOfTop DEF Path
    <3> QED BY <2>3, <3>2, <3>3
  <2> QED BY <1>1, <2>1, <2>2, <2>3
<1> QED BY <1>2, <1>3, <1>4, <1>6 DEF Grown

(* and so is one without what is at and below a path. *)
LEMMA Shrinks ==
  ASSUME NEW t, Grown(t), NEW p \in Path,
         NEW u, u = [q \in {x \in DOMAIN t : ~IsPrefix(p, x)} |-> t[q]]
  PROVE  Grown(u)
<1>1. DOMAIN u = {x \in DOMAIN t : ~IsPrefix(p, x)} /\ \A q \in DOMAIN u : u[q] = t[q]
  OBVIOUS
<1>2. u \in [DOMAIN u -> Entry] /\ DOMAIN u \subseteq Path
  BY <1>1 DEF Grown
<1>3. IsFiniteSet(DOMAIN u)
  BY <1>1, FS_Subset DEF Grown
<1>4. ASSUME NEW q \in DOMAIN u, NEW n \in 0..(Len(q) - 1)
      PROVE  Top(q, n) \in DOMAIN u /\ u[Top(q, n)] = Dir
  <2>1. Top(q, n) \in DOMAIN t /\ t[Top(q, n)] = Dir
    BY <1>1, <1>4 DEF Grown
  <2>2. q \in Path /\ Len(q) \in Nat /\ n \in 0..Len(q)
    BY <1>2, <1>4 DEF Path
  <2>3. Top(q, n) \in Path /\ Len(Top(q, n)) = n
    BY <2>2, TopIs DEF Path
  <2>4. ASSUME IsPrefix(p, Top(q, n)) PROVE FALSE
    <3>1. Len(p) <= n /\ Top(Top(q, n), Len(p)) = p
      BY <2>3, <2>4, PrefixIs
    <3>2. Len(p) \in 0..n /\ Len(p) <= Len(q)
      BY <2>2, <3>1 DEF Path
    <3>3. Top(q, Len(p)) = p
      BY <2>2, <3>1, <3>2, TopOfTop DEF Path
    <3> QED BY <1>1, <1>4, <2>2, <3>2, <3>3, PrefixIs
  <2> QED BY <1>1, <2>1, <2>4
<1> QED BY <1>2, <1>3, <1>4 DEF Grown

(* A file is made where the links at its name lead, *)
LEMMA CreatedHops ==
  ASSUME Grown(tree), NEW p \in Path,
         NEW S \in SUBSET Path, p \in S,
         \A x \in S : Is(Place(x), "link") => tree[Place(x)].to \in S
  PROVE  \E q \in S :
           CreatedAt(p) = IF Is(EvalSymlinks(Front(q)), "dir") /\ ~Is(Place(q), "link") THEN Place(q) ELSE NoPath
<1> DEFINE To(x) == IF Is(Place(x), "link") THEN tree[Place(x)].to ELSE x
           step == [n \in 1..MaxLinks |-> [x \in S |-> To(x)]]
           Eq(f) == f = [n \in 0..MaxLinks |->
                          IF n = 0 THEN p
                          ELSE IF Is(Place(f[n - 1]), "link") THEN tree[Place(f[n - 1])].to ELSE f[n - 1]]
           hop == CHOOSE f : Eq(f)
<1>1. MaxLinks \in Nat \ {0}
  BY FileAssumption
<1>2. CreatedAt(p) = IF Is(EvalSymlinks(Front(hop[MaxLinks])), "dir") /\ ~Is(Place(hop[MaxLinks]), "link")
                     THEN Place(hop[MaxLinks]) ELSE NoPath
  BY DEF CreatedAt
<1>3. \A x \in S : To(x) \in S
  OBVIOUS
<1>4. step \in [1..MaxLinks -> [S -> S]]
  <2> HIDE DEF To
  <2>1. [x \in S |-> To(x)] \in [S -> S]
    BY <1>3
  <2> QED BY <2>1
<1>5. PICK f : StepsIn(f, step, p, MaxLinks, S)
  <2> HIDE DEF step
  <2> QED BY <1>1, <1>4, Iterates
<1>6. Eq(f)
  <2>1. f \in [0..MaxLinks -> S] /\ f[0] = p
    BY <1>5 DEF StepsIn, Steps
  <2>2. ASSUME NEW n \in 1..MaxLinks PROVE f[n] = To(f[n - 1])
    <3>1. n - 1 \in 0..MaxLinks
      BY <1>1
    <3>2. f[n - 1] \in S
      BY <2>1, <3>1
    <3>3. f[n] = step[n][f[n - 1]]
      BY <1>5 DEF StepsIn, Steps
    <3> HIDE DEF To
    <3> QED BY <3>2, <3>3
  <2>3. \A n \in 0..MaxLinks : n = 0 \/ n \in 1..MaxLinks
    BY <1>1
  <2> HIDE DEF step
  <2> QED BY <2>1, <2>2, <2>3
<1>7. Eq(hop)
  BY <1>6
<1> HIDE DEF hop
<1>8. hop[0] = p /\ \A n \in 1..MaxLinks : hop[n] = To(hop[n - 1])
  <2>1. \A n \in 0..MaxLinks : hop[n] = IF n = 0 THEN p ELSE To(hop[n - 1])
    BY <1>7
  <2>2. 0 \in 0..MaxLinks /\ \A n \in 1..MaxLinks : n \in 0..MaxLinks /\ n # 0
    BY <1>1
  <2> HIDE DEF Eq, To
  <2> QED BY <2>1, <2>2
<1>9. hop \in [0..MaxLinks -> S]
  <2>1. hop = [n \in 0..MaxLinks |-> hop[n]]
    BY <1>7
  <2> HIDE DEF To, Eq
  <2>2. \A n \in 1..MaxLinks : hop[n - 1] \in S => hop[n] \in S
    BY <1>3, <1>8
  <2>3. MaxLinks \in Nat /\ hop[0] \in S
    BY <1>1, <1>8
  <2> QED BY <2>1, <2>2, <2>3, Stays
<1>10. hop[MaxLinks] \in S
  <2>1. MaxLinks \in 0..MaxLinks
    BY <1>1
  <2> QED BY <1>9, <2>1
<1> QED BY <1>2, <1>10

(* in a directory, *)
LEMMA CreatedIs ==
  ASSUME TreeInv, NEW p \in Path, CreatedAt(p) # NoPath, ~Is(CreatedAt(p), "dir")
  PROVE  /\ CreatedAt(p) \in Path /\ CreatedAt(p) # <<>> /\ ~Is(CreatedAt(p), "link")
         /\ Front(CreatedAt(p)) \in DOMAIN tree /\ tree[Front(CreatedAt(p))] = Dir
<1>1. Grown(tree)
  BY DEF TreeInv
<1>2. \A x \in Path : Is(Place(x), "link") => tree[Place(x)].to \in Path
  BY <1>1, EntryIs DEF Is
<1>3. PICK q \in Path :
        CreatedAt(p) = IF Is(EvalSymlinks(Front(q)), "dir") /\ ~Is(Place(q), "link") THEN Place(q) ELSE NoPath
  BY <1>1, <1>2, CreatedHops
<1>4. CreatedAt(p) = Place(q) /\ Is(EvalSymlinks(Front(q)), "dir") /\ ~Is(Place(q), "link")
  BY <1>3
<1>5. CASE q = <<>>
  <2>1. Place(q) = <<>> /\ Top(Home, 0) = <<>>
    BY <1>5, SubSeqEmpty DEF Place, Top
  <2>2. 0 \in 0..(Len(Home) - 1)
    BY HomeIs
  <2>3. <<>> \in DOMAIN tree /\ tree[<<>>] = Dir
    BY <2>1, <2>2 DEF TreeInv, Grown
  <2> QED BY <1>4, <2>1, <2>3 DEF Is, Dir
<1>6. CASE q # <<>>
  <2> DEFINE d == EvalSymlinks(Front(q))
  <2>1. d \in DOMAIN tree /\ tree[d] = Dir /\ d \in Path
    BY <1>1, <1>4, EntryIs DEF Is
  <2>2. Place(q) = Append(d, Last(q)) /\ Last(q) \in FileName
    BY <1>6, FrontIs DEF Place, Path
  <2> HIDE DEF d
  <2>3. Append(d, Last(q)) \in Path /\ Append(d, Last(q)) # <<>> /\ Front(Append(d, Last(q))) = d
    <3> DEFINE a == Append(d, Last(q))
    <3>1. a \in Path /\ a # <<>> /\ Len(a) = Len(d) + 1 /\ Len(d) \in Nat /\ \A i \in 1..Len(d) : a[i] = d[i]
      BY <2>1, <2>2 DEF Path
    <3> HIDE DEF a
    <3>2. Front(a) \in Seq(FileName) /\ Front(a) = Top(a, Len(a) - 1)
      BY <3>1, FrontIs DEF Path
    <3>3. Len(a) - 1 = Len(d) /\ Len(d) \in 0..Len(a)
      BY <3>1
    <3>4. Len(Top(a, Len(d))) = Len(d) /\ \A i \in 1..Len(d) : Top(a, Len(d))[i] = a[i]
      BY <3>1, <3>3, TopIs DEF Path
    <3>5. Front(a) = d
      <4>1. Front(a) \in Seq(FileName) /\ d \in Seq(FileName) /\ Len(Front(a)) = Len(d)
            /\ \A i \in 1..Len(Front(a)) : Front(a)[i] = d[i]
        BY <2>1, <3>1, <3>2, <3>3, <3>4 DEF Path
      <4> QED BY <4>1, SeqEqual
    <3> QED BY <3>1, <3>5 DEF a
  <2> QED BY <1>4, <2>1, <2>2, <2>3
<1> QED BY <1>5, <1>6

(* and where it says if nothing is in the way. *)
Ready(p) ==
  /\ p \in Path /\ Inside(p)
  /\ Is(Front(p), "dir") /\ ~Is(p, "dir") /\ ~Is(p, "link")

(* A file is made where it was to be made once its directory is there. *)
LEMMA CreatedReady ==
  ASSUME Grown(tree), NEW p, Ready(p)
  PROVE  CreatedAt(p) = p
<1>1. p \in Path /\ p # <<>> /\ Front(p) \in Path
  <2>1. p \in Path /\ Len(p) >= 1
    BY InsideIs DEF Ready
  <2> QED BY <2>1, FrontType DEF Path
<1>2. Canonical(Front(p)) /\ EvalSymlinks(Front(p)) = Front(p)
  <2>1. Canonical(Front(p))
    BY CanonicalHere DEF Ready, Is
  <2> QED BY <1>1, <2>1, EvalCanonical
<1>3. Place(p) = p
  BY <1>1, <1>2, PlaceIs
<1>4. PICK q \in {p} :
        CreatedAt(p) = IF Is(EvalSymlinks(Front(q)), "dir") /\ ~Is(Place(q), "link") THEN Place(q) ELSE NoPath
  <2>1. {p} \in SUBSET Path /\ p \in {p} /\ \A x \in {p} : Is(Place(x), "link") => tree[Place(x)].to \in {p}
    BY <1>1, <1>3 DEF Ready
  <2> QED BY <1>1, <2>1, CreatedHops
<1> QED BY <1>2, <1>3, <1>4 DEF Ready

-----------------------------------------------------------------------------
(* What holds between two steps *)

(* What a preview says, and what the calls are that may be running. *)
PreviewType ==
  [says : {"refused"}]
  \cup [says : {"new"}, at : Path, makes : BOOLEAN]
  \cup [says : {"same", "diff"}, at : Path, was : Content]

CallType ==
  {Idle}
  \cup [op : {"read"}, stage : {"resolved"}, target : Path \cup {NoPath}, offset : Int, limit : Int]
  \cup [op : {"list"}, stage : {"resolved"}, target : Path \cup {NoPath}]
  \cup [op : {"write"}, stage : {"asked"}, rel : Rel, content : Content, preview : PreviewType, target : {NoPath}]
  \cup [op : {"write"}, stage : {"resolved", "made"}, rel : Rel, content : Content, preview : PreviewType,
        target : Path]

(* While nobody has changed the tree, what a call resolved is still what it   *)
(* was: a read and a list have it, a write has all but the last of it.        *)
CallInv ==
  /\ running # Idle => answer = NoAnswer
  /\ running.op \in {"read", "list"} /\ moved \subseteq {"asked"} /\ running.target # NoPath =>
       Canonical(running.target) /\ Inside(running.target)
  /\ running.op = "write" /\ moved \subseteq {"asked"} =>
       /\ running.stage = "resolved" => Settled(running.target)
       /\ running.stage = "made" => Ready(running.target)

(* The inductive invariant of confinement. *)
FilesInv == TreeInv /\ running \in CallType /\ CallInv /\ Confined

(* Front takes away what Append put there. *)
LEMMA FrontOfAppend ==
  ASSUME NEW S, NEW p \in Seq(S), NEW l \in S
  PROVE  Front(Append(p, l)) = p /\ Append(p, l) \in Seq(S) /\ Append(p, l) # <<>>
<1> DEFINE a == Append(p, l)
<1>1. a \in Seq(S) /\ a # <<>> /\ Len(a) = Len(p) + 1 /\ Len(p) \in Nat /\ \A i \in 1..Len(p) : a[i] = p[i]
  OBVIOUS
<1> HIDE DEF a
<1>2. Front(a) \in Seq(S) /\ Front(a) = Top(a, Len(a) - 1)
  BY <1>1, FrontIs
<1>3. Len(a) - 1 = Len(p) /\ Len(p) \in 0..Len(a)
  BY <1>1
<1>4. Len(Top(a, Len(p))) = Len(p) /\ \A i \in 1..Len(p) : Top(a, Len(p))[i] = a[i]
  BY <1>1, <1>3, TopIs
<1>5. Front(a) = p
  <2>1. Len(Front(a)) = Len(p) /\ \A i \in 1..Len(Front(a)) : Front(a)[i] = p[i]
    BY <1>1, <1>2, <1>3, <1>4
  <2> QED BY <1>2, <2>1, SeqEqual
<1> QED BY <1>1, <1>5 DEF a

(* A tree and one more entry that was not there. *)
Fits(p, e, t) ==
  /\ Grown(t) /\ p \in Path /\ p # <<>> /\ p \notin DOMAIN t /\ e \in Entry
  /\ Front(p) \in DOMAIN t /\ t[Front(p)] = Dir

(* A path that is new leaves the others of a tree as they were. *)
LEMMA EntersNew ==
  ASSUME NEW t, NEW p, NEW e, Fits(p, e, t), NEW u, u = Entered(t, {p}, e)
  PROVE  /\ Grown(u) /\ DOMAIN u = DOMAIN t \cup {p}
         /\ u[p] = e
<1>1. DOMAIN u = DOMAIN t \cup {p} /\ u[p] = e
  BY DEF Entered, Fits
<1>2. Grown(u)
  BY GrowsBy DEF Fits
<1> QED BY <1>1, <1>2

(* The first tree is one, whether .git is a directory or a file. *)
LEMMA FilesInit == FileInit => FilesInv
<1> SUFFICES ASSUME FileInit PROVE FilesInv
  OBVIOUS
<1> DEFINE O == <<"out">> OB == <<"out", "b">> G == Append(Home, ".git") GB == Append(G, "b")
<1>1. PICK git \in {Dir, Plain(CHOOSE c \in Content : TRUE)}, c \in Content :
        tree = [p \in {Root, G} \cup {<<>>, Home, O} \cup ({OB} \cup IF git = Dir THEN {GB} ELSE {}) |->
                     IF p = Root THEN Link(Home)
                     ELSE IF p = G THEN git
                     ELSE IF p \in {<<>>, Home, O} THEN Dir ELSE Plain(c)]
  BY DEF FileInit
<1> DEFINE t0 == [q \in {<<>>} |-> Dir]
           t1 == Entered(t0, {Root}, Link(Home))
           t2 == Entered(t1, {Home}, Dir)
           t3 == Entered(t2, {O}, Dir)
           t4 == Entered(t3, {OB}, Plain(c))
           t5 == Entered(t4, {G}, git)
           t6 == Entered(t5, {GB}, Plain(c))
<1>2. OB = Append(O, "b") /\ Home = Append(<<>>, "work") /\ Root = Append(<<>>, "cwd") /\ O = Append(<<>>, "out")
  BY DEF Home, Root
<1>3. {Root, Home, O, OB, G, GB} \subseteq Path
      /\ Front(Root) = <<>> /\ Front(Home) = <<>> /\ Front(O) = <<>>
      /\ Front(OB) = O /\ Front(G) = Home /\ Front(GB) = G
  <2>1. {"cwd", "work", "out", "b", ".git"} \subseteq FileName /\ <<>> \in Seq(FileName)
    BY FileAssumption
  <2> HIDE DEF O, OB
  <2>2. Home \in Path /\ Root \in Path /\ O \in Path
        /\ Front(Root) = <<>> /\ Front(Home) = <<>> /\ Front(O) = <<>>
    BY <1>2, <2>1, FrontOfAppend DEF Path
  <2>3. OB \in Path /\ Front(OB) = O /\ G \in Path /\ Front(G) = Home
    BY <1>2, <2>1, <2>2, FrontOfAppend DEF Path
  <2> HIDE DEF G
  <2>4. GB \in Path /\ Front(GB) = G
    BY <2>1, <2>3, FrontOfAppend DEF Path
  <2> QED BY <2>2, <2>3, <2>4
<1>4. /\ <<>> \notin {Root, Home, O, OB, G, GB} /\ Root \notin {Home, O, OB, G, GB}
      /\ Home \notin {O, OB, G, GB} /\ O \notin {OB, G, GB} /\ OB \notin {G, GB} /\ G # GB
  <2>1. /\ Root[1] = "cwd" /\ Home[1] = "work" /\ O[1] = "out" /\ OB[1] = "out" /\ G[1] = "work" /\ GB[1] = "work"
        /\ Len(Root) = 1 /\ Len(Home) = 1 /\ Len(O) = 1 /\ Len(OB) = 2 /\ Len(G) = 2 /\ Len(GB) = 3
    <3>1. Len(Home) = 1 /\ Home[1] = "work" /\ Len(Root) = 1 /\ Root[1] = "cwd"
      BY DEF Home, Root
    <3>2. Len(G) = 2 /\ G[1] = "work" /\ G \in Path
      BY <1>3, <3>1 DEF Path
    <3> HIDE DEF G
    <3>3. Len(GB) = 3 /\ GB[1] = "work"
      <4>1. "b" \in FileName /\ 1 \in 1..Len(G)
        BY <3>2, FileAssumption
      <4>2. ASSUME NEW S, NEW x \in Seq(S), NEW l \in S, Len(x) = 2
            PROVE  Len(Append(x, l)) = 3 /\ Append(x, l)[1] = x[1]
        <5>1. Len(x) \in Nat /\ 1 \in 1..Len(x)
          BY <4>2
        <5>2. Len(Append(x, l)) = Len(x) + 1 /\ \A i \in 1..Len(x) : Append(x, l)[i] = x[i]
          BY AppendProperties
        <5> QED BY <4>2, <5>1, <5>2
      <4> QED BY <3>2, <4>1, <4>2 DEF Path
    <3> QED BY <3>1, <3>2, <3>3
  <2>2. Len(<<>>) = 0
    OBVIOUS
  <2> HIDE DEF G, GB, O, OB
  <2>3. <<>> # Root /\ <<>> # Home /\ <<>> # O /\ <<>> # OB /\ <<>> # G /\ <<>> # GB
    BY <2>1, <2>2
  <2>4. Root # Home /\ Root # O /\ Root # OB /\ Root # G /\ Root # GB
    BY <2>1
  <2>5. Home # O /\ Home # OB /\ Home # G /\ Home # GB /\ O # OB /\ O # G /\ O # GB
    BY <2>1
  <2>6. OB # G /\ OB # GB /\ G # GB
    BY <2>1
  <2> QED BY <2>3, <2>4, <2>5, <2>6
<1>5. Dir \in Entry /\ Link(Home) \in Entry /\ Plain(c) \in Entry /\ git \in Entry
      /\ Link(Home) # Dir
  <2>1. Dir # Link(Home)
    BY DEF Dir, Link
  <2> QED BY <2>1 DEF Entry
<1> HIDE DEF G, GB, O, OB
<1>6. Grown(t0) /\ DOMAIN t0 = {<<>>} /\ t0[<<>>] = Dir
  <2>1. t0 \in [{<<>>} -> Entry] /\ DOMAIN t0 = {<<>>} /\ t0[<<>>] = Dir
    BY <1>5
  <2>2. IsFiniteSet({<<>>}) /\ <<>> \in Path /\ Len(<<>>) = 0
    BY FS_Singleton DEF Path
  <2>3. 0..(0 - 1) = {}
    OBVIOUS
  <2> HIDE DEF t0
  <2> QED BY <2>1, <2>2, <2>3 DEF Grown
<1> HIDE DEF t0
<1>8. /\ Grown(t1) /\ DOMAIN t1 = {<<>>, Root} /\ t1[<<>>] = Dir /\ t1[Root] = Link(Home)
  <2>1. Grown(t0) /\ Root \in Path /\ Root # <<>> /\ Root \notin DOMAIN t0 /\ Link(Home) \in Entry
    BY <1>3, <1>4, <1>5, <1>6
  <2>2. Front(Root) \in DOMAIN t0 /\ t0[Front(Root)] = Dir
    BY <1>3, <1>6
  <2>5. Fits(Root, Link(Home), t0)
    BY <2>1, <2>2 DEF Fits
  <2>3. t1 = Entered(t0, {Root}, Link(Home))
    OBVIOUS
  <2> HIDE DEF t1
  <2>4. Grown(t1)
    BY <2>5, <2>3, EntersNew
  <2>6. DOMAIN t1 = DOMAIN t0 \cup {Root} /\ t1[Root] = Link(Home) /\ \A q \in DOMAIN t0 : t1[q] = t0[q]
    BY <2>1, <2>3 DEF Entered
  <2> QED BY <1>6, <2>4, <2>6
<1> HIDE DEF t1
<1>9. /\ Grown(t2) /\ DOMAIN t2 = {<<>>, Root, Home} /\ t2[<<>>] = Dir /\ t2[Root] = Link(Home) /\ t2[Home] = Dir
  <2>1. Grown(t1) /\ Home \in Path /\ Home # <<>> /\ Home \notin DOMAIN t1 /\ Dir \in Entry
    BY <1>3, <1>4, <1>5, <1>8
  <2>2. Front(Home) \in DOMAIN t1 /\ t1[Front(Home)] = Dir
    BY <1>3, <1>8
  <2>5. Fits(Home, Dir, t1)
    BY <2>1, <2>2 DEF Fits
  <2>3. t2 = Entered(t1, {Home}, Dir)
    OBVIOUS
  <2> HIDE DEF t2
  <2>4. Grown(t2)
    BY <2>5, <2>3, EntersNew
  <2>6. DOMAIN t2 = DOMAIN t1 \cup {Home} /\ t2[Home] = Dir /\ \A q \in DOMAIN t1 : t2[q] = t1[q]
    BY <2>1, <2>3 DEF Entered
  <2> QED BY <1>8, <2>4, <2>6
<1> HIDE DEF t2
<1>10. /\ Grown(t3) /\ DOMAIN t3 = {<<>>, Root, Home, O}
       /\ t3[<<>>] = Dir /\ t3[Root] = Link(Home) /\ t3[Home] = Dir /\ t3[O] = Dir
  <2>1. Grown(t2) /\ O \in Path /\ O # <<>> /\ O \notin DOMAIN t2 /\ Dir \in Entry
    BY <1>3, <1>4, <1>5, <1>9
  <2>2. Front(O) \in DOMAIN t2 /\ t2[Front(O)] = Dir
    BY <1>3, <1>9
  <2>5. Fits(O, Dir, t2)
    BY <2>1, <2>2 DEF Fits
  <2>3. t3 = Entered(t2, {O}, Dir)
    OBVIOUS
  <2> HIDE DEF t3
  <2>4. Grown(t3)
    BY <2>5, <2>3, EntersNew
  <2>6. DOMAIN t3 = DOMAIN t2 \cup {O} /\ t3[O] = Dir /\ \A q \in DOMAIN t2 : t3[q] = t2[q]
    BY <2>1, <2>3 DEF Entered
  <2> QED BY <1>9, <2>4, <2>6
<1> HIDE DEF t3
<1>11. /\ Grown(t4) /\ DOMAIN t4 = {<<>>, Root, Home, O, OB}
       /\ t4[<<>>] = Dir /\ t4[Root] = Link(Home) /\ t4[Home] = Dir /\ t4[O] = Dir /\ t4[OB] = Plain(c)
  <2>1. Grown(t3) /\ OB \in Path /\ OB # <<>> /\ OB \notin DOMAIN t3 /\ Plain(c) \in Entry
    BY <1>3, <1>4, <1>5, <1>10
  <2>2. Front(OB) \in DOMAIN t3 /\ t3[Front(OB)] = Dir
    BY <1>3, <1>10
  <2>5. Fits(OB, Plain(c), t3)
    BY <2>1, <2>2 DEF Fits
  <2>3. t4 = Entered(t3, {OB}, Plain(c))
    OBVIOUS
  <2> HIDE DEF t4
  <2>4. Grown(t4)
    BY <2>5, <2>3, EntersNew
  <2>6. DOMAIN t4 = DOMAIN t3 \cup {OB} /\ t4[OB] = Plain(c) /\ \A q \in DOMAIN t3 : t4[q] = t3[q]
    BY <2>1, <2>3 DEF Entered
  <2> QED BY <1>10, <2>4, <2>6
<1> HIDE DEF t4
<1>12. /\ Grown(t5) /\ DOMAIN t5 = {<<>>, Root, Home, O, OB, G}
       /\ t5[<<>>] = Dir /\ t5[Root] = Link(Home) /\ t5[Home] = Dir /\ t5[O] = Dir /\ t5[OB] = Plain(c) /\ t5[G] = git
  <2>1. Grown(t4) /\ G \in Path /\ G # <<>> /\ G \notin DOMAIN t4 /\ git \in Entry
    BY <1>3, <1>4, <1>5, <1>11
  <2>2. Front(G) \in DOMAIN t4 /\ t4[Front(G)] = Dir
    BY <1>3, <1>11
  <2>5. Fits(G, git, t4)
    BY <2>1, <2>2 DEF Fits
  <2>3. t5 = Entered(t4, {G}, git)
    OBVIOUS
  <2> HIDE DEF t5
  <2>4. Grown(t5)
    BY <2>5, <2>3, EntersNew
  <2>6. DOMAIN t5 = DOMAIN t4 \cup {G} /\ t5[G] = git /\ \A q \in DOMAIN t4 : t5[q] = t4[q]
    BY <2>1, <2>3 DEF Entered
  <2> QED BY <1>11, <2>4, <2>6
<1> HIDE DEF t5
<1>13. Grown(tree) /\ {Root, Home} \subseteq DOMAIN tree /\ tree[Root] = Link(Home) /\ tree[Home] = Dir
  <2>1. CASE git = Dir
    <3>1. /\ Grown(t6) /\ DOMAIN t6 = {<<>>, Root, Home, O, OB, G, GB} /\ t6[GB] = Plain(c)
          /\ t6[<<>>] = Dir /\ t6[Root] = Link(Home) /\ t6[Home] = Dir /\ t6[O] = Dir /\ t6[OB] = Plain(c) /\ t6[G] = git
      <4>1. Grown(t5) /\ GB \in Path /\ GB # <<>> /\ GB \notin DOMAIN t5 /\ Plain(c) \in Entry
        BY <1>3, <1>4, <1>5, <1>12
      <4>2. Front(GB) \in DOMAIN t5 /\ t5[Front(GB)] = Dir
        BY <1>3, <1>12, <2>1
      <4>5. Fits(GB, Plain(c), t5)
        BY <4>1, <4>2 DEF Fits
      <4>3. t6 = Entered(t5, {GB}, Plain(c))
        OBVIOUS
      <4> HIDE DEF t6
      <4>4. Grown(t6)
        BY <4>5, <4>3, EntersNew
      <4>6. DOMAIN t6 = DOMAIN t5 \cup {GB} /\ t6[GB] = Plain(c) /\ \A q \in DOMAIN t5 : t6[q] = t5[q]
        BY <4>1, <4>3 DEF Entered
      <4> QED BY <1>12, <4>4, <4>6
    <3>2. t6 = [q \in DOMAIN t6 |-> t6[q]]
      BY DEF Entered
    <3> HIDE DEF t6
    <3>3. tree = t6
      <4>1. DOMAIN tree = DOMAIN t6
        BY <1>1, <2>1, <3>1
      <4>2. \A q \in DOMAIN t6 : tree[q] = t6[q]
        BY <1>1, <1>4, <2>1, <3>1
      <4>3. tree = [q \in DOMAIN tree |-> tree[q]]
        BY <1>1
      <4> QED BY <3>2, <4>1, <4>2, <4>3
    <3> QED BY <3>1, <3>3
  <2>2. CASE git # Dir
    <3>1. DOMAIN tree = DOMAIN t5
      BY <1>1, <1>12, <2>2
    <3>2. \A q \in DOMAIN t5 : tree[q] = t5[q]
      BY <1>1, <1>4, <1>12, <2>2
    <3>3. tree = [q \in DOMAIN tree |-> tree[q]] /\ t5 = [q \in DOMAIN t5 |-> t5[q]]
      BY <1>1, <1>12 DEF Grown
    <3>4. tree = t5
      BY <3>1, <3>2, <3>3
    <3> QED BY <1>12, <3>4
  <2> QED BY <2>1, <2>2
<1>14. TreeInv
  BY <1>13 DEF TreeInv
<1>15. running = Idle /\ touched = {} /\ answer = NoAnswer
  BY DEF FileInit
<1>16. running \in CallType /\ CallInv /\ Confined
  BY <1>15 DEF CallType, CallInv, Confined, Idle, NoAnswer
<1> QED BY <1>14, <1>16 DEF FilesInv

-----------------------------------------------------------------------------
(* Reads *)

(* What resolveUnder lets through is there, and inside. *)
LEMMA UnderIs ==
  ASSUME TreeInv, NEW rel \in Path
  PROVE  /\ resolveUnder(rel) \in Path \cup {NoPath}
         /\ resolveUnder(rel) # NoPath =>
              resolveUnder(rel) \in Path /\ Canonical(resolveUnder(rel)) /\ Inside(resolveUnder(rel))
<1> DEFINE p == EvalSymlinks(Join(Home, rel))
<1>1. EvalSymlinks(Root) = Home /\ Grown(tree)
  BY EvalRoot DEF TreeInv
<1>2. resolveUnder(rel) = IF p # NoPath /\ under(Home, p) /\ ~insideGitDir(Home, p) THEN p ELSE NoPath
  BY <1>1 DEF resolveUnder
<1>3. Join(Home, rel) \in Path
  BY JoinType, HomeIs
<1>4. p \in Path \cup {NoPath} /\ (p # NoPath => p \in Path /\ Canonical(p))
  BY <1>1, <1>3, EvalIs
<1> QED BY <1>2, <1>4 DEF Inside

(* Resolving it again changes nothing, and does not make anything of nothing. *)
LEMMA AgainIs ==
  ASSUME Grown(tree)
  PROVE  /\ \A p \in Path : Canonical(p) => EvalSymlinks(p) = p
         /\ EvalSymlinks(NoPath) \notin DOMAIN tree
<1>1. Len(NoPath) = 1 /\ Top(NoPath, 1) = NoPath
  <2>1. Len(NoPath) = 1
    BY DEF NoPath
  <2> QED BY <2>1, Nowhere, SubSeqFull DEF Top
<1>2. NoPath \notin DOMAIN tree
  BY Nowhere DEF Grown
<1>3. Stops(NoPath) = {1} /\ Min({1}) = 1
  BY <1>1, <1>2, MinIsLeast DEF Stops
<1>4. Follow(NoPath) = NoPath /\ ~Canonical(NoPath)
  BY <1>1, <1>2, <1>3 DEF Follow, Canonical
<1>5. EvalSymlinks(NoPath) = NoPath
  BY <1>4, EvalAtOnce
<1> QED BY <1>2, <1>5, EvalCanonical

(* A walk that begins inside stays inside, but for a .git that is a file. *)
LEMMA WalkIs ==
  ASSUME TreeInv, NEW start \in Path, Inside(start),
         NEW p \in Visited(start), tree[p].type # "link"
  PROVE  EvalSymlinks(p) = p /\ under(Home, p) /\ ~insideGitDir(Home, Front(p))
<1>1. /\ Grown(tree) /\ p \in DOMAIN tree /\ p \in Path /\ tree[p].type # "dir"
      /\ IsPrefix(start, p) /\ \A n \in (Len(start) + 1)..(Len(p) - 1) : p[n] # ".git"
  BY DEF Visited, TreeInv, Grown
<1>2. EvalSymlinks(p) = p
  BY <1>1, CanonicalHere, EvalCanonical
<1>3. Len(start) >= 1 /\ start[1] = "work" /\ \A i \in 2..Len(start) : start[i] # ".git"
  BY InsideIs
<1>4. Len(start) <= Len(p) /\ Top(p, Len(start)) = start /\ Len(start) \in Nat /\ Len(p) \in Nat
  BY <1>1, PrefixIs DEF Path
<1>5. \A i \in 1..Len(start) : p[i] = start[i]
  <2>1. Len(start) \in 0..Len(p)
    BY <1>4
  <2>2. \A i \in 1..Len(start) : Top(p, Len(start))[i] = p[i]
    BY <1>1, <2>1, TopIs DEF Path
  <2> QED BY <1>4, <2>2
<1>6. Len(p) >= 1 /\ p[1] = "work" /\ under(Home, p) /\ p # <<>>
  <2>1. 1 \in 1..Len(start) /\ Len(p) >= 1
    BY <1>3, <1>4
  <2>2. p[1] = "work" /\ p # <<>>
    BY <1>1, <1>3, <1>5, <2>1 DEF Path
  <2> QED BY <1>1, <2>1, <2>2, InsideIs
<1>7. \A i \in 2..(Len(p) - 1) : p[i] # ".git"
  <2> TAKE i \in 2..(Len(p) - 1)
  <2>1. CASE i <= Len(start)
    <3>1. i \in 1..Len(start) /\ i \in 2..Len(start)
      BY <1>4, <2>1
    <3> QED BY <1>3, <1>5, <3>1
  <2>2. CASE i > Len(start)
    <3>1. i \in (Len(start) + 1)..(Len(p) - 1)
      BY <1>4, <2>2
    <3> QED BY <1>1, <3>1
  <2> QED BY <1>4, <2>1, <2>2
<1> DEFINE f == Front(p)
<1>8. f \in Path /\ Len(f) = Len(p) - 1 /\ \A i \in 1..Len(f) : f[i] = p[i]
  <2>1. f \in Path /\ Len(f) = Len(p) - 1 /\ f = Top(p, Len(p) - 1) /\ Len(p) - 1 \in 0..Len(p)
    BY <1>1, <1>4, <1>6, FrontIs DEF Path
  <2>2. \A i \in 1..(Len(p) - 1) : Top(p, Len(p) - 1)[i] = p[i]
    BY <1>1, <2>1, TopIs DEF Path
  <2> HIDE DEF f
  <2> QED BY <2>1, <2>2
<1> HIDE DEF f
<1>9. ~insideGitDir(Home, f)
  <2>1. CASE Len(f) >= 1
    <3>1. 1 \in 1..Len(f) /\ f[1] = "work"
      BY <1>4, <1>6, <1>8, <2>1
    <3>2. under(Home, f)
      BY <1>8, <2>1, <3>1, InsideIs
    <3>3. \A i \in 2..Len(f) : f[i] # ".git"
      <4> TAKE i \in 2..Len(f)
      <4>1. i \in 1..Len(f) /\ i \in 2..(Len(p) - 1)
        BY <1>4, <1>8
      <4> QED BY <1>7, <1>8, <4>1
    <3> QED BY <1>8, <3>2, <3>3, InsideIs
  <2>2. CASE Len(f) < 1
    <3>1. SubSeq(f, Len(Home) + 1, Len(f)) = <<>>
      <4>1. Len(Home) + 1 \in Int /\ Len(f) \in Int /\ Len(f) < Len(Home) + 1
        BY <1>4, <1>8, <2>2, HomeIs
      <4> QED BY <4>1, SubSeqEmpty
    <3>2. ToSet(<<>>) = {}
      BY DEF ToSet
    <3> QED BY <3>1, <3>2 DEF insideGitDir
  <2> QED BY <1>4, <1>8, <2>1, <2>2
<1> QED BY <1>2, <1>6, <1>9 DEF f

-----------------------------------------------------------------------------
(* The steps of a write *)

(* What is shown of a write is one of three things. *)
LEMMA PreviewHasType ==
  ASSUME TreeInv, NEW rel \in Path, NEW c \in Content
  PROVE  writePreview(rel, c) \in PreviewType
<1> DEFINE target == resolveForWrite(rel)
           real == EvalSymlinks(target)
<1>1. target # NoPath => target \in Path
  BY ResolvedIsSettled DEF Settled
<1>2. ASSUME Is(real, "file") PROVE tree[real].content \in Content
  BY <1>2, EntryIs DEF Is, TreeInv
<1> HIDE DEF target, real
<1>3. CASE target = NoPath
  <2>1. writePreview(rel, c) = [says |-> "refused"]
    BY <1>3 DEF writePreview, target
  <2> QED BY <2>1 DEF PreviewType
<1>4. CASE target # NoPath /\ Is(real, "file")
  <2>1. writePreview(rel, c) = [says |-> IF tree[real].content = c THEN "same" ELSE "diff", at |-> target,
                                was |-> tree[real].content]
    BY <1>4 DEF writePreview, target, real
  <2> QED BY <1>1, <1>2, <1>4, <2>1 DEF PreviewType
<1>5. CASE target # NoPath /\ ~Is(real, "file")
  <2>1. writePreview(rel, c) = [says |-> "new", at |-> target,
                                makes |-> Len(rel) > 1 /\ ~Is(EvalSymlinks(Front(target)), "dir")]
    BY <1>5 DEF writePreview, target, real
  <2> QED BY <1>1, <1>5, <2>1 DEF PreviewType
<1> QED BY <1>3, <1>4, <1>5

(* The directories that are made were missing, and what was there stays. *)
LEMMA MakesDirs ==
  ASSUME TreeInv, NEW d \in Path, Is(Known(d), "dir"),
         NEW u, u = Entered(tree, Missing(d), Dir)
  PROVE  /\ Grown(u) /\ DOMAIN u = DOMAIN tree \cup Missing(d) /\ Missing(d) \cap DOMAIN tree = {}
         /\ \A q \in DOMAIN tree : u[q] = tree[q]
         /\ \A q \in Missing(d) : u[q] = Dir
<1> DEFINE b == Known(d) w == Restored(d) M == Missing(d)
<1>1. Grown(tree) /\ b \in DOMAIN tree /\ tree[b] = Dir /\ b # NoPath
  <2>1. Grown(tree) /\ b \in DOMAIN tree
    BY DEF TreeInv, Is
  <2>2. tree[b] = Dir
    BY <2>1, EntryIs DEF Is
  <2>3. b # NoPath
    BY <2>1, Nowhere DEF Grown
  <2> QED BY <2>1, <2>2, <2>3
<1>2. /\ b \in Path /\ w \in Path /\ Top(w, Len(b)) = b /\ Len(b) <= Len(w) /\ Len(b) \in Nat /\ Len(w) \in Nat
      /\ \A n \in (Len(b) + 1)..Len(w) : Top(w, n) \notin DOMAIN tree
  <2> HIDE DEF b, w
  <2>1. /\ b \in Path /\ w \in Path /\ Top(w, Len(b)) = b /\ Len(w) = Len(b) + (Len(d) - Existing(d))
        /\ Existing(d) \in 0..Len(d) /\ Len(d) \in Nat
        /\ \A n \in (Len(b) + 1)..Len(w) : Top(w, n) \notin DOMAIN tree
    BY <1>1, RestoredIs DEF b, w, Path
  <2>2. Len(b) \in Nat /\ Len(w) \in Nat
    BY <2>1 DEF Path
  <2>3. Len(b) <= Len(w)
    BY <2>1, <2>2
  <2> QED BY <2>1, <2>2, <2>3
<1>3. M = {Top(w, n) : n \in (Len(b) + 1)..Len(w)}
  BY DEF Missing
<1> HIDE DEF b, w, M
<1>4. M \cap DOMAIN tree = {} /\ M \subseteq Path
  <2>1. \A n \in (Len(b) + 1)..Len(w) : Top(w, n) \in Path
    <3> TAKE n \in (Len(b) + 1)..Len(w)
    <3>1. n \in 0..Len(w)
      BY <1>2
    <3> QED BY <1>2, <3>1, TopIs DEF Path
  <2> QED BY <1>2, <1>3, <2>1
<1>5. DOMAIN u = DOMAIN tree \cup M /\ (\A q \in M : u[q] = Dir) /\ u = [q \in DOMAIN u |-> u[q]]
      /\ \A q \in DOMAIN tree : u[q] = tree[q]
  BY <1>4 DEF Entered, M
<1>6. u \in [DOMAIN u -> Entry] /\ DOMAIN u \subseteq Path
  <2>1. \A q \in DOMAIN u : u[q] \in Entry
    <3>1. Dir \in Entry /\ \A q \in DOMAIN tree : tree[q] \in Entry
      BY <1>1 DEF Entry, Grown
    <3> QED BY <1>5, <3>1
  <2>2. DOMAIN u \subseteq Path
    BY <1>1, <1>4, <1>5 DEF Grown
  <2> QED BY <1>5, <2>1, <2>2
<1>7. IsFiniteSet(DOMAIN u)
  <2>1. IsFiniteSet(M)
    <3>1. IsFiniteSet((Len(b) + 1)..Len(w))
      BY <1>2, FS_Interval
    <3>2. DEFINE f == [n \in (Len(b) + 1)..Len(w) |-> Top(w, n)]
    <3>3. f \in Surjection((Len(b) + 1)..Len(w), M)
      BY <1>3 DEF Surjection
    <3> HIDE DEF f
    <3> QED BY <3>1, <3>3, FS_Surjection
  <2>2. IsFiniteSet(DOMAIN tree)
    BY <1>1 DEF Grown
  <2>3. IsFiniteSet(DOMAIN tree \cup M)
    BY <2>1, <2>2, FS_Union
  <2> QED BY <1>5, <2>3
<1>8. ASSUME NEW q \in DOMAIN u, NEW n \in 0..(Len(q) - 1)
      PROVE  Top(q, n) \in DOMAIN u /\ u[Top(q, n)] = Dir
  <2>1. CASE q \in DOMAIN tree
    BY <1>1, <1>5, <1>8, <2>1 DEF Grown
  <2>2. CASE q \in M
    <3>1. PICK m \in (Len(b) + 1)..Len(w) : q = Top(w, m)
      BY <1>3, <2>2
    <3>2. m \in 0..Len(w) /\ Len(q) = m
      <4>1. m \in 0..Len(w)
        BY <1>2
      <4> QED BY <1>2, <3>1, <4>1, TopIs DEF Path
    <3>3. n \in 0..m /\ n < m
      BY <1>2, <1>8, <3>2
    <3>4. Top(q, n) = Top(w, n)
      BY <1>2, <3>1, <3>2, <3>3, TopOfTop DEF Path
    <3>5. CASE n > Len(b)
      <4>1. n \in (Len(b) + 1)..Len(w)
        BY <1>2, <3>2, <3>3, <3>5
      <4>2. Top(w, n) \in M
        BY <1>3, <4>1
      <4> QED BY <1>5, <3>4, <4>2
    <3>6. CASE n = Len(b)
      BY <1>1, <1>2, <1>5, <3>4, <3>6
    <3>7. CASE n < Len(b)
      <4>1. n \in 0..Len(b) /\ n \in 0..(Len(b) - 1) /\ Len(b) \in 0..Len(w)
        BY <1>2, <3>3, <3>7
      <4>2. Top(b, n) = Top(w, n)
        BY <1>2, <4>1, TopOfTop DEF Path
      <4>3. Top(b, n) \in DOMAIN tree /\ tree[Top(b, n)] = Dir
        BY <1>1, <4>1 DEF Grown
      <4> QED BY <1>5, <3>4, <4>2, <4>3
    <3> QED BY <1>2, <3>3, <3>5, <3>6, <3>7
  <2> QED BY <1>5, <2>1, <2>2
<1> QED BY <1>4, <1>5, <1>6, <1>7, <1>8 DEF Grown, M

(* A path that is there up to a point is known up to it. *)
LEMMA KnownIs ==
  ASSUME TreeInv, NEW d \in Path, NEW k \in 1..Len(d), Canonical(Top(d, k)),
         k < Len(d) => Top(d, k + 1) \notin DOMAIN tree
  PROVE  Existing(d) = k /\ Known(d) = Top(d, k) /\ Restored(d) = d
<1>1. Grown(tree) /\ Len(d) \in Nat /\ d \in Seq(FileName)
  BY DEF TreeInv, Path
<1>2. \A n \in 1..Len(d) : /\ Top(d, n) \in Path /\ Len(Top(d, n)) = n /\ Top(d, n) # <<>>
                           /\ Front(Top(d, n)) = Top(d, n - 1)
  <2> TAKE n \in 1..Len(d)
  <2>1. n \in 0..Len(d) /\ n - 1 \in 0..n
    BY <1>1
  <2> DEFINE q == Top(d, n)
  <2>2. q \in Path /\ Len(q) = n
    BY <1>1, <2>1, TopIs DEF Path
  <2>3. Top(q, n - 1) = Top(d, n - 1)
    BY <1>1, <2>1, TopOfTop
  <2> HIDE DEF q
  <2>4. q # <<>>
    BY <1>1, <2>2
  <2>5. Front(q) = Top(q, Len(q) - 1)
    BY <2>2, <2>4, FrontIs DEF Path
  <2> QED BY <2>2, <2>3, <2>4, <2>5 DEF q
<1>3. Lexists(Top(d, k))
  <2>1. Canonical(Front(Top(d, k)))
    <3>1. k - 1 \in 0..Len(Top(d, k)) /\ k - 1 \in 0..k /\ k \in 0..Len(d)
      BY <1>1, <1>2
    <3>2. Canonical(Top(Top(d, k), k - 1))
      BY <1>2, <3>1, CanonicalTop
    <3>3. Top(Top(d, k), k - 1) = Top(d, k - 1)
      BY <1>1, <3>1, TopOfTop
    <3> QED BY <1>2, <3>2, <3>3
  <2>2. Place(Top(d, k)) = Top(d, k)
    BY <1>1, <1>2, <2>1, PlaceIs
  <2>3. Top(d, k) \in DOMAIN tree
    <3>1. k \in 1..Len(Top(d, k)) /\ k \in 0..Len(d) /\ k \in 0..k
      BY <1>1, <1>2
    <3>2. Top(Top(d, k), k) = Top(d, k)
      BY <1>1, <3>1, TopOfTop
    <3>3. Top(Top(d, k), k) \in DOMAIN tree
      BY <1>2, <3>1, HereIfCanonical
    <3> QED BY <3>2, <3>3
  <2> QED BY <2>2, <2>3 DEF Lexists
<1>4. ASSUME NEW n \in 1..Len(d), n > k PROVE ~Lexists(Top(d, n))
  <2>1. k < Len(d) /\ Top(d, k + 1) \notin DOMAIN tree
    BY <1>1, <1>4
  <2>2. CASE n = k + 1
    <3>1. Front(Top(d, n)) = Top(d, k)
      BY <1>1, <1>2, <2>2
    <3>2. Place(Top(d, n)) = Top(d, n)
      BY <1>1, <1>2, <3>1, PlaceIs
    <3> QED BY <2>1, <2>2, <3>2 DEF Lexists
  <2>3. CASE n # k + 1
    <3> DEFINE f == Top(d, n - 1)
    <3>1. n - 1 \in 1..Len(d) /\ n - 1 \in 0..Len(d) /\ k + 1 \in 1..(n - 1) /\ k + 1 \in 0..(n - 1) /\ k \in 0..(n - 1)
          /\ k + 1 - 1 = k
      BY <1>1, <1>4, <2>3
    <3>2. f \in Path /\ Len(f) = n - 1 /\ Front(Top(d, n)) = f
      BY <1>2, <3>1
    <3>3. Top(f, k) = Top(d, k) /\ Top(f, k + 1) = Top(d, k + 1)
      BY <1>1, <3>1, TopOfTop
    <3> HIDE DEF f
    <3>4. EvalSymlinks(f) = NoPath
      <4>1. k + 1 \in 1..Len(f) /\ Canonical(Top(f, k + 1 - 1)) /\ Top(f, k + 1) \notin DOMAIN tree
        BY <2>1, <3>1, <3>2, <3>3
      <4> QED BY <1>1, <3>2, <4>1, EvalMissing
    <3>5. Place(Top(d, n)) \in DOMAIN tree => FALSE
      BY <1>1, <1>2, <3>2, <3>4, PlaceIs
    <3> QED BY <3>5 DEF Lexists
  <2> QED BY <2>2, <2>3
<1>5. Existing(d) = k
  <2>1. Existing(d) \in 0..Len(d) /\ Lexists(Top(d, Existing(d)))
        /\ \A n \in 0..Len(d) : n > Existing(d) => ~Lexists(Top(d, n))
    BY ExistingIs
  <2>2. k \in 0..Len(d)
    BY <1>1
  <2>3. ~(k > Existing(d))
    BY <1>3, <2>1, <2>2
  <2>4. ~(Existing(d) > k)
    <3>1. SUFFICES ASSUME Existing(d) > k PROVE FALSE
      OBVIOUS
    <3>2. Existing(d) \in 1..Len(d)
      BY <1>1, <2>1, <3>1
    <3> QED BY <1>4, <2>1, <3>1, <3>2
  <2> QED BY <1>1, <2>1, <2>2, <2>3, <2>4
<1>6. Known(d) = Top(d, k)
  BY <1>1, <1>2, <1>5, EvalCanonical DEF Known
<1>7. Restored(d) = d
  <2>1. 1 \in 1..(Len(d) + 1) /\ k \in 1-1..Len(d) /\ Len(d) \in k..Len(d)
    BY <1>1
  <2>2. SubSeq(d, 1, k) \o SubSeq(d, k + 1, Len(d)) = SubSeq(d, 1, Len(d))
    BY <1>1, <2>1, ConcatAdjacentSubSeq
  <2>3. SubSeq(d, 1, Len(d)) = d
    BY <1>1, SubSeqFull
  <2> QED BY <1>5, <1>6, <2>2, <2>3 DEF Restored, Top
<1> QED BY <1>5, <1>6, <1>7

(* A settled path is not there in full or is no directory and no link; what   *)
(* leads to it is there up to a point and stays what it is.                   *)
LEMMA SettledIs ==
  ASSUME TreeInv, NEW p, Settled(p)
  PROVE  /\ p \in Path /\ p # <<>> /\ Front(p) \in Path /\ Inside(p) /\ ~Is(p, "dir") /\ ~Is(p, "link")
         /\ Restored(Front(p)) = Front(p)
         /\ \E k \in 1..Len(Front(p)) : Known(Front(p)) = Top(p, k) /\ Top(p, k) = Top(Front(p), k)
         /\ p \in DOMAIN tree => Known(Front(p)) = Front(p)
<1> DEFINE d == Front(p)
<1>1. Grown(tree) /\ p \in Path /\ Len(p) \in Nat /\ Inside(p) /\ Len(p) >= 1 /\ p # <<>>
  <2>1. p \in Path /\ Inside(p)
    BY DEF Settled
  <2>2. Len(p) >= 1 /\ Len(p) \in Nat
    BY <2>1, InsideIs DEF Path
  <2> QED BY <2>1, <2>2 DEF TreeInv
<1>2. d \in Path /\ d = Top(p, Len(p) - 1) /\ Len(d) = Len(p) - 1
  BY <1>1, FrontIs DEF Path
<1>3. \A k \in 0..(Len(p) - 1) : Top(d, k) = Top(p, k)
  <2>1. Len(p) - 1 \in 0..Len(p)
    BY <1>1
  <2> QED BY <1>1, <1>2, <2>1, TopOfTop DEF Path
<1>4. Top(p, Len(p)) = p
  <2>1. 0 \in 0..Len(p)
    BY <1>1
  <2> QED BY <1>1, <2>1, TopOfTop DEF Path
<1> HIDE DEF d
<1>5. CASE Canonical(p) /\ ~Is(p, "dir")
  <2>1. p \in DOMAIN tree /\ ~Is(p, "link")
    <3>1. Len(p) \in 1..Len(p)
      BY <1>1
    <3> QED BY <1>1, <1>4, <1>5, <3>1, HereIfCanonical
  <2>2. Len(p) # 1
    <3> SUFFICES ASSUME Len(p) = 1 PROVE FALSE
      OBVIOUS
    <3>1. p[1] = "work"
      BY <1>1, InsideIs
    <3>2. p = Home
      <4>1. p \in Seq(FileName) /\ Home \in Seq(FileName) /\ Len(p) = Len(Home) /\ \A i \in 1..Len(p) : p[i] = Home[i]
        BY <1>1, <3>1, HomeIs DEF Path
      <4> QED BY <4>1, SeqEqual
    <3> QED BY <1>5, <3>2 DEF TreeInv, Is, Dir
  <2>3. Len(d) \in 1..Len(d) /\ Len(d) \in 0..Len(p) /\ Len(d) \in 0..(Len(p) - 1)
    BY <1>1, <1>2, <2>2
  <2>4. Top(d, Len(d)) = d /\ Canonical(d)
    <3>1. Top(d, Len(d)) = d
      BY <1>2, <1>3, <2>3
    <3> QED BY <1>1, <1>2, <1>5, <2>3, <3>1, CanonicalTop
  <2>5. Known(d) = d /\ Restored(d) = d
    <3>1. Canonical(Top(d, Len(d))) /\ ~(Len(d) < Len(d))
      BY <1>1, <1>2, <2>4
    <3> QED BY <1>2, <2>3, <2>4, <3>1, KnownIs
  <2>6. Known(d) = Top(p, Len(d)) /\ Top(p, Len(d)) = Top(d, Len(d))
    BY <1>2, <2>4, <2>5
  <2> QED BY <1>1, <1>2, <1>5, <2>1, <2>3, <2>5, <2>6 DEF d
<1>6. ASSUME NEW k \in Nat, Behind(p, k)
      PROVE  /\ p \notin DOMAIN tree /\ Restored(d) = d /\ Known(d) = Top(p, k) /\ Top(p, k) = Top(d, k)
             /\ k \in 1..Len(d)
  <2>1. k \in 1..(Len(p) - 1) /\ Canonical(Top(p, k)) /\ Top(p, k + 1) \notin DOMAIN tree
    BY <1>6 DEF Behind
  <2>2. k \in 1..Len(d) /\ k \in 0..(Len(p) - 1)
    BY <1>1, <1>2, <2>1
  <2>3. k < Len(d) => Top(d, k + 1) \notin DOMAIN tree
    <3>1. SUFFICES ASSUME k < Len(d) PROVE Top(d, k + 1) \notin DOMAIN tree
      OBVIOUS
    <3>2. k + 1 \in 0..(Len(p) - 1)
      BY <1>1, <1>2, <2>1, <3>1
    <3> QED BY <1>3, <2>1, <3>2
  <2>4. Known(d) = Top(d, k) /\ Restored(d) = d
    BY <1>2, <1>3, <2>1, <2>2, <2>3, KnownIs
  <2>5. p \notin DOMAIN tree
    <3>1. CASE k + 1 = Len(p)
      BY <1>4, <2>1, <3>1
    <3>2. CASE k + 1 # Len(p)
      <4>1. k + 1 \in 0..(Len(p) - 1)
        BY <1>1, <2>1, <3>2
      <4> QED BY <1>1, <2>1, <4>1 DEF Grown
    <3> QED BY <3>1, <3>2
  <2> QED BY <1>3, <2>2, <2>4, <2>5
<1>7. CASE \E k \in Nat : Behind(p, k)
  <2>1. PICK k \in Nat : Behind(p, k)
    BY <1>7
  <2> QED BY <1>1, <1>2, <1>6, <2>1 DEF Is, d
<1> QED BY <1>5, <1>7 DEF Settled

(* Once its directories are made, the file may be made too. *)
LEMMA MakesReady ==
  ASSUME TreeInv, NEW p, Settled(p), Is(Known(Front(p)), "dir"),
         tree' = Entered(tree, Missing(Front(p)), Dir)
  PROVE  /\ Ready(p)' /\ \A q \in Missing(Front(p)) : Inside(q)
         /\ p \notin Missing(Front(p))
         /\ Is(Front(p), "dir") <=> Missing(Front(p)) = {}
<1> DEFINE d == Front(p)
<1>1. /\ p \in Path /\ p # <<>> /\ d \in Path /\ Inside(p) /\ ~Is(p, "dir") /\ ~Is(p, "link")
      /\ Restored(d) = d /\ (p \in DOMAIN tree => Known(d) = d)
  BY SettledIs
<1>2. PICK k \in 1..Len(d) : Known(d) = Top(p, k) /\ Top(p, k) = Top(d, k)
  BY SettledIs
<1>3. d = Top(p, Len(p) - 1) /\ Len(d) = Len(p) - 1 /\ Len(p) \in Nat /\ Len(d) \in Nat /\ k \in Nat
  <2>1. p \in Seq(FileName) /\ d \in Seq(FileName)
    BY <1>1 DEF Path
  <2> QED BY <1>1, <1>2, <2>1, FrontIs
<1>4. /\ DOMAIN tree' = DOMAIN tree \cup Missing(d) /\ Missing(d) \cap DOMAIN tree = {}
      /\ \A q \in DOMAIN tree : tree'[q] = tree[q]
      /\ \A q \in Missing(d) : tree'[q] = Dir
  <2>1. PICK u : u = tree' /\ u = Entered(tree, Missing(d), Dir)
    OBVIOUS
  <2> HIDE DEF d
  <2>2. DOMAIN u = DOMAIN tree \cup Missing(d) /\ Missing(d) \cap DOMAIN tree = {}
        /\ \A q \in DOMAIN tree : u[q] = tree[q]
    <3>1. Is(Known(d), "dir")
      BY DEF d
    <3> QED BY <1>1, <2>1, <3>1, MakesDirs
  <2>3. \A q \in Missing(d) : u[q] = Dir
    BY <2>1 DEF Entered
  <2> QED BY <2>1, <2>2, <2>3
<1>5. Missing(d) = {Top(d, n) : n \in (k + 1)..Len(d)}
  <2>1. Len(Top(d, k)) = k
    <3>1. k \in 0..Len(d)
      BY <1>3
    <3> QED BY <1>1, <3>1, TopIs DEF Path
  <2> QED BY <1>1, <1>2, <2>1 DEF Missing
<1>6. \A n \in 1..Len(d) : /\ Top(d, n) \in Path /\ Len(Top(d, n)) = n /\ Inside(Top(d, n))
  <2> TAKE n \in 1..Len(d)
  <2>1. n \in 0..Len(d) /\ n \in 1..Len(p) /\ n \in 0..(Len(p) - 1) /\ Len(p) - 1 \in 0..Len(p)
    BY <1>3
  <2>2. Top(d, n) = Top(p, n)
    BY <1>1, <1>3, <2>1, TopOfTop DEF Path
  <2>3. Top(d, n) \in Path /\ Len(Top(d, n)) = n
    BY <1>1, <2>1, TopIs DEF Path
  <2> QED BY <1>1, <2>1, <2>2, <2>3, InsideTop
<1>7. \A n \in (k + 1)..Len(d) : n \in 1..Len(d)
  BY <1>3
<1>8. p \notin Missing(d) /\ \A q \in Missing(d) : Inside(q)
  <2>1. \A n \in 1..Len(d) : Top(d, n) # p
    BY <1>3, <1>6
  <2> QED BY <1>5, <1>6, <1>7, <2>1
<1>9. Top(d, Len(d)) = d
  <2>1. 0 \in 0..Len(d)
    BY <1>3
  <2> QED BY <1>1, <2>1, TopOfTop DEF Path
<1>10. d \in Missing(d) <=> k # Len(d)
  <2>1. k # Len(d) => Len(d) \in (k + 1)..Len(d)
    BY <1>2, <1>3
  <2>2. k = Len(d) => (k + 1)..Len(d) = {}
    BY <1>3
  <2> QED BY <1>5, <1>9, <2>1, <2>2
<1>11. k = Len(d) => Missing(d) = {} /\ Known(d) = d
  <2>1. k = Len(d) => (k + 1)..Len(d) = {}
    BY <1>3
  <2> QED BY <1>2, <1>5, <1>9, <2>1
<1> HIDE DEF d
<1>12. Is(d, "dir")'
  <2>1. CASE k = Len(d)
    BY <1>4, <1>11, <2>1 DEF Is, d
  <2>2. CASE k # Len(d)
    BY <1>4, <1>10, <2>2 DEF Is, Dir
  <2> QED BY <2>1, <2>2
<1>13. ~Is(p, "dir")' /\ ~Is(p, "link")'
  BY <1>1, <1>4, <1>8 DEF Is
<1>14. Is(d, "dir") <=> Missing(d) = {}
  BY <1>4, <1>10, <1>11 DEF Is, d
<1> QED BY <1>1, <1>8, <1>12, <1>13, <1>14 DEF Ready, d

-----------------------------------------------------------------------------
(* Every step keeps what holds *)

(* What a running call has, by what it does. *)
LEMMA CallIs ==
  ASSUME running \in CallType
  PROVE  /\ running.op \in {"idle", "read", "list", "write"} /\ (running = Idle <=> running.op = "idle")
         /\ running.op \in {"read", "list"} => running.stage = "resolved" /\ running.target \in Path \cup {NoPath}
         /\ running.op = "write" =>
              /\ running.stage \in {"asked", "resolved", "made"} /\ running.rel \in Path /\ running.content \in Content
              /\ running.stage # "asked" => running.target \in Path
<1>1. CASE running = Idle
  BY <1>1 DEF Idle
<1>2. CASE running \in [op : {"read"}, stage : {"resolved"}, target : Path \cup {NoPath}, offset : Int, limit : Int]
  BY <1>2 DEF Idle
<1>3. CASE running \in [op : {"list"}, stage : {"resolved"}, target : Path \cup {NoPath}]
  BY <1>3 DEF Idle
<1>4. CASE running \in [op : {"write"}, stage : {"asked"}, rel : Rel, content : Content, preview : PreviewType,
                        target : {NoPath}]
  <2>1. running.op = "write" /\ running.stage = "asked" /\ running.rel \in Rel /\ running.content \in Content
    BY <1>4
  <2>2. Rel \subseteq Path
    BY FileAssumption DEF Path
  <2> QED BY <2>1, <2>2 DEF Idle
<1>5. CASE running \in [op : {"write"}, stage : {"resolved", "made"}, rel : Rel, content : Content,
                        preview : PreviewType, target : Path]
  <2>1. running.op = "write" /\ running.stage \in {"resolved", "made"} /\ running.rel \in Rel
        /\ running.content \in Content /\ running.target \in Path
    BY <1>5
  <2>2. Rel \subseteq Path
    BY FileAssumption DEF Path
  <2> QED BY <2>1, <2>2 DEF Idle
<1> QED BY <1>1, <1>2, <1>3, <1>4, <1>5 DEF CallType

(* A call that is over says nothing of the tree. *)
LEMMA OverIs ==
  ASSUME running' = Idle
  PROVE  running' \in CallType /\ CallInv'
  BY DEF CallType, CallInv, Idle

(* A tree that keeps the working directory. *)
LEMMA TreeKept ==
  ASSUME TreeInv, Grown(tree'), NEW S, Root \in S, Home \in S, S \subseteq DOMAIN tree',
         \A q \in S \cap DOMAIN tree : tree'[q] = tree[q]
  PROVE  TreeInv'
  BY DEF TreeInv

(* A tree that is the same keeps what it kept. *)
LEMMA SameTree ==
  ASSUME TreeInv, tree' = tree
  PROVE  TreeInv'
  BY DEF TreeInv

(* A write is asked for: it has not resolved anything yet. *)
LEMMA AskStep ==
  ASSUME FilesInv, NEW rel \in Rel, NEW c \in Content, AskWrite(rel, c)
  PROVE  FilesInv'
<1>1. TreeInv'
  BY SameTree DEF FilesInv, AskWrite, Start
<1>2. running' = [op |-> "write", stage |-> "asked", rel |-> rel, content |-> c,
                  preview |-> writePreview(rel, c), target |-> NoPath]
      /\ answer' = NoAnswer /\ touched' = {}
  BY DEF AskWrite, Start
<1>3. writePreview(rel, c) \in PreviewType
  <2>1. rel \in Path
    BY FileAssumption DEF Path
  <2> QED BY <2>1, PreviewHasType DEF FilesInv
<1>4. running' \in CallType
  BY <1>2, <1>3 DEF CallType
<1>5. CallInv' /\ Confined'
  BY <1>2 DEF CallInv, Confined, NoAnswer
<1> QED BY <1>1, <1>4, <1>5 DEF FilesInv

(* A read or a listing has resolved its path, and nobody has changed the      *)
(* tree since.                                                                *)
LEMMA ReadStep ==
  ASSUME FilesInv, NEW rel \in Rel, NEW m \in Int, NEW n \in Int, ReadFile(rel, m, n) \/ ListDir(rel)
  PROVE  FilesInv'
<1>0. PICK p : p = resolveUnder(rel)
  OBVIOUS
<1>1. TreeInv' /\ tree' = tree
  BY SameTree DEF FilesInv, ReadFile, ListDir, Start
<1>2. p \in Path \cup {NoPath} /\ (p # NoPath => Canonical(p) /\ Inside(p))
  <2>1. rel \in Path
    BY FileAssumption DEF Path
  <2> QED BY <1>0, <2>1, UnderIs DEF FilesInv
<1>3. answer' = NoAnswer /\ touched' = {}
  BY DEF ReadFile, ListDir, Start
<1>4. \/ running' = [op |-> "read", stage |-> "resolved", target |-> p, offset |-> m, limit |-> n]
      \/ running' = [op |-> "list", stage |-> "resolved", target |-> p]
  BY <1>0 DEF ReadFile, ListDir, Start
<1>5. running' \in CallType
  BY <1>2, <1>4 DEF CallType
<1>6. p # NoPath => Canonical(p)' /\ Inside(p)
  BY <1>1, <1>2 DEF Canonical, Stops, Is
<1>7. running'.op # "write" /\ running'.target = p
  BY <1>4
<1>8. CallInv' /\ Confined'
  <2>1. (running.target # NoPath => Canonical(running.target) /\ Inside(running.target))'
    BY <1>6, <1>7
  <2> QED BY <1>3, <1>7, <2>1 DEF CallInv, Confined, NoAnswer
<1> QED BY <1>1, <1>5, <1>8 DEF FilesInv

(* While a call runs, *)
LEMMA SoFar ==
  ASSUME FilesInv, running.op # "idle"
  PROVE  /\ answer = NoAnswer
         /\ moved \subseteq {"asked"} => \A p \in touched : Inside(p)
<1>1. answer = NoAnswer /\ answer.op # "search"
  BY CallIs DEF FilesInv, CallInv, NoAnswer
<1> QED BY <1>1 DEF FilesInv, Confined

(* What is declined has touched nothing. *)
LEMMA DeclineStep == ASSUME FilesInv, Decline PROVE FilesInv'
<1>1. TreeInv'
  BY SameTree DEF FilesInv, Decline
<1>2. running' \in CallType /\ CallInv'
  BY OverIs DEF Decline, Done
<1>3. Confined'
  BY SoFar DEF Confined, Decline, Done
<1> QED BY <1>1, <1>2, <1>3 DEF FilesInv

(* What a write resolves is settled, or it is refused. *)
LEMMA ResolveStep == ASSUME FilesInv, Resolve PROVE FilesInv'
<1>0. PICK target : target = resolveForWrite(running.rel)
  OBVIOUS
<1>1. TreeInv' /\ tree' = tree
  BY SameTree DEF FilesInv, Resolve
<1>2. running.op = "write" /\ running.stage = "asked" /\ running.rel \in Path
  BY CallIs DEF FilesInv, Resolve
<1>3. touched' = touched /\ moved' = moved
  BY DEF Resolve
<1>4. CASE target = NoPath
  <2>1. running' = Idle /\ answer' = [op |-> "write", ok |-> FALSE, call |-> running]
    BY <1>0, <1>4 DEF Resolve, Done
  <2>2. Confined'
    <3>1. answer'.op # "search"
      BY <2>1
    <3>2. moved \subseteq {"asked"} => \A p \in touched : Inside(p)
      BY <1>2, SoFar
    <3> QED BY <1>3, <3>1, <3>2 DEF Confined
  <2> QED BY <1>1, <2>1, <2>2, OverIs DEF FilesInv
<1>5. CASE target # NoPath
  <2>1. running' = [running EXCEPT !.stage = "resolved", !.target = target] /\ answer' = answer
    BY <1>0, <1>5 DEF Resolve
  <2>2. Settled(target) /\ target \in Path
    BY <1>0, <1>2, <1>5, ResolvedIsSettled DEF FilesInv, Settled
  <2>3. running \in [op : {"write"}, stage : {"asked"}, rel : Rel, content : Content, preview : PreviewType,
                     target : {NoPath}]
    BY <1>2 DEF FilesInv, CallType, Idle
  <2>4. running' \in CallType /\ running'.op = "write" /\ running'.stage = "resolved" /\ running'.target = target
    BY <2>1, <2>2, <2>3 DEF CallType
  <2>5. Settled(target)'
    BY <1>1, <2>2 DEF Settled, Behind, Canonical, Stops, Is
  <2>6. answer' = NoAnswer
    BY <1>2, <2>1, SoFar
  <2>7. CallInv'
    BY <2>4, <2>5, <2>6 DEF CallInv
  <2>8. Confined'
    <3>1. answer'.op # "search"
      BY <2>6 DEF NoAnswer
    <3>2. moved \subseteq {"asked"} => \A p \in touched : Inside(p)
      BY <1>2, SoFar
    <3> QED BY <1>3, <3>1, <3>2 DEF Confined
  <2> QED BY <1>1, <2>4, <2>7, <2>8 DEF FilesInv
<1> QED BY <1>4, <1>5

(* The directories that are made are inside, and the path is ready. *)
LEMMA MkdirStep == ASSUME FilesInv, MkdirAll PROVE FilesInv'
<1>0. PICK p, made : p = running.target /\ made = Missing(Front(p))
  OBVIOUS
<1>1. /\ running.op = "write" /\ running.stage = "resolved" /\ p \in Path /\ Front(p) \in Path
      /\ moved' = moved /\ answer = NoAnswer
      /\ moved \subseteq {"asked"} => \A q \in touched : Inside(q)
  <2>1. running.op = "write" /\ running.stage = "resolved" /\ p \in Path /\ moved' = moved
    BY <1>0, CallIs DEF FilesInv, MkdirAll
  <2> QED BY <2>1, FrontType, SoFar
<1>2. CASE ~Is(Known(Front(p)), "dir")
  <2>1. running' = Idle /\ answer' = [op |-> "write", ok |-> FALSE, call |-> running]
        /\ tree' = tree /\ touched' = touched
    BY <1>0, <1>2 DEF MkdirAll, Done
  <2>2. Confined'
    <3>1. answer'.op # "search"
      BY <2>1
    <3> QED BY <1>1, <2>1, <3>1 DEF Confined
  <2> QED BY <2>1, <2>2, OverIs, SameTree DEF FilesInv
<1>3. CASE Is(Known(Front(p)), "dir")
  <2>1. /\ tree' = Entered(tree, made, Dir) /\ touched' = touched \cup made
        /\ running' = [running EXCEPT !.stage = "made"] /\ answer' = answer
    BY <1>0, <1>3 DEF MkdirAll
  <2>2. TreeInv'
    <3>1. /\ Grown(tree') /\ DOMAIN tree' = DOMAIN tree \cup made
          /\ \A q \in DOMAIN tree : tree'[q] = tree[q]
      BY <1>0, <1>1, <1>3, <2>1, MakesDirs DEF FilesInv
    <3>2. Root \in DOMAIN tree /\ Home \in DOMAIN tree /\ TreeInv
      BY DEF FilesInv, TreeInv
    <3> QED BY <3>1, <3>2, TreeKept
  <2>3. running \in [op : {"write"}, stage : {"resolved", "made"}, rel : Rel, content : Content,
                     preview : PreviewType, target : Path]
    BY <1>1 DEF FilesInv, CallType, Idle
  <2>4. running' \in CallType /\ running'.op = "write" /\ running'.stage = "made" /\ running'.target = p
    BY <1>0, <2>1, <2>3 DEF CallType
  <2>5. ASSUME moved \subseteq {"asked"} PROVE Ready(p)' /\ \A q \in made : Inside(q)
    <3>1. Settled(p)
      BY <1>0, <1>1, <2>5 DEF FilesInv, CallInv
    <3> QED BY <1>0, <1>3, <2>1, <3>1, MakesReady DEF FilesInv
  <2>6. CallInv'
    BY <1>1, <2>1, <2>4, <2>5 DEF CallInv
  <2>7. Confined'
    <3>1. answer'.op # "search"
      BY <1>1, <2>1 DEF NoAnswer
    <3> QED BY <1>1, <2>1, <2>5, <3>1 DEF Confined
  <2> QED BY <2>2, <2>4, <2>6, <2>7 DEF FilesInv
<1> QED BY <1>2, <1>3

(* The file is written where it was resolved, while it is ready. *)
LEMMA WriteStep == ASSUME FilesInv, Write PROVE FilesInv'
<1>0. PICK p : p = CreatedAt(running.target)
  OBVIOUS
<1>1. /\ running.op = "write" /\ running.stage = "made" /\ running.target \in Path /\ running.content \in Content
      /\ moved' = moved /\ running' = Idle /\ answer'.op = "write"
      /\ moved \subseteq {"asked"} => \A q \in touched : Inside(q)
  <2>1. running.op = "write" /\ running.stage = "made" /\ moved' = moved /\ running' = Idle /\ answer'.op = "write"
    BY DEF Write, Done
  <2>2. running.target \in Path /\ running.content \in Content
    BY <2>1, CallIs DEF FilesInv
  <2> QED BY <2>1, <2>2, SoFar
<1>2. CASE p # NoPath /\ ~Is(p, "dir")
  <2>1. tree' = Entered(tree, {p}, Plain(running.content)) /\ touched' = touched \cup {p}
    BY <1>0, <1>2 DEF Write
  <2>2. p \in Path /\ p # <<>> /\ ~Is(p, "link") /\ Front(p) \in DOMAIN tree /\ tree[Front(p)] = Dir
    BY <1>0, <1>1, <1>2, CreatedIs DEF FilesInv
  <2>3. Grown(tree')
    <3>1. Plain(running.content) \in Entry
      BY <1>1 DEF Entry
    <3>2. p \in DOMAIN tree => tree[p] # Dir
      BY <1>2 DEF Is, Dir
    <3>3. Grown(tree)
      BY DEF FilesInv, TreeInv
    <3> QED BY <2>1, <2>2, <3>1, <3>2, <3>3, GrowsBy
  <2>4. TreeInv'
    <3>1. TreeInv /\ Root \in DOMAIN tree /\ Home \in DOMAIN tree /\ p # Root /\ p # Home
      BY <1>2, <2>2 DEF FilesInv, TreeInv, Is, Link, Dir
    <3>2. /\ Root \in DOMAIN tree' /\ tree'[Root] = tree[Root]
          /\ Home \in DOMAIN tree' /\ tree'[Home] = tree[Home]
      BY <2>1, <3>1 DEF Entered
    <3> QED BY <2>3, <3>1, <3>2 DEF TreeInv
  <2>5. moved \subseteq {"asked"} => Inside(p)
    <3>1. SUFFICES ASSUME moved \subseteq {"asked"} PROVE Inside(p)
      OBVIOUS
    <3>2. Ready(running.target) /\ Grown(tree)
      BY <1>1, <3>1 DEF FilesInv, CallInv, TreeInv
    <3> QED BY <1>0, <3>2, CreatedReady DEF Ready
  <2>6. Confined'
    BY <1>1, <2>1, <2>5 DEF Confined
  <2> QED BY <1>1, <2>4, <2>6, OverIs DEF FilesInv
<1>3. CASE ~(p # NoPath /\ ~Is(p, "dir"))
  <2>1. tree' = tree /\ touched' = touched
    BY <1>0, <1>3 DEF Write
  <2>2. Confined'
    BY <1>1, <2>1 DEF Confined
  <2> QED BY <1>1, <2>1, <2>2, OverIs, SameTree DEF FilesInv
<1> QED BY <1>2, <1>3

(* A file or a directory that is read is the one that was resolved. *)
LEMMA LookStep ==
  ASSUME FilesInv, Open \/ ReadDir
  PROVE  FilesInv'
<1>0. PICK p : p = EvalSymlinks(running.target)
  OBVIOUS
<1>1. /\ running.op \in {"read", "list"} /\ moved' = moved /\ tree' = tree
      /\ moved \subseteq {"asked"} => \A q \in touched : Inside(q)
  <2>1. running.op \in {"read", "list"} /\ moved' = moved /\ tree' = tree
    BY DEF Open, ReadDir
  <2> QED BY <2>1, SoFar
<1>2. /\ running' = Idle /\ answer'.op # "search"
      /\ touched' = touched \/ (p \in DOMAIN tree /\ touched' = {p})
  <2>1. CASE Open
    <3>1. running' = Idle /\ answer'.op # "search"
      BY <2>1 DEF Open, Done, Fails
    <3>2. touched' = touched \/ (p \in DOMAIN tree /\ touched' = {p})
      BY <1>0, <2>1 DEF Open, Fails, Is
    <3> QED BY <3>1, <3>2
  <2>2. CASE ReadDir
    <3>1. running' = Idle /\ answer'.op # "search"
      BY <2>2 DEF ReadDir, Done, Fails
    <3>2. touched' = touched \/ (p \in DOMAIN tree /\ touched' = {p})
      BY <1>0, <2>2 DEF ReadDir, Fails, Is
    <3> QED BY <3>1, <3>2
  <2> QED BY <2>1, <2>2
<1>3. ASSUME moved \subseteq {"asked"}, p \in DOMAIN tree PROVE Inside(p)
  <2>1. Grown(tree) /\ running.target \in Path \cup {NoPath}
        /\ (running.target # NoPath => Canonical(running.target) /\ Inside(running.target))
    BY <1>1, <1>3, CallIs DEF FilesInv, TreeInv, CallInv
  <2>2. running.target # NoPath
    BY <1>0, <1>3, <2>1, AgainIs
  <2> QED BY <1>0, <2>1, <2>2, AgainIs
<1>4. Confined'
  BY <1>1, <1>2, <1>3 DEF Confined
<1> QED BY <1>1, <1>2, <1>4, OverIs, SameTree DEF FilesInv

(* A glob touches nothing. *)
LEMMA GlobStep ==
  ASSUME FilesInv, NEW names, Glob(names)
  PROVE  FilesInv'
<1>1. running' = Idle /\ tree' = tree /\ touched' = {} /\ answer'.op = "glob"
  BY DEF Glob
<1>2. Confined'
  BY <1>1 DEF Confined
<1> QED BY <1>1, <1>2, OverIs, SameTree DEF FilesInv

(* A search walks inside. *)
LEMMA SearchStep ==
  ASSUME FilesInv, NEW rel \in Rel, Search(rel)
  PROVE  FilesInv'
<1>0. PICK start : start = IF rel = <<>> THEN EvalSymlinks(Root) ELSE resolveUnder(rel)
  OBVIOUS
<1>1. running' = Idle /\ tree' = tree /\ TreeInv
  BY DEF Search, FilesInv
<1>2. CASE start = NoPath
  <2>1. touched' = {} /\ answer'.op # "search"
    BY <1>0, <1>2 DEF Search
  <2>2. Confined'
    BY <2>1 DEF Confined
  <2> QED BY <1>1, <2>2, OverIs, SameTree DEF FilesInv
<1>3. CASE start # NoPath
  <2>1. /\ answer'.op = "search"
        /\ answer'.links = {EvalSymlinks(p) : p \in {q \in Visited(start) : Is(q, "link")}}
        /\ touched' = {EvalSymlinks(p) : p \in Visited(start)} \ {NoPath}
    BY <1>0, <1>3 DEF Search
  <2>2. start \in Path /\ Inside(start)
    <3>1. CASE rel = <<>>
      <4>1. start = Home /\ Home \in Path
        BY <1>0, <1>1, <3>1, EvalRoot, HomeIs
      <4>2. Len(Home) = 1 /\ Home[1] = "work"
        BY HomeIs
      <4>3. \A i \in 2..1 : FALSE
        OBVIOUS
      <4>4. Inside(Home)
        BY <4>1, <4>2, <4>3, InsideIs
      <4> QED BY <4>1, <4>4
    <3>2. CASE rel # <<>>
      <4>1. rel \in Path
        BY FileAssumption DEF Path
      <4> QED BY <1>0, <1>1, <1>3, <3>2, <4>1, UnderIs
    <3> QED BY <3>1, <3>2
  <2>3. ASSUME NEW x \in touched' \ answer'.links
        PROVE  under(Home, x) /\ ~insideGitDir(Home, Front(x))
    <3>1. PICK p \in Visited(start) : x = EvalSymlinks(p)
      BY <2>1, <2>3
    <3>2. p \in DOMAIN tree /\ tree[p].type # "link"
      BY <2>1, <2>3, <3>1 DEF Visited, Is
    <3> QED BY <1>1, <2>2, <3>1, <3>2, WalkIs
  <2>4. Confined'
    BY <2>1, <2>3 DEF Confined
  <2> QED BY <1>1, <2>4, OverIs, SameTree DEF FilesInv
<1> QED BY <1>2, <1>3

(* Whatever others put or remove, the tree stays one and keeps the working    *)
(* directory; from then on a call that has resolved promises nothing.         *)
LEMMA OthersStep ==
  ASSUME FilesInv, NEW p \in Spot, NEW e \in Entry, Vanish(p) \/ Put(p, e)
  PROVE  FilesInv'
<1>0. PICK w : w = Without(p)
  OBVIOUS
<1>1. /\ Is(Front(p), "dir") /\ (tree' = w \/ tree' = Entered(w, {p}, e))
      /\ running' = running /\ answer' = answer /\ touched' = touched
      /\ moved' = IF running = Idle THEN moved ELSE moved \cup {running.stage}
  BY <1>0 DEF Vanish, Put, Becomes
<1>2. TreeInv /\ Grown(tree) /\ running \in CallType /\ CallInv /\ Confined
  BY DEF FilesInv, TreeInv
<1>3. p \in Path /\ ~IsPrefix(p, Root) /\ ~IsPrefix(p, Home) /\ IsPrefix(p, p)
  <2>1. p \in Path /\ ~IsPrefix(p, Root) /\ ~IsPrefix(p, Home)
    BY FileAssumption DEF Path
  <2>2. 0 \in 0..Len(p) /\ Len(p) <= Len(p)
    BY <2>1 DEF Path
  <2>3. Top(p, Len(p)) = p
    BY <2>1, <2>2, TopOfTop DEF Path
  <2> QED BY <2>1, <2>2, <2>3, PrefixIs
<1>4. p # <<>> /\ p # Root /\ p # Home
  <2>1. IsPrefix(Root, Root) /\ IsPrefix(Home, Home)
    <3>1. 0 \in 0..Len(Root) /\ 0 \in 0..Len(Home) /\ Len(Root) <= Len(Root) /\ Len(Home) <= Len(Home)
      BY HomeIs
    <3>2. Top(Root, Len(Root)) = Root /\ Top(Home, Len(Home)) = Home
      <4>1. Root \in Seq(FileName) /\ Home \in Seq(FileName)
        BY HomeIs DEF Path
      <4> QED BY <4>1, SubSeqFull DEF Top
    <3> QED BY <3>1, <3>2, HomeIs, PrefixIs
  <2>2. IsPrefix(<<>>, Root)
    <3>1. <<>> \in Path /\ Len(<<>>) = 0 /\ 0 <= Len(Root)
      BY HomeIs DEF Path
    <3>2. Top(Root, 0) = <<>>
      BY SubSeqEmpty DEF Top
    <3> QED BY <3>1, <3>2, HomeIs, PrefixIs
  <2> QED BY <1>3, <2>1, <2>2
<1>5. /\ DOMAIN w = {x \in DOMAIN tree : ~IsPrefix(p, x)} /\ (\A q \in DOMAIN w : w[q] = tree[q])
      /\ w = [q \in {x \in DOMAIN tree : ~IsPrefix(p, x)} |-> tree[q]]
  BY <1>0 DEF Without
<1>6. Grown(w) /\ Root \in DOMAIN w /\ Home \in DOMAIN w /\ p \notin DOMAIN w
  <2>1. Grown(w)
    BY <1>2, <1>3, <1>5, Shrinks
  <2> QED BY <1>2, <1>3, <1>5, <2>1 DEF TreeInv
<1>7. TreeInv'
  <2>1. CASE tree' = w
    BY <1>2, <1>5, <1>6, <2>1 DEF TreeInv
  <2>2. CASE tree' = Entered(w, {p}, e)
    <3>1. Front(p) \in DOMAIN w /\ w[Front(p)] = Dir
      <4>1. Front(p) \in DOMAIN tree /\ tree[Front(p)] = Dir /\ Front(p) \in Path
        BY <1>1, <1>2, EntryIs DEF Is
      <4>2. Len(Front(p)) < Len(p)
        <5>1. Len(Front(p)) = Len(p) - 1 /\ Len(p) \in Nat
          BY <1>3, <1>4, FrontIs DEF Path
        <5> QED BY <5>1
      <4>3. ~IsPrefix(p, Front(p))
        <5>1. Len(p) \in Nat /\ Len(Front(p)) \in Nat
          BY <1>3, <4>1 DEF Path
        <5> QED BY <1>3, <4>1, <4>2, <5>1, PrefixIs
      <4> QED BY <1>5, <4>1, <4>3
    <3>2. Grown(tree')
      BY <1>3, <1>4, <1>6, <2>2, <3>1, GrowsBy
    <3>3. /\ Root \in DOMAIN tree' /\ tree'[Root] = w[Root] /\ Home \in DOMAIN tree' /\ tree'[Home] = w[Home]
      BY <1>4, <1>6, <2>2 DEF Entered
    <3> QED BY <1>2, <1>5, <1>6, <3>2, <3>3 DEF TreeInv
  <2> QED BY <1>1, <2>1, <2>2
<1>8. CallInv'
  <2>1. CASE running = Idle
    BY <1>1, <2>1 DEF CallInv, Idle
  <2>2. CASE running # Idle
    <3>1. moved' \subseteq {"asked"} => running.stage = "asked"
      BY <1>1, <2>2
    <3>2. running.op \in {"read", "list"} => running.stage = "resolved"
      BY <1>2, CallIs
    <3>3. running # Idle => answer' = NoAnswer
      BY <1>1, <1>2 DEF CallInv
    <3> QED BY <1>1, <3>1, <3>2, <3>3 DEF CallInv
  <2> QED BY <2>1, <2>2
<1>9. Confined'
  <2>1. moved' \subseteq {"asked"} => moved \subseteq {"asked"}
    BY <1>1
  <2> QED BY <1>1, <1>2, <2>1 DEF Confined
<1> QED BY <1>1, <1>2, <1>7, <1>8, <1>9 DEF FilesInv

(* Every step keeps the invariant. *)
LEMMA FilesStep == FilesInv /\ [FileNext]_fileVars => FilesInv'
<1> SUFFICES ASSUME FilesInv, [FileNext]_fileVars PROVE FilesInv'
  OBVIOUS
<1>1. CASE \E rel \in Rel \ {<<>>} : \/ \E c \in Content : AskWrite(rel, c)
                                    \/ \E r \in Ranges : ReadFile(rel, r[1], r[2])
  <2>1. \A r \in Ranges : r[1] \in Int /\ r[2] \in Int
    BY FileAssumption
  <2> QED BY <1>1, <2>1, AskStep, ReadStep
<1>2. CASE \E rel \in Rel : ListDir(rel) \/ Search(rel)
  <2>1. ASSUME NEW rel \in Rel, ListDir(rel) PROVE FilesInv'
    <3>1. 0 \in Int
      OBVIOUS
    <3> QED BY <2>1, <3>1, ReadStep
  <2> QED BY <1>2, <2>1, SearchStep
<1>3. CASE \E names \in {{"a"}, {"a", "b"}} : Glob(names)
  BY <1>3, GlobStep
<1>4. CASE Decline \/ Resolve \/ MkdirAll \/ Write
  BY <1>4, DeclineStep, ResolveStep, MkdirStep, WriteStep
<1>5. CASE Open \/ ReadDir
  BY <1>5, LookStep
<1>6. CASE \E p \in Spot :
             \/ Vanish(p)
             \/ \E e \in {Dir} \cup {Plain(c) : c \in Content} \cup {Link(g) : g \in Goal} : Put(p, e)
  <2>1. {Dir} \cup {Plain(c) : c \in Content} \cup {Link(g) : g \in Goal} \subseteq Entry /\ Dir \in Entry
    BY DEF Entry
  <2> QED BY <1>6, <2>1, OthersStep
<1>7. CASE UNCHANGED fileVars
  <2>1. tree' = tree /\ running' = running /\ answer' = answer /\ touched' = touched /\ moved' = moved
    BY <1>7 DEF fileVars
  <2>2. TreeInv' /\ running' \in CallType /\ Confined'
    BY <2>1, SameTree DEF FilesInv, Confined
  <2>3. CallInv'
    BY <2>1 DEF FilesInv, CallInv, Settled, Behind, Ready, Canonical, Stops, Is
  <2> QED BY <2>2, <2>3 DEF FilesInv
<1> QED BY <1>1, <1>2, <1>3, <1>4, <1>5, <1>6, <1>7 DEF FileNext

(* Whatever path the model names, and whatever links others have put in its   *)
(* way before the call, no tool reads, lists, makes or writes anything that   *)
(* is not in the working directory, or that is in .git (resolveUnder,         *)
(* resolveForWrite).                                                          *)
THEOREM FilesAreConfined == FileSpec => []Confined
<1>1. FilesInv => Confined
  BY DEF FilesInv
<1> QED BY FilesInit, FilesStep, <1>1, PTL DEF FileSpec

-----------------------------------------------------------------------------
(* What is left out *)

(* Lines as the tools tell them apart. *)
Line == {"plain", "hit", "huge"}

(* The smaller of two. *)
LEMMA MinOfTwo ==
  ASSUME NEW a \in Nat, NEW b \in Nat
  PROVE  Min({a, b}) = IF a <= b THEN a ELSE b
<1>1. {a, b} \in SUBSET Nat /\ {a, b} # {}
  OBVIOUS
<1>2. Min({a, b}) \in {a, b} /\ \A y \in {a, b} : Min({a, b}) <= y
  BY <1>1, MinIsLeast
<1> QED BY <1>2

(* A range that is read is the range it says, of all the lines there are. *)
Scan(lines, first, limit, s) ==
  /\ s[0] = [ok |-> TRUE, line |-> 0, out |-> <<>>]
  /\ \A n \in 1..Len(lines) :
       s[n] = IF ~s[n - 1].ok THEN s[n - 1]
              ELSE IF lines[n] = "huge" THEN [s[n - 1] EXCEPT !.ok = FALSE]
              ELSE IF s[n - 1].line + 1 < first \/ (limit > 0 /\ Len(s[n - 1].out) = limit)
                THEN [s[n - 1] EXCEPT !.line = @ + 1]
              ELSE [ok |-> Len(s[n - 1].out) <= maxRead, line |-> s[n - 1].line + 1,
                    out |-> Append(s[n - 1].out, lines[n])]

Scans == [ok : BOOLEAN, line : Nat, out : Seq(Line)]

(* What is answered once the scan is over. *)
Given(x, offset, limit, first) ==
  IF offset < 0 \/ limit < 0 \/ ~x.ok \/ first > x.line THEN [ok |-> FALSE]
  ELSE [ok |-> TRUE, from |-> first, to |-> first + Len(x.out) - 1, of |-> x.line, lines |-> x.out]

(* readRange is such a scan, *)
LEMMA ScanIs ==
  ASSUME NEW lines \in Seq(Line), NEW offset \in Int, NEW limit \in Int,
         NEW first, first = IF offset = 0 THEN 1 ELSE offset
  PROVE  \E s \in [0..Len(lines) -> Scans] :
           /\ Scan(lines, first, limit, s)
           /\ readRange(lines, offset, limit) = Given(s[Len(lines)], offset, limit, first)
<1> DEFINE N == Len(lines)
           On(n, x) == IF ~x.ok THEN x
                       ELSE IF lines[n] = "huge" THEN [x EXCEPT !.ok = FALSE]
                       ELSE IF x.line + 1 < first \/ (limit > 0 /\ Len(x.out) = limit)
                         THEN [x EXCEPT !.line = @ + 1]
                       ELSE [ok |-> Len(x.out) <= maxRead, line |-> x.line + 1, out |-> Append(x.out, lines[n])]
           zero == [ok |-> TRUE, line |-> 0, out |-> <<>>]
           step == [n \in 1..N |-> [x \in Scans |-> On(n, x)]]
           Eq(f) == f = [n \in 0..N |-> IF n = 0 THEN zero ELSE On(n, f[n - 1])]
           scan == CHOOSE f : Eq(f)
<1>1. N \in Nat /\ first \in Int /\ zero \in Scans
  BY DEF Scans
<1>2. readRange(lines, offset, limit) = Given(scan[N], offset, limit, first)
  BY DEF readRange, Given
<1>3. \A n \in 1..N, x \in Scans : On(n, x) \in Scans
  <2> TAKE n \in 1..N, x \in Scans
  <2>1. x.ok \in BOOLEAN /\ x.line \in Nat /\ x.out \in Seq(Line) /\ lines[n] \in Line
    BY DEF Scans
  <2>2. [x EXCEPT !.ok = FALSE] \in Scans /\ [x EXCEPT !.line = @ + 1] \in Scans
    <3>1. [x EXCEPT !.ok = FALSE] \in Scans
      BY DEF Scans
    <3>2. x.line + 1 \in Nat
      BY <2>1
    <3>3. [x EXCEPT !.line = @ + 1] \in Scans
      BY <3>2 DEF Scans
    <3> QED BY <3>1, <3>3
  <2>3. [ok |-> Len(x.out) <= maxRead, line |-> x.line + 1, out |-> Append(x.out, lines[n])] \in Scans
    <3>1. Append(x.out, lines[n]) \in Seq(Line) /\ x.line + 1 \in Nat
      BY <2>1
    <3> QED BY <3>1 DEF Scans
  <2> QED BY <2>2, <2>3
<1> HIDE DEF N, On, zero
<1>4. step \in [1..N -> [Scans -> Scans]]
  BY <1>3
<1>5. PICK f : StepsIn(f, step, zero, N, Scans)
  <2> HIDE DEF step
  <2> QED BY <1>1, <1>4, Iterates
<1>6. Eq(f)
  <2>1. \A n \in 1..N : f[n] = On(n, f[n - 1])
    <3> TAKE n \in 1..N
    <3>1. n - 1 \in 0..N
      BY <1>1
    <3>2. f[n - 1] \in Scans /\ f[n] = step[n][f[n - 1]]
      BY <1>5, <3>1 DEF StepsIn, Steps
    <3> QED BY <3>2
  <2>2. f \in [0..N -> Scans] /\ f[0] = zero /\ \A n \in 0..N : n = 0 \/ n \in 1..N
    BY <1>1, <1>5 DEF StepsIn, Steps
  <2> HIDE DEF step
  <2> QED BY <2>1, <2>2
<1>7. Eq(scan)
  BY <1>6
<1> HIDE DEF scan
<1>8. scan = [n \in 0..N |-> scan[n]] /\ scan[0] = zero /\ \A n \in 1..N : scan[n] = On(n, scan[n - 1])
  <2>1. \A n \in 0..N : scan[n] = IF n = 0 THEN zero ELSE On(n, scan[n - 1])
    BY <1>7
  <2>2. 0 \in 0..N /\ scan = [n \in 0..N |-> scan[n]] /\ \A n \in 1..N : n \in 0..N /\ n # 0
    BY <1>1, <1>7
  <2> HIDE DEF Eq
  <2> QED BY <2>1, <2>2
<1>9. scan \in [0..N -> Scans]
  <2>1. \A n \in 1..N : scan[n - 1] \in Scans => scan[n] \in Scans
    BY <1>3, <1>8
  <2>2. scan[0] \in Scans
    BY <1>1, <1>8
  <2> QED BY <1>1, <1>8, <2>1, <2>2, Stays
<1>10. Scan(lines, first, limit, scan)
  BY <1>8 DEF Scan, On, zero, N
<1> QED BY <1>2, <1>9, <1>10 DEF N

(* and answers with the lines from first on, as many as it says, and their    *)
(* number.                                                                    *)
LEMMA RangeIs ==
  ASSUME NEW lines \in Seq(Line), NEW offset \in Int, NEW limit \in Int,
         NEW got, got = readRange(lines, offset, limit), got.ok
  PROVE  "of" \in DOMAIN got /\ got.lines = SubSeq(lines, got.from, got.to) /\ got.of = Len(lines)
<1>0. PICK first : first = IF offset = 0 THEN 1 ELSE offset
  OBVIOUS
<1>1. PICK s \in [0..Len(lines) -> Scans] :
        /\ Scan(lines, first, limit, s)
        /\ readRange(lines, offset, limit) = Given(s[Len(lines)], offset, limit, first)
  BY <1>0, ScanIs
<1> DEFINE N == Len(lines)
           Good(n) == s[n].ok =>
                        /\ s[n].line = n
                        /\ s[n].out = SubSeq(lines, first, first + Len(s[n].out) - 1)
                        /\ n < first => Len(s[n].out) = 0
                        /\ n >= first => (limit > 0 /\ Len(s[n].out) = limit) \/ Len(s[n].out) = n - first + 1
           T == {n \in 0..N : Good(n)}
<1>2. offset >= 0 /\ limit >= 0 /\ s[N].ok /\ first <= s[N].line
      /\ got = [ok |-> TRUE, from |-> first, to |-> first + Len(s[N].out) - 1, of |-> s[N].line, lines |-> s[N].out]
  <2>1. N \in 0..N
    OBVIOUS
  <2>2. s[N].line \in Int /\ first \in Int
    BY <1>0, <2>1 DEF Scans
  <2>3. got = Given(s[N], offset, limit, first)
    BY <1>1
  <2> HIDE DEF N
  <2> QED BY <2>2, <2>3 DEF Given
<1>3. N \in Nat /\ first \in Nat /\ first >= 1
  BY <1>0, <1>2
<1>4. 0 \in T
  <2>1. s[0] = [ok |-> TRUE, line |-> 0, out |-> <<>>]
    BY <1>1 DEF Scan
  <2>2. SubSeq(lines, first, first + 0 - 1) = <<>>
    BY <1>3, SubSeqEmpty
  <2> QED BY <1>3, <2>1, <2>2
<1>5. ASSUME NEW n \in 1..N, n - 1 \in T PROVE n \in T
  <2>0. n - 1 \in 0..N /\ n \in 0..N /\ Good(n - 1)
    BY <1>5
  <2> SUFFICES ASSUME s[n].ok
               PROVE  /\ s[n].line = n
                      /\ s[n].out = SubSeq(lines, first, first + Len(s[n].out) - 1)
                      /\ n < first => Len(s[n].out) = 0
                      /\ n >= first => (limit > 0 /\ Len(s[n].out) = limit) \/ Len(s[n].out) = n - first + 1
    BY <2>0
  <2> DEFINE x == s[n - 1]
  <2>1. x \in Scans /\ x.out \in Seq(Line) /\ x.line \in Nat /\ x.ok \in BOOLEAN
    BY <2>0 DEF Scans
  <2>2. s[n] = IF ~x.ok THEN x
              ELSE IF lines[n] = "huge" THEN [x EXCEPT !.ok = FALSE]
              ELSE IF x.line + 1 < first \/ (limit > 0 /\ Len(x.out) = limit)
                THEN [x EXCEPT !.line = @ + 1]
              ELSE [ok |-> Len(x.out) <= maxRead, line |-> x.line + 1, out |-> Append(x.out, lines[n])]
    BY <1>1, <1>5 DEF Scan
  <2>3. x.ok => /\ x.line = n - 1
                /\ x.out = SubSeq(lines, first, first + Len(x.out) - 1)
                /\ n - 1 < first => Len(x.out) = 0
                /\ n - 1 >= first => (limit > 0 /\ Len(x.out) = limit) \/ Len(x.out) = n - 1 - first + 1
    BY <2>0
  <2> HIDE DEF x, T
  <2>4. x.ok
    BY <2>2
  <2>5. lines[n] # "huge"
    <3>1. ~[x EXCEPT !.ok = FALSE].ok
      BY <2>1 DEF Scans
    <3> QED BY <2>2, <2>4, <3>1
  <2>6. CASE x.line + 1 < first \/ (limit > 0 /\ Len(x.out) = limit)
    <3>1. s[n].line = n /\ s[n].out = x.out
      <4>1. s[n] = [x EXCEPT !.line = @ + 1]
        BY <2>2, <2>4, <2>5, <2>6
      <4>2. s[n].line = x.line + 1 /\ s[n].out = x.out
        BY <2>1, <4>1 DEF Scans
      <4> QED BY <1>3, <2>3, <2>4, <4>2
    <3>2. Len(x.out) \in Nat
      BY <2>1
    <3> QED BY <1>3, <2>3, <2>4, <2>6, <3>1, <3>2
  <2>7. CASE ~(x.line + 1 < first \/ (limit > 0 /\ Len(x.out) = limit))
    <3>1. s[n].line = x.line + 1 /\ s[n].out = Append(x.out, lines[n])
      BY <2>2, <2>4, <2>5, <2>7
    <3>2. Len(x.out) \in Nat /\ Len(Append(x.out, lines[n])) = Len(x.out) + 1 /\ lines[n] \in Line
      BY <1>5, <2>1
    <3>3. n >= first /\ Len(x.out) = n - first
      <4>1. x.line = n - 1 /\ ~(x.line + 1 < first) /\ ~(limit > 0 /\ Len(x.out) = limit)
        BY <2>3, <2>4, <2>7
      <4>2. n >= first /\ n \in Int
        BY <1>3, <4>1
      <4>3. CASE n - 1 < first
        BY <1>3, <2>3, <2>4, <4>2, <4>3
      <4>4. CASE n - 1 >= first
        <5>1. Len(x.out) = n - 1 - first + 1
          BY <2>3, <2>4, <4>1, <4>4
        <5> QED BY <1>3, <4>2, <5>1
      <4> QED BY <1>3, <4>2, <4>3, <4>4
    <3>4. SubSeq(lines, first, n) = SubSeq(lines, first, n - 1) \o <<lines[n]>>
      <4>1. first \in 1..(Len(lines) + 1) /\ first \in Int /\ n \in first..Len(lines)
        BY <1>3, <3>3
      <4> QED BY <1>3, <1>5, <4>1, SubSeqRecursiveSecond
    <3>5. first + Len(x.out) - 1 = n - 1
      BY <1>3, <3>3
    <3>6. Append(x.out, lines[n]) = SubSeq(lines, first, n)
      <4>1. Append(x.out, lines[n]) = x.out \o <<lines[n]>>
        BY <2>1, <3>2, AppendIsConcat
      <4> QED BY <2>3, <2>4, <3>4, <3>5, <4>1
    <3>7. Len(s[n].out) = n - first + 1
      BY <1>3, <3>1, <3>2, <3>3
    <3>8. first + Len(s[n].out) - 1 = n
      BY <1>3, <3>7
    <3> QED BY <1>3, <2>3, <2>4, <3>1, <3>3, <3>6, <3>7, <3>8
  <2> QED BY <2>6, <2>7
<1>6. N \in T
  <2>1. N \in 0..N
    BY <1>3
  <2> HIDE DEF T, N
  <2> QED BY <1>3, <1>4, <1>5, <2>1, Upwards
<1>7. s[N].line = N /\ s[N].out = SubSeq(lines, first, first + Len(s[N].out) - 1)
  BY <1>2, <1>6
<1> HIDE DEF N, T
<1>8. got.lines = s[N].out /\ got.from = first /\ got.to = first + Len(s[N].out) - 1 /\ got.of = s[N].line
      /\ "of" \in DOMAIN got
  BY <1>2
<1> QED BY <1>7, <1>8 DEF N

(* Hits are counted one line at a time. *)
LEMMA CountIs ==
  ASSUME NEW lines \in Seq(Line)
  PROVE  \E c \in [0..Len(lines) -> Nat] :
           /\ c[0] = 0 /\ c[Len(lines)] = Hits(lines)
           /\ \A n \in 1..Len(lines) : c[n] = c[n - 1] + IF lines[n] = "hit" THEN 1 ELSE 0
<1> DEFINE A(n) == {i \in 1..n : lines[i] = "hit"}
           c == [n \in 0..Len(lines) |-> Cardinality(A(n))]
<1>0. Len(lines) \in Nat
  OBVIOUS
<1>1. \A n \in 0..Len(lines) : IsFiniteSet(A(n)) /\ Cardinality(A(n)) \in Nat
  <2> TAKE n \in 0..Len(lines)
  <2>1. IsFiniteSet(1..n) /\ A(n) \subseteq 1..n
    BY FS_Interval
  <2>2. IsFiniteSet(A(n))
    <3> HIDE DEF A
    <3> QED BY <2>1, FS_Subset
  <2> HIDE DEF A
  <2> QED BY <2>2, FS_CardinalityType
<1>2. A(0) = {} /\ Cardinality({}) = 0
  BY FS_EmptySet
<1>3. ASSUME NEW n \in 1..Len(lines)
      PROVE  Cardinality(A(n)) = Cardinality(A(n - 1)) + IF lines[n] = "hit" THEN 1 ELSE 0
  <2>1. n - 1 \in 0..Len(lines) /\ n \notin A(n - 1)
    BY <1>0
  <2>2. A(n) = IF lines[n] = "hit" THEN A(n - 1) \cup {n} ELSE A(n - 1)
    <3>1. \A i \in Int : i \in 1..n <=> i \in 1..(n - 1) \/ i = n
      BY <1>0
    <3> QED BY <3>1
  <2>3. IsFiniteSet(A(n - 1)) /\ Cardinality(A(n - 1)) \in Nat
    BY <1>1, <2>1
  <2> HIDE DEF A
  <2>4. Cardinality(A(n - 1) \cup {n}) = Cardinality(A(n - 1)) + 1
    BY <2>1, <2>3, FS_AddElement
  <2> QED BY <2>2, <2>3, <2>4
<1>4. Hits(lines) = Cardinality(A(Len(lines)))
  BY DEF Hits
<1> HIDE DEF A
<1>5. c \in [0..Len(lines) -> Nat]
  BY <1>1
<1>6. c[0] = 0 /\ c[Len(lines)] = Hits(lines)
  <2>1. 0 \in 0..Len(lines) /\ Len(lines) \in 0..Len(lines)
    BY <1>0
  <2>2. c[0] = Cardinality(A(0)) /\ c[Len(lines)] = Cardinality(A(Len(lines)))
    BY <2>1
  <2> HIDE DEF c
  <2>3. Cardinality(A(0)) = 0
    BY <1>2
  <2> QED BY <1>4, <2>2, <2>3
<1>7. \A n \in 1..Len(lines) : c[n] = c[n - 1] + IF lines[n] = "hit" THEN 1 ELSE 0
  <2> TAKE n \in 1..Len(lines)
  <2>1. n \in 0..Len(lines) /\ n - 1 \in 0..Len(lines)
    BY <1>0
  <2> QED BY <1>3, <2>1
<1> QED BY <1>5, <1>6, <1>7

(* A search counts up to the most it shows, and stops when there is another. *)
Counting == [hits : Nat, more : BOOLEAN, stop : BOOLEAN]

(* Only a search that has shown the most it may says that there is more. *)
Fair(x) ==
  /\ x \in Counting /\ x.hits <= maxSearchHits
  /\ x.more = x.stop /\ (x.stop => x.hits = maxSearchHits)

(* It stays fair when it stops there, *)
LEMMA StopIs ==
  ASSUME NEW x, Fair(x)
  PROVE  x.hits >= maxSearchHits => Fair([x EXCEPT !.more = TRUE, !.stop = TRUE])
<1>1. x \in Counting /\ x.hits <= maxSearchHits /\ maxSearchHits \in Nat /\ x.hits \in Nat
  BY FileAssumption DEF Fair, Counting
<1> DEFINE y == [x EXCEPT !.more = TRUE, !.stop = TRUE]
<1>2. y \in Counting /\ y.hits = x.hits /\ y.more = TRUE /\ y.stop = TRUE
  BY <1>1 DEF Counting
<1> HIDE DEF y
<1>3. x.hits >= maxSearchHits => Fair(y)
  <2>1. x.hits >= maxSearchHits => x.hits = maxSearchHits
    BY <1>1
  <2> QED BY <1>1, <1>2, <2>1 DEF Fair
<1> QED BY <1>3 DEF y

(* and when it shows one more before. *)
LEMMA HitIs ==
  ASSUME NEW x, Fair(x), ~x.stop, ~(x.hits >= maxSearchHits)
  PROVE  LET y == [x EXCEPT !.hits = @ + 1] IN Fair(y) /\ ~y.stop /\ y.hits = x.hits + 1
<1>1. x \in Counting /\ maxSearchHits \in Nat /\ x.hits \in Nat /\ x.more = x.stop
  BY FileAssumption DEF Fair, Counting
<1> DEFINE y == [x EXCEPT !.hits = @ + 1]
<1>2. y \in Counting /\ y.hits = x.hits + 1 /\ y.more = x.more /\ y.stop = x.stop
  BY <1>1 DEF Counting
<1> HIDE DEF y
<1>3. Fair(y) /\ ~y.stop /\ y.hits = x.hits + 1
  BY <1>1, <1>2 DEF Fair
<1> QED BY <1>3 DEF y

(* What the scanner gives are lines, and all when none is too long. *)
LEMMA ScannedIs ==
  ASSUME NEW lines \in Seq(Line)
  PROVE  Scanned(lines) \in Seq(Line) /\ ("huge" \notin ToSet(lines) => Scanned(lines) = lines)
<1> DEFINE long == {i \in 1..Len(lines) : lines[i] = "huge"}
<1>1. Len(lines) \in Nat /\ long \in SUBSET Nat
  OBVIOUS
<1>2. Scanned(lines) = IF long = {} THEN lines ELSE SubSeq(lines, 1, Min(long) - 1)
  BY DEF Scanned
<1>3. long # {} => Min(long) \in 1..Len(lines)
  <2>1. long # {} => Min(long) \in long
    <3> HIDE DEF long
    <3> QED BY <1>1, MinIsLeast
  <2> QED BY <2>1
<1>4. "huge" \notin ToSet(lines) => long = {}
  BY DEF ToSet
<1> HIDE DEF long
<1>5. long # {} => SubSeq(lines, 1, Min(long) - 1) \in Seq(Line)
  BY <1>1, <1>3
<1> QED BY <1>2, <1>4, <1>5

(* A file is searched fairly, and every hit in it is counted unless the       *)
(* search stops.                                                              *)
LEMMA OneFileIs ==
  ASSUME NEW lines \in Seq(Line), NEW acc, Fair(acc)
  PROVE  /\ Fair(searchOneFile(acc, lines))
         /\ "huge" \notin ToSet(lines) /\ ~searchOneFile(acc, lines).stop =>
              ~acc.stop /\ searchOneFile(acc, lines).hits = acc.hits + Hits(lines)
<1> DEFINE read == Scanned(lines)
           N == Len(read)
           S == {x \in Counting : Fair(x)}
           On(n, x) == IF x.stop \/ read[n] # "hit" THEN x
                       ELSE IF x.hits >= maxSearchHits THEN [x EXCEPT !.more = TRUE, !.stop = TRUE]
                       ELSE [x EXCEPT !.hits = @ + 1]
           step == [n \in 1..N |-> [x \in S |-> On(n, x)]]
           Eq(f) == f = [n \in 0..N |-> IF n = 0 THEN acc ELSE On(n, f[n - 1])]
           up == CHOOSE f : Eq(f)
<1>1. read \in Seq(Line) /\ ("huge" \notin ToSet(lines) => read = lines)
  BY ScannedIs
<1>2. searchOneFile(acc, lines) = up[N]
  BY DEF searchOneFile
<1> HIDE DEF read
<1>3. N \in Nat /\ acc \in S
  BY <1>1 DEF Fair
<1>4. \A n \in 1..N, x \in S : On(n, x) \in S
  <2> TAKE n \in 1..N, x \in S
  <2>1. Fair(x) /\ x \in Counting
    OBVIOUS
  <2>2. Fair(On(n, x))
    BY <2>1, StopIs, HitIs
  <2> QED BY <2>2 DEF Fair
<1> HIDE DEF N, On, S
<1>5. step \in [1..N -> [S -> S]]
  BY <1>4
<1>6. PICK f : StepsIn(f, step, acc, N, S)
  <2> HIDE DEF step
  <2> QED BY <1>3, <1>5, Iterates
<1>7. Eq(f)
  <2>1. \A n \in 1..N : f[n] = On(n, f[n - 1])
    <3> TAKE n \in 1..N
    <3>1. n - 1 \in 0..N
      BY <1>3
    <3>2. f[n - 1] \in S /\ f[n] = step[n][f[n - 1]]
      BY <1>6, <3>1 DEF StepsIn, Steps
    <3> QED BY <3>2
  <2>2. f \in [0..N -> S] /\ f[0] = acc /\ \A n \in 0..N : n = 0 \/ n \in 1..N
    BY <1>3, <1>6 DEF StepsIn, Steps
  <2> HIDE DEF step
  <2> QED BY <2>1, <2>2
<1>8. Eq(up)
  BY <1>7
<1> HIDE DEF up
<1>9. up = [n \in 0..N |-> up[n]] /\ up[0] = acc /\ \A n \in 1..N : up[n] = On(n, up[n - 1])
  <2>1. \A n \in 0..N : up[n] = IF n = 0 THEN acc ELSE On(n, up[n - 1])
    BY <1>8
  <2>2. 0 \in 0..N /\ up = [n \in 0..N |-> up[n]] /\ \A n \in 1..N : n \in 0..N /\ n # 0
    BY <1>3, <1>8
  <2> HIDE DEF Eq
  <2> QED BY <2>1, <2>2
<1>10. up \in [0..N -> S]
  <2>1. \A n \in 1..N : up[n - 1] \in S => up[n] \in S
    BY <1>4, <1>9
  <2>2. up[0] \in S
    BY <1>3, <1>9
  <2> QED BY <1>3, <1>9, <2>1, <2>2, Stays
<1>11. Fair(up[N])
  <2>1. N \in 0..N
    BY <1>3
  <2>2. up[N] \in S
    BY <1>10, <2>1
  <2> QED BY <2>2 DEF S
<1>12. ASSUME "huge" \notin ToSet(lines), ~up[N].stop
       PROVE  ~acc.stop /\ up[N].hits = acc.hits + Hits(lines)
  <2>1. read = lines /\ N = Len(lines)
    BY <1>1, <1>12 DEF N
  <2>2. PICK c \in [0..N -> Nat] :
          /\ c[0] = 0 /\ c[N] = Hits(lines)
          /\ \A n \in 1..N : c[n] = c[n - 1] + IF lines[n] = "hit" THEN 1 ELSE 0
    BY <2>1, CountIs
  <2> DEFINE T == {n \in 0..N : ~up[n].stop => ~acc.stop /\ up[n].hits = acc.hits + c[n]}
  <2>3. 0 \in T
    <3>1. acc.hits \in Nat
      BY DEF Fair, Counting
    <3> QED BY <1>3, <1>9, <2>2, <3>1
  <2>4. ASSUME NEW n \in 1..N, n - 1 \in T PROVE n \in T
    <3>1. n \in 0..N /\ n - 1 \in 0..N /\ (~up[n - 1].stop => ~acc.stop /\ up[n - 1].hits = acc.hits + c[n - 1])
      BY <1>3, <2>4
    <3>2. up[n] = On(n, up[n - 1]) /\ Fair(up[n - 1]) /\ c[n] = c[n - 1] + (IF lines[n] = "hit" THEN 1 ELSE 0)
      BY <1>9, <1>10, <2>2, <3>1 DEF S
    <3>3. acc.hits \in Nat /\ c[n] \in Nat /\ c[n - 1] \in Nat /\ up[n - 1] \in Counting
      BY <2>2, <3>1, <3>2 DEF Fair, Counting
    <3> SUFFICES ASSUME ~up[n].stop PROVE ~acc.stop /\ up[n].hits = acc.hits + c[n]
      BY <3>1
    <3> DEFINE x == up[n - 1] y == up[n]
    <3> HIDE DEF x, y, T
    <3>4. y = IF x.stop \/ lines[n] # "hit" THEN x
              ELSE IF x.hits >= maxSearchHits THEN [x EXCEPT !.more = TRUE, !.stop = TRUE]
              ELSE [x EXCEPT !.hits = @ + 1]
      BY <2>1, <3>2 DEF x, y, On
    <3>5. CASE x.stop \/ lines[n] # "hit"
      BY <3>1, <3>2, <3>3, <3>4, <3>5 DEF x, y
    <3>6. CASE ~x.stop /\ lines[n] = "hit" /\ x.hits >= maxSearchHits
      <4>1. [x EXCEPT !.more = TRUE, !.stop = TRUE].stop
        BY <3>3 DEF x, Counting
      <4> QED BY <3>4, <3>6, <4>1 DEF y
    <3>7. CASE ~x.stop /\ lines[n] = "hit" /\ ~(x.hits >= maxSearchHits)
      <4>1. y.hits = x.hits + 1
        BY <3>2, <3>4, <3>7, HitIs DEF x
      <4> QED BY <3>1, <3>2, <3>3, <3>7, <4>1 DEF x, y
    <3> QED BY <3>5, <3>6, <3>7
  <2>5. N \in T
    <3>1. N \in 0..N
      BY <1>3
    <3> HIDE DEF T
    <3> QED BY <1>3, <2>3, <2>4, <3>1, Upwards
  <2> QED BY <1>12, <2>2, <2>5
<1> QED BY <1>2, <1>11, <1>12

-----------------------------------------------------------------------------
(* A search *)

(* What is read at a path are lines. *)
LEMMA LinesAre ==
  ASSUME Grown(tree), NEW p
  PROVE  LinesAt(p) \in Seq(Line)
<1>0. PICK q : q = EvalSymlinks(p)
  OBVIOUS
<1>1. LinesAt(p) = IF Is(q, "file") THEN tree[q].content.lines ELSE <<>>
  BY <1>0 DEF LinesAt
<1>2. CASE Is(q, "file")
  <2>1. tree[q].content \in Content
    BY <1>2, EntryIs DEF Is
  <2>2. tree[q].content.lines \in Seq(Line)
    BY <2>1, FileAssumption DEF Line
  <2> QED BY <1>1, <1>2, <2>2
<1>3. CASE ~Is(q, "file")
  <2>1. <<>> \in Seq(Line)
    OBVIOUS
  <2> QED BY <1>1, <1>3, <2>1
<1> QED BY <1>2, <1>3

(* What there is to be found is counted one file at a time, *)
LEMMA HitsInIs ==
  ASSUME Grown(tree), NEW walk \in Seq(Path)
  PROVE  \E c \in [0..Len(walk) -> Nat] :
           /\ c[0] = 0 /\ c[Len(walk)] = HitsIn(walk)
           /\ \A n \in 1..Len(walk) : c[n] = c[n - 1] + Hits(LinesAt(walk[n]))
<1> DEFINE N == Len(walk)
           H(n) == Hits(LinesAt(walk[n]))
           step == [n \in 1..N |-> [x \in Nat |-> x + H(n)]]
           Eq(f) == f = [n \in 0..N |-> IF n = 0 THEN 0 ELSE f[n - 1] + H(n)]
           up == CHOOSE f : Eq(f)
<1>1. HitsIn(walk) = up[N]
  BY DEF HitsIn
<1>2. N \in Nat
  OBVIOUS
<1>3. \A n \in 1..N : H(n) \in Nat
  <2> TAKE n \in 1..N
  <2>1. PICK lines \in Seq(Line) : lines = LinesAt(walk[n])
    BY LinesAre
  <2>2. PICK c \in [0..Len(lines) -> Nat] : c[Len(lines)] = Hits(lines)
    BY CountIs
  <2>3. Len(lines) \in 0..Len(lines)
    BY <2>1
  <2> QED BY <2>1, <2>2, <2>3
<1> HIDE DEF N, H
<1>4. step \in [1..N -> [Nat -> Nat]]
  BY <1>3
<1>5. PICK f : StepsIn(f, step, 0, N, Nat)
  <2> HIDE DEF step
  <2> QED BY <1>2, <1>4, Iterates
<1>6. Eq(f)
  <2>1. \A n \in 1..N : f[n] = f[n - 1] + H(n)
    <3> TAKE n \in 1..N
    <3>1. n - 1 \in 0..N
      BY <1>2
    <3>2. f[n - 1] \in Nat /\ f[n] = step[n][f[n - 1]]
      BY <1>5, <3>1 DEF StepsIn, Steps
    <3> QED BY <3>2
  <2>2. f \in [0..N -> Nat] /\ f[0] = 0 /\ \A n \in 0..N : n = 0 \/ n \in 1..N
    BY <1>2, <1>5 DEF StepsIn, Steps
  <2> HIDE DEF step
  <2> QED BY <2>1, <2>2
<1>7. Eq(up)
  BY <1>6
<1> HIDE DEF up
<1>8. up = [n \in 0..N |-> up[n]] /\ up[0] = 0 /\ \A n \in 1..N : up[n] = up[n - 1] + H(n)
  <2>1. \A n \in 0..N : up[n] = IF n = 0 THEN 0 ELSE up[n - 1] + H(n)
    BY <1>7
  <2>2. 0 \in 0..N /\ up = [n \in 0..N |-> up[n]] /\ \A n \in 1..N : n \in 0..N /\ n # 0
    BY <1>2, <1>7
  <2> HIDE DEF Eq
  <2> QED BY <2>1, <2>2
<1>9. up \in [0..N -> Nat]
  <2>1. \A n \in 1..N : up[n - 1] \in Nat => up[n] \in Nat
    <3> TAKE n \in 1..N
    <3>1. H(n) \in Nat /\ up[n] = up[n - 1] + H(n)
      BY <1>3, <1>8
    <3> QED BY <3>1
  <2>2. up[0] \in Nat
    BY <1>8
  <2> QED BY <1>2, <1>8, <2>1, <2>2, Stays
<1> QED BY <1>1, <1>8, <1>9 DEF N, H

(* and so it is found, unless the search says that it stops or a line is too  *)
(* long for it.                                                               *)
LEMMA SearchIs ==
  ASSUME Grown(tree), NEW walk \in Seq(Path)
  PROVE  /\ Fair(searchUnder(walk))
         /\ (\A n \in 1..Len(walk) : "huge" \notin ToSet(LinesAt(walk[n]))) /\ ~searchUnder(walk).stop =>
              searchUnder(walk).hits = HitsIn(walk)
<1> DEFINE N == Len(walk)
           none == [hits |-> 0, more |-> FALSE, stop |-> FALSE]
           S == {x \in Counting : Fair(x)}
           On(n, x) == IF x.stop THEN x
                       ELSE IF x.hits >= maxSearchHits THEN [x EXCEPT !.more = TRUE, !.stop = TRUE]
                       ELSE searchOneFile(x, LinesAt(walk[n]))
           step == [n \in 1..N |-> [x \in S |-> On(n, x)]]
           Eq(f) == f = [n \in 0..N |-> IF n = 0 THEN none ELSE On(n, f[n - 1])]
           up == CHOOSE f : Eq(f)
<1>1. searchUnder(walk) = up[N]
  BY DEF searchUnder
<1>2. N \in Nat /\ \A n \in 1..N : LinesAt(walk[n]) \in Seq(Line)
  BY LinesAre
<1>3. none \in S
  <2>1. none \in Counting /\ none.hits = 0 /\ none.more = FALSE /\ none.stop = FALSE
    BY DEF Counting
  <2>2. 0 <= maxSearchHits
    BY FileAssumption
  <2> HIDE DEF none
  <2> QED BY <2>1, <2>2 DEF Fair
<1>4. \A n \in 1..N, x \in S : On(n, x) \in S
  <2> TAKE n \in 1..N, x \in S
  <2>1. Fair(x)
    OBVIOUS
  <2>2. Fair(searchOneFile(x, LinesAt(walk[n])))
    BY <1>2, <2>1, OneFileIs
  <2>3. Fair(On(n, x))
    BY <2>1, <2>2, StopIs
  <2> QED BY <2>3 DEF Fair
<1> HIDE DEF N, On, S, none
<1>5. step \in [1..N -> [S -> S]]
  BY <1>4
<1>6. PICK f : StepsIn(f, step, none, N, S)
  <2> HIDE DEF step
  <2> QED BY <1>2, <1>3, <1>5, Iterates
<1>7. Eq(f)
  <2>1. \A n \in 1..N : f[n] = On(n, f[n - 1])
    <3> TAKE n \in 1..N
    <3>1. n - 1 \in 0..N
      BY <1>2
    <3>2. f[n - 1] \in S /\ f[n] = step[n][f[n - 1]]
      BY <1>6, <3>1 DEF StepsIn, Steps
    <3> QED BY <3>2
  <2>2. f \in [0..N -> S] /\ f[0] = none /\ \A n \in 0..N : n = 0 \/ n \in 1..N
    BY <1>2, <1>6 DEF StepsIn, Steps
  <2> HIDE DEF step
  <2> QED BY <2>1, <2>2
<1>8. Eq(up)
  BY <1>7
<1> HIDE DEF up
<1>9. up = [n \in 0..N |-> up[n]] /\ up[0] = none /\ \A n \in 1..N : up[n] = On(n, up[n - 1])
  <2>1. \A n \in 0..N : up[n] = IF n = 0 THEN none ELSE On(n, up[n - 1])
    BY <1>8
  <2>2. 0 \in 0..N /\ up = [n \in 0..N |-> up[n]] /\ \A n \in 1..N : n \in 0..N /\ n # 0
    BY <1>2, <1>8
  <2> HIDE DEF Eq
  <2> QED BY <2>1, <2>2
<1>10. up \in [0..N -> S]
  <2>1. \A n \in 1..N : up[n - 1] \in S => up[n] \in S
    BY <1>4, <1>9
  <2>2. up[0] \in S
    BY <1>3, <1>9
  <2> QED BY <1>2, <1>9, <2>1, <2>2, Stays
<1>11. Fair(up[N])
  <2>1. N \in 0..N
    BY <1>2
  <2>2. up[N] \in S
    BY <1>10, <2>1
  <2> QED BY <2>2 DEF S
<1>12. ASSUME \A n \in 1..N : "huge" \notin ToSet(LinesAt(walk[n])), ~up[N].stop
       PROVE  up[N].hits = HitsIn(walk)
  <2>1. PICK c \in [0..N -> Nat] :
          /\ c[0] = 0 /\ c[N] = HitsIn(walk)
          /\ \A n \in 1..N : c[n] = c[n - 1] + Hits(LinesAt(walk[n]))
    BY HitsInIs DEF N
  <2> DEFINE T == {n \in 0..N : ~up[n].stop => up[n].hits = c[n]}
  <2>2. 0 \in T
    BY <1>2, <1>9, <2>1 DEF none
  <2>3. ASSUME NEW n \in 1..N, n - 1 \in T PROVE n \in T
    <3> DEFINE x == up[n - 1] y == up[n] lines == LinesAt(walk[n])
    <3>1. n \in 0..N /\ n - 1 \in 0..N /\ (~x.stop => x.hits = c[n - 1])
      BY <1>2, <2>3
    <3>2. Fair(x) /\ c[n] = c[n - 1] + Hits(lines) /\ lines \in Seq(Line) /\ "huge" \notin ToSet(lines)
      BY <1>2, <1>10, <1>12, <2>1, <3>1 DEF S
    <3>3. y = IF x.stop THEN x
              ELSE IF x.hits >= maxSearchHits THEN [x EXCEPT !.more = TRUE, !.stop = TRUE]
              ELSE searchOneFile(x, lines)
      BY <1>9 DEF On
    <3> SUFFICES ASSUME ~y.stop PROVE y.hits = c[n]
      BY <3>1
    <3> HIDE DEF x, y, T, lines
    <3>4. ~x.stop
      BY <3>3
    <3>5. ~(x.hits >= maxSearchHits)
      <4>1. x \in Counting
        BY <3>2 DEF Fair
      <4>2. [x EXCEPT !.more = TRUE, !.stop = TRUE].stop
        BY <4>1 DEF Counting
      <4> QED BY <3>3, <3>4, <4>2
    <3>6. y.hits = x.hits + Hits(lines)
      <4>1. y = searchOneFile(x, lines)
        BY <3>3, <3>4, <3>5
      <4> QED BY <3>2, <4>1, OneFileIs
    <3> QED BY <3>1, <3>2, <3>4, <3>6
  <2>4. N \in T
    <3>1. N \in 0..N
      BY <1>2
    <3> HIDE DEF T
    <3> QED BY <1>2, <2>2, <2>3, <3>1, Upwards
  <2> QED BY <1>12, <2>1, <2>4
<1> QED BY <1>1, <1>11, <1>12 DEF N

(* A finite set of paths as a sequence. *)
LEMMA WalkOf ==
  ASSUME NEW V \in SUBSET Path, IsFiniteSet(V)
  PROVE  SetToSeq(V) \in Seq(Path) /\ \A n \in 1..Len(SetToSeq(V)) : SetToSeq(V)[n] \in V
<1>1. Cardinality(V) \in Nat /\ ExistsBijection(1..Cardinality(V), V)
  BY FS_CardinalityType
<1>2. \E f \in [1..Cardinality(V) -> V] : IsInjective(f)
  BY <1>1 DEF ExistsBijection, Bijection, Injection
<1>3. SetToSeq(V) \in [1..Cardinality(V) -> V]
  BY <1>2 DEF SetToSeq
<1> QED BY <1>1, <1>3

(* What is cut short says so, and nothing else does. *)
LEMMA CutShort ==
  ASSUME NEW V \in SUBSET DOMAIN tree, Grown(tree), NEW most \in Nat
  PROVE  LET n == Cardinality(V) IN
         /\ Min({n, most}) < n => n > most
         /\ n > most => Min({n, most}) < n
<1>1. IsFiniteSet(V)
  BY FS_Subset DEF Grown
<1>2. Cardinality(V) \in Nat
  BY <1>1, FS_CardinalityType
<1>3. Min({Cardinality(V), most}) = IF Cardinality(V) <= most THEN Cardinality(V) ELSE most
  BY <1>2, MinOfTwo
<1> QED BY <1>2, <1>3

(* A listing and a glob, *)
LEMMA NamesTold ==
  ASSUME TreeInv, ReadDir \/ \E names : Glob(names)
  PROVE  SaysWhatItLeftOut'
<1>1. maxEntries \in Nat /\ maxMatches \in Nat /\ Grown(tree)
  BY FileAssumption DEF TreeInv
<1>2. CASE ReadDir
  <2>1. PICK p : p = EvalSymlinks(running.target)
    OBVIOUS
  <2>2. CASE ~Is(p, "dir")
    <3>1. answer' = [op |-> "error"]
      BY <1>2, <2>1, <2>2 DEF ReadDir, Fails, Done
    <3> QED BY <3>1 DEF SaysWhatItLeftOut
  <2>3. CASE Is(p, "dir")
    <3>1. PICK n : n = Cardinality(Entries(p))
      OBVIOUS
    <3>2. answer' = [op |-> "list", all |-> n, shown |-> Min({n, maxEntries}), more |-> n > maxEntries]
      BY <1>2, <2>1, <2>3, <3>1 DEF ReadDir, Done
    <3>3. Entries(p) \in SUBSET DOMAIN tree
      BY DEF Entries
    <3>4. (Min({n, maxEntries}) < n => n > maxEntries) /\ (n > maxEntries => Min({n, maxEntries}) < n)
      BY <1>1, <3>1, <3>3, CutShort
    <3> QED BY <3>2, <3>4 DEF SaysWhatItLeftOut
  <2> QED BY <2>2, <2>3
<1>3. ASSUME NEW names, Glob(names) PROVE SaysWhatItLeftOut'
  <2>1. PICK V : V = {p \in Visited(EvalSymlinks(Root)) : Last(p) \in names}
    OBVIOUS
  <2>2. PICK n : n = Cardinality(V)
    OBVIOUS
  <2>3. answer' = [op |-> "glob", all |-> n, shown |-> Min({n, maxMatches}), more |-> n > maxMatches]
    BY <1>3, <2>1, <2>2 DEF Glob
  <2>4. V \in SUBSET DOMAIN tree
    BY <2>1 DEF Visited
  <2>5. (Min({n, maxMatches}) < n => n > maxMatches) /\ (n > maxMatches => Min({n, maxMatches}) < n)
    BY <1>1, <2>2, <2>4, CutShort
  <2> QED BY <2>3, <2>5 DEF SaysWhatItLeftOut
<1> QED BY <1>2, <1>3

(* a file, whole or a range of it, *)
LEMMA FileTold ==
  ASSUME FilesInv, Open
  PROVE  SaysWhatItLeftOut'
<1>1. PICK p : p = EvalSymlinks(running.target)
  OBVIOUS
<1>2. CASE ~Is(p, "file")
  <2>1. answer' = [op |-> "error"]
    BY <1>1, <1>2 DEF Open, Fails, Done
  <2> QED BY <2>1 DEF SaysWhatItLeftOut
<1>3. CASE Is(p, "file")
  <2>1. PICK lines : lines = tree[p].content.lines
    OBVIOUS
  <2>2. PICK got : got = IF running.offset = 0 /\ running.limit = 0
                           THEN Whole(lines) ELSE readRange(lines, running.offset, running.limit)
    OBVIOUS
  <2>3. answer' = [op |-> "read", file |-> lines, got |-> got]
    BY <1>1, <1>3, <2>1, <2>2 DEF Open, Done
  <2>4. lines \in Seq(Line)
    <3>1. tree[p].content \in Content
      BY <1>3, EntryIs DEF FilesInv, TreeInv, Is
    <3> QED BY <2>1, <3>1, FileAssumption DEF Line
  <2>5. running.offset \in Int /\ running.limit \in Int
    <3>1. running.op = "read" /\ running \in CallType
      BY DEF Open, FilesInv
    <3> QED BY <3>1 DEF CallType, Idle
  <2>6. CASE running.offset = 0 /\ running.limit = 0
    <3>1. got = IF Size(lines) > maxRead THEN [ok |-> FALSE] ELSE [ok |-> TRUE, lines |-> lines]
      BY <2>2, <2>6 DEF Whole
    <3>2. got.ok => got = [ok |-> TRUE, lines |-> lines]
      BY <3>1
    <3>3. got.ok => "of" \notin DOMAIN got /\ got.lines = lines
      BY <3>2
    <3> QED BY <2>3, <3>3 DEF SaysWhatItLeftOut
  <2>7. CASE ~(running.offset = 0 /\ running.limit = 0)
    <3>1. got.ok => "of" \in DOMAIN got /\ got.lines = SubSeq(lines, got.from, got.to) /\ got.of = Len(lines)
      BY <2>2, <2>4, <2>5, <2>7, RangeIs
    <3> QED BY <2>3, <3>1 DEF SaysWhatItLeftOut
  <2> QED BY <2>6, <2>7
<1> QED BY <1>2, <1>3

(* and a search. *)
LEMMA SearchTold ==
  ASSUME TreeInv, NEW rel \in Rel, Search(rel)
  PROVE  SaysWhatItLeftOut'
<1>1. PICK start : start = IF rel = <<>> THEN EvalSymlinks(Root) ELSE resolveUnder(rel)
  OBVIOUS
<1>2. CASE start = NoPath
  <2>1. answer' = [op |-> "error"]
    BY <1>1, <1>2 DEF Search
  <2> QED BY <2>1 DEF SaysWhatItLeftOut
<1>3. CASE start # NoPath
  <2>1. PICK walk : walk = SetToSeq(Visited(start))
    OBVIOUS
  <2>2. PICK found : found = searchUnder(walk)
    OBVIOUS
  <2>3. PICK long : long = \E p \in Visited(start) : "huge" \in ToSet(LinesAt(p))
    OBVIOUS
  <2>4. answer'.op = "search" /\ answer'.shown = found.hits /\ answer'.more = found.more
        /\ answer'.all = HitsIn(walk) /\ answer'.long = long
    <3>1. PICK links : links = {EvalSymlinks(p) : p \in {q \in Visited(start) : Is(q, "link")}}
      OBVIOUS
    <3>2. PICK all : all = HitsIn(walk)
      OBVIOUS
    <3>3. answer' = [op |-> "search", shown |-> found.hits, more |-> found.more, all |-> all, long |-> long,
                     links |-> links]
      BY <1>1, <1>3, <2>1, <2>2, <2>3, <3>1, <3>2 DEF Search
    <3> QED BY <3>2, <3>3
  <2>5. walk \in Seq(Path) /\ \A n \in 1..Len(walk) : walk[n] \in Visited(start)
    <3>1. Visited(start) \in SUBSET Path /\ IsFiniteSet(Visited(start))
      <4>1. Visited(start) \in SUBSET DOMAIN tree /\ IsFiniteSet(DOMAIN tree) /\ DOMAIN tree \subseteq Path
        BY DEF Visited, TreeInv, Grown
      <4> QED BY <4>1, FS_Subset
    <3> QED BY <2>1, <3>1, WalkOf
  <2>6. Fair(found) /\ (~long /\ ~found.stop => found.hits = HitsIn(walk))
    <3>1. Grown(tree)
      BY DEF TreeInv
    <3>2. ~long => \A n \in 1..Len(walk) : "huge" \notin ToSet(LinesAt(walk[n]))
      BY <2>3, <2>5
    <3> QED BY <2>2, <2>5, <3>1, <3>2, SearchIs
  <2>7. HitsIn(walk) \in Nat /\ found.hits \in Nat
    <3>1. PICK c \in [0..Len(walk) -> Nat] : c[Len(walk)] = HitsIn(walk)
      BY <2>5, HitsInIs DEF TreeInv
    <3>2. Len(walk) \in 0..Len(walk)
      BY <2>5
    <3> QED BY <2>6, <3>1, <3>2 DEF Fair, Counting
  <2>8. /\ found.hits < HitsIn(walk) => found.more \/ long
        /\ found.more => found.hits = maxSearchHits
    BY <2>6, <2>7 DEF Fair
  <2> QED BY <2>4, <2>8 DEF SaysWhatItLeftOut
<1> QED BY <1>2, <1>3

(* An answer that promises nothing. *)
LEMMA NothingTold ==
  ASSUME answer'.op \notin {"list", "glob", "search", "read"}
  PROVE  SaysWhatItLeftOut'
BY DEF SaysWhatItLeftOut

(* Every step keeps what is said of what is left out. *)
LEMMA ToldStep == FilesInv /\ SaysWhatItLeftOut /\ [FileNext]_fileVars => SaysWhatItLeftOut'
<1> SUFFICES ASSUME FilesInv, SaysWhatItLeftOut, [FileNext]_fileVars PROVE SaysWhatItLeftOut'
  OBVIOUS
<1>0. TreeInv
  BY DEF FilesInv
<1>1. CASE answer' = answer
  BY <1>1 DEF SaysWhatItLeftOut
<1>2. ASSUME NEW c, Start(c) PROVE SaysWhatItLeftOut'
  BY <1>2, NothingTold DEF Start, NoAnswer
<1>3. CASE \E rel \in Rel \ {<<>>} : \/ \E c \in Content : AskWrite(rel, c)
                                    \/ \E r \in Ranges : ReadFile(rel, r[1], r[2])
  BY <1>2, <1>3 DEF AskWrite, ReadFile
<1>4. CASE \E rel \in Rel : ListDir(rel) \/ Search(rel)
  BY <1>0, <1>2, <1>4, SearchTold DEF ListDir
<1>5. CASE \E names \in {{"a"}, {"a", "b"}} : Glob(names)
  BY <1>0, <1>5, NamesTold
<1>6. CASE Decline \/ Resolve \/ MkdirAll \/ Write
  <2>1. answer' = answer \/ answer'.op \in {"declined", "write"}
    <3>1. CASE Decline
      BY <3>1 DEF Decline, Done
    <3>2. CASE Resolve
      BY <3>2 DEF Resolve, Done
    <3>3. CASE MkdirAll
      BY <3>3 DEF MkdirAll, Done
    <3>4. CASE Write
      BY <3>4 DEF Write, Done
    <3> QED BY <1>6, <3>1, <3>2, <3>3, <3>4
  <2> QED BY <1>1, <2>1, NothingTold
<1>7. CASE Open \/ ReadDir
  BY <1>0, <1>7, FileTold, NamesTold
<1>8. CASE \E p \in Spot :
             \/ Vanish(p)
             \/ \E e \in {Dir} \cup {Plain(c) : c \in Content} \cup {Link(g) : g \in Goal} : Put(p, e)
  <2>1. answer' = answer
    BY <1>8 DEF Vanish, Put, Becomes
  <2> QED BY <1>1, <2>1
<1>9. CASE UNCHANGED fileVars
  BY <1>1, <1>9 DEF fileVars
<1> QED BY <1>3, <1>4, <1>5, <1>6, <1>7, <1>8, <1>9 DEF FileNext

(* What a listing, a glob, a search or a read of a file answers is all there  *)
(* is, or says that it is not; what is said to be left out is; and a range is *)
(* the one its header says (ListDir, globUnder, searchUnder, readRangeUnder). *)
THEOREM FilesSayWhatTheyLeaveOut == FileSpec => []SaysWhatItLeftOut
<1>1. FileInit => SaysWhatItLeftOut
  BY DEF FileInit, SaysWhatItLeftOut, NoAnswer
<1> QED BY <1>1, FilesInit, FilesStep, ToldStep, PTL DEF FileSpec

-----------------------------------------------------------------------------
(* What is shown *)

(* What is there is there in full. *)
LEMMA NotThere ==
  ASSUME Grown(tree), NEW p \in Path, NEW n \in 0..Len(p), Top(p, n) \notin DOMAIN tree
  PROVE  p \notin DOMAIN tree
<1>1. Len(p) \in Nat /\ Top(p, Len(p)) = p
  <2>1. p \in Seq(FileName)
    BY DEF Path
  <2> QED BY <2>1, SubSeqFull DEF Top
<1>2. CASE n = Len(p)
  BY <1>1, <1>2
<1>3. CASE n # Len(p)
  <2>1. n \in 0..(Len(p) - 1)
    BY <1>1, <1>3
  <2> QED BY <2>1 DEF Grown
<1> QED BY <1>2, <1>3

(* A settled path is a file in a directory, or resolves to nothing; and so    *)
(* does the way to it.                                                        *)
LEMMA SettledEval ==
  ASSUME TreeInv, NEW p, Settled(p)
  PROVE  /\ p \in DOMAIN tree => EvalSymlinks(p) = p /\ Is(p, "file") /\ Is(Front(p), "dir")
         /\ p \notin DOMAIN tree => ~Canonical(p) /\ ~Is(EvalSymlinks(p), "file")
         /\ Is(EvalSymlinks(Front(p)), "dir") <=> Is(Front(p), "dir")
<1> DEFINE d == Front(p)
<1>1. Grown(tree) /\ p \in Path /\ Len(p) \in Nat /\ Len(p) >= 1 /\ p # <<>> /\ NoPath \notin DOMAIN tree
  <2>1. p \in Path /\ Inside(p)
    BY DEF Settled
  <2>2. Len(p) >= 1 /\ Len(p) \in Nat
    BY <2>1, InsideIs DEF Path
  <2> QED BY <2>1, <2>2, Nowhere DEF TreeInv, Grown
<1>2. d \in Path /\ d = Top(p, Len(p) - 1) /\ Len(d) = Len(p) - 1 /\ Top(p, Len(p)) = p
  <2>1. p \in Seq(FileName)
    BY <1>1 DEF Path
  <2> QED BY <1>1, <2>1, FrontIs, SubSeqFull DEF Path, Top
<1> HIDE DEF d
<1>3. ASSUME Canonical(p), ~Is(p, "dir")
      PROVE  /\ p \in DOMAIN tree /\ EvalSymlinks(p) = p /\ Is(p, "file") /\ Is(d, "dir")
             /\ EvalSymlinks(d) = d
  <2>1. p \in DOMAIN tree /\ ~Is(p, "link")
    BY <1>1, <1>2, <1>3, HereIfCanonical
  <2>2. Is(p, "file")
    BY <1>1, <1>3, <2>1, EntryIs DEF Is
  <2>3. d \in DOMAIN tree /\ tree[d] = Dir
    <3>1. Len(p) - 1 \in 0..(Len(p) - 1)
      BY <1>1
    <3> QED BY <1>1, <1>2, <2>1, <3>1 DEF Grown
  <2>4. Is(d, "dir") /\ tree[d].type # "link"
    BY <2>3 DEF Is, Dir
  <2>5. EvalSymlinks(d) = d
    BY <1>1, <1>2, <2>3, <2>4, CanonicalHere, EvalCanonical
  <2> QED BY <1>1, <1>3, <2>1, <2>2, <2>4, <2>5, EvalCanonical
<1>4. ASSUME NEW k \in Nat, Behind(p, k)
      PROVE  /\ p \notin DOMAIN tree /\ ~Canonical(p) /\ EvalSymlinks(p) = NoPath
             /\ Is(EvalSymlinks(d), "dir") <=> Is(d, "dir")
  <2>1. k \in 1..(Len(p) - 1) /\ Canonical(Top(p, k)) /\ Top(p, k + 1) \notin DOMAIN tree
    BY <1>4 DEF Behind
  <2>2. k + 1 \in 0..Len(p) /\ k + 1 \in 1..Len(p) /\ (k + 1) - 1 = k
    BY <1>1, <2>1
  <2>3. p \notin DOMAIN tree
    BY <1>1, <2>1, <2>2, NotThere
  <2>4. EvalSymlinks(p) = NoPath
    BY <1>1, <2>1, <2>2, EvalMissing
  <2>5. ~Canonical(p)
    BY <2>1, <2>2 DEF Canonical, Stops
  <2>6. CASE k = Len(p) - 1
    <3>1. Canonical(d)
      BY <1>2, <2>1, <2>6
    <3>2. EvalSymlinks(d) = d
      BY <1>1, <1>2, <3>1, EvalCanonical
    <3> QED BY <2>3, <2>4, <2>5, <3>2
  <2>7. CASE k # Len(p) - 1
    <3>1. k + 1 \in 0..Len(d) /\ k + 1 \in 1..Len(d) /\ k \in 0..(Len(p) - 1) /\ k + 1 \in 0..(Len(p) - 1)
          /\ Len(p) - 1 \in 0..Len(p)
      BY <1>1, <1>2, <2>1, <2>7
    <3>2. Top(d, k) = Top(p, k) /\ Top(d, k + 1) = Top(p, k + 1)
      BY <1>1, <1>2, <3>1, TopOfTop DEF Path
    <3>3. d \notin DOMAIN tree
      BY <1>1, <1>2, <2>1, <3>1, <3>2, NotThere
    <3>4. EvalSymlinks(d) = NoPath
      <4>1. Canonical(Top(d, (k + 1) - 1)) /\ Top(d, k + 1) \notin DOMAIN tree
        BY <2>1, <2>2, <3>2
      <4> QED BY <1>1, <1>2, <3>1, <4>1, EvalMissing
    <3>5. ~Is(NoPath, "dir") /\ ~Is(d, "dir")
      BY <1>1, <3>3 DEF Is
    <3> QED BY <2>3, <2>4, <2>5, <3>4, <3>5
  <2> QED BY <2>6, <2>7
<1>5. CASE Canonical(p) /\ ~Is(p, "dir")
  BY <1>3, <1>5 DEF d
<1>6. CASE \E k \in Nat : Behind(p, k)
  <2>1. /\ p \notin DOMAIN tree /\ ~Canonical(p) /\ EvalSymlinks(p) = NoPath
        /\ Is(EvalSymlinks(d), "dir") <=> Is(d, "dir")
    BY <1>4, <1>6
  <2>2. ~Is(EvalSymlinks(p), "file")
    BY <1>1, <2>1 DEF Is
  <2> QED BY <2>1, <2>2 DEF d
<1> QED BY <1>5, <1>6 DEF Settled

(* A single name needs no directory made. *)
LEMMA OneName ==
  ASSUME TreeInv, NEW rel \in Path, Len(rel) = 1, NEW p, p = resolveForWrite(rel), p # NoPath
  PROVE  Is(Front(p), "dir")
<1> DEFINE full == Join(Home, rel)
<1>1. EvalSymlinks(Root) = Home /\ Canonical(Home) /\ Grown(tree) /\ Home \in Path /\ Is(Home, "dir")
  BY EvalRoot, HomeIs DEF TreeInv, Is, Dir
<1>2. p = Restored(full) /\ Known(full) # NoPath
  BY <1>1 DEF resolveForWrite
<1>3. full \in Path /\ (full = Front(Home) \/ full = Append(Home, rel[1]))
  <2>1. PICK u \in [0..Len(rel) -> Path] :
          /\ full = u[Len(rel)] /\ u[0] = Home
          /\ \A n \in 1..Len(rel) : u[n] = IF rel[n] = ".." THEN Front(u[n - 1]) ELSE Append(u[n - 1], rel[n])
    BY <1>1, JoinIs
  <2> HIDE DEF full
  <2>2. u[1] = IF rel[1] = ".." THEN Front(u[1 - 1]) ELSE Append(u[1 - 1], rel[1])
    BY <2>1
  <2>3. 1 - 1 = 0 /\ full \in Path /\ full = u[1]
    BY <2>1
  <2> QED BY <2>1, <2>2, <2>3
<1> HIDE DEF full
<1>4. /\ Known(full) \in Path /\ Canonical(Known(full)) /\ p \in Path
      /\ Len(p) = Len(Known(full)) + (Len(full) - Existing(full)) /\ Existing(full) \in 0..Len(full)
      /\ Top(p, Len(Known(full))) = Known(full)
  BY <1>2, <1>3, RestoredIs
<1>5. Len(p) \in Nat /\ Len(full) \in Nat /\ Len(Known(full)) \in Nat /\ Top(p, Len(p)) = p
  <2>1. p \in Seq(FileName) /\ full \in Seq(FileName) /\ Known(full) \in Seq(FileName)
    BY <1>3, <1>4 DEF Path
  <2> QED BY <2>1, SubSeqFull DEF Top
<1>6. Settled(p)
  BY ResolvedIsSettled
<1>7. CASE Existing(full) = Len(full)
  <2>1. Canonical(p)
    BY <1>4, <1>5, <1>7
  <2> QED BY <1>6, <2>1, SettledEval
<1>8. CASE Existing(full) # Len(full)
  <2>1. Home \in Seq(FileName) /\ Len(Home) = 1 /\ rel[1] \in FileName /\ Home # <<>>
    BY HomeIs DEF Path
  <2>2. Len(Front(Home)) = 0 /\ Front(Home) \in Path /\ Front(Home) = Top(Home, 0)
    <3>1. 1 - 1 = 0
      OBVIOUS
    <3> QED BY <2>1, <3>1, FrontIs DEF Path
  <2>3. Existing(full) # Len(full) => Len(full) # 0
    BY <1>4, <1>5
  <2>4. full = Append(Home, rel[1])
    BY <1>3, <1>8, <2>2, <2>3
  <2>5. Len(full) = 2 /\ Top(full, 1) = Home
    <3>1. Len(full) = 2 /\ full[1] = Home[1]
      <4>1. PICK h \in Seq(FileName), x \in FileName : h = Home /\ x = rel[1]
        BY <2>1
      <4>2. Len(Append(h, x)) = Len(h) + 1 /\ \A i \in 1..Len(h) : Append(h, x)[i] = h[i]
        BY <4>1, AppendProperties
      <4> QED BY <2>1, <2>4, <4>1, <4>2
    <3>2. Top(full, 1) \in Path /\ Len(Top(full, 1)) = 1 /\ Top(full, 1)[1] = full[1]
      <4>1. 1 \in 0..Len(full) /\ full \in Seq(FileName) /\ 1 \in 1..1
        BY <1>3, <3>1 DEF Path
      <4> QED BY <4>1, TopIs DEF Path
    <3>3. Top(full, 1) \in Seq(FileName) /\ \A i \in 1..1 : Top(full, 1)[i] = Home[i]
      BY <3>1, <3>2 DEF Path
    <3> QED BY <2>1, <3>1, <3>2, <3>3, SeqEqual
  <2>6. Lexists(Home)
    <3>1. Canonical(Front(Home))
      <4>1. 0 \in 0..Len(Home)
        BY <2>1
      <4> QED BY <1>1, <2>2, <4>1, CanonicalTop
    <3>2. Place(Home) = Home
      BY <1>1, <2>1, <3>1, PlaceIs
    <3> QED BY <3>2 DEF Lexists, TreeInv
  <2>7. Existing(full) = 1
    <3>1. \A n \in 0..Len(full) : n > Existing(full) => ~Lexists(Top(full, n))
      BY <1>3, ExistingIs
    <3>2. Existing(full) # 0
      <4>1. Existing(full) = 0 => ~Lexists(Top(full, 1))
        BY <2>5, <3>1
      <4> QED BY <2>5, <2>6, <4>1
    <3> QED BY <1>4, <1>8, <2>5, <3>2
  <2>8. Known(full) = Home
    BY <1>1, <2>5, <2>7, EvalCanonical DEF Known
  <2>9. Len(p) = 2 /\ Top(p, 1) = Home
    <3>1. Len(Known(full)) = 1 /\ Len(full) = 2 /\ Existing(full) = 1
      BY <2>1, <2>5, <2>7, <2>8
    <3> QED BY <1>4, <2>8, <3>1
  <2>10. Front(p) = Home
    <3>1. p \in Seq(FileName) /\ p # <<>> /\ Len(p) - 1 = 1
      <4>1. p # <<>>
        BY <1>6, SettledIs
      <4>2. p \in Seq(FileName)
        BY <1>4 DEF Path
      <4>3. \A n \in Int : n = 2 => n - 1 = 1
        OBVIOUS
      <4> QED BY <2>9, <4>1, <4>2, <4>3
    <3> QED BY <2>9, <3>1, FrontIs
  <2> QED BY <1>1, <2>10
<1> QED BY <1>7, <1>8

(* What is shown of a write is what is there. *)
LEMMA ShownIs ==
  ASSUME TreeInv, NEW rel \in Path, rel # <<>>, NEW c,
         NEW p, p = resolveForWrite(rel), p # NoPath, NEW shown, shown = writePreview(rel, c)
  PROVE  /\ shown.says \in {"new", "same", "diff"} /\ shown.at = p
         /\ shown.says # "new" => Is(p, "file") /\ shown.was = tree[p].content /\ Is(Front(p), "dir")
         /\ shown.says = "new" => p \notin DOMAIN tree
         /\ shown.says = "new" => (shown.makes <=> ~Is(Front(p), "dir"))
<1>1. /\ p \in DOMAIN tree => EvalSymlinks(p) = p /\ Is(p, "file") /\ Is(Front(p), "dir")
      /\ p \notin DOMAIN tree => ~Is(EvalSymlinks(p), "file")
      /\ Is(EvalSymlinks(Front(p)), "dir") <=> Is(Front(p), "dir")
  BY ResolvedIsSettled, SettledEval
<1>2. Len(rel) > 1 \/ Is(Front(p), "dir")
  <2>1. Len(rel) = 1 \/ Len(rel) > 1
    <3>1. rel \in Seq(FileName)
      BY DEF Path
    <3>2. Len(rel) \in Nat \ {0}
      BY <3>1, EmptySeq
    <3>3. \A n \in Nat \ {0} : n = 1 \/ n > 1
      OBVIOUS
    <3> QED BY <3>2, <3>3
  <2> QED BY <2>1, OneName
<1>3. CASE p \in DOMAIN tree
  <2>1. shown = [says |-> IF tree[p].content = c THEN "same" ELSE "diff", at |-> p, was |-> tree[p].content]
    BY <1>1, <1>3 DEF writePreview
  <2> QED BY <1>1, <1>3, <2>1
<1>4. CASE p \notin DOMAIN tree
  <2>1. PICK makes : makes = (Len(rel) > 1 /\ ~Is(EvalSymlinks(Front(p)), "dir"))
    OBVIOUS
  <2>2. shown = [says |-> "new", at |-> p, makes |-> makes]
    BY <1>1, <1>4, <2>1 DEF writePreview
  <2>3. makes <=> ~Is(Front(p), "dir")
    BY <1>1, <1>2, <2>1
  <2> QED BY <1>4, <2>2, <2>3
<1> QED BY <1>3, <1>4

(* In a tree that is the same, everything resolves as it did. *)
LEMMA SameEval ==
  ASSUME tree' = tree
  PROVE  \A p : EvalSymlinks(p)' = EvalSymlinks(p)
  BY DEF EvalSymlinks, Follow, Canonical, Stops, Is

(* as much of a path exists, *)
LEMMA SameExisting ==
  ASSUME tree' = tree
  PROVE  \A p : Existing(p)' = Existing(p)
<1> TAKE p
<1>1. \A n : Lexists(Top(p, n))' = Lexists(Top(p, n))
  BY SameEval DEF Lexists, Place
<1>2. {n \in 0..Len(p) : Lexists(Top(p, n))}' = {n \in 0..Len(p) : Lexists(Top(p, n))}
  BY <1>1
<1> QED BY <1>2 DEF Existing

(* what is missing is put back to the same end, *)
LEMMA SameRestored ==
  ASSUME tree' = tree
  PROVE  \A p : Known(p)' = Known(p) /\ Restored(p)' = Restored(p)
  BY SameEval, SameExisting DEF Known, Restored

(* a write is resolved to the same path, *)
LEMMA SameResolved ==
  ASSUME tree' = tree, NEW CONSTANT rel
  PROVE  resolveForWrite(rel)' = resolveForWrite(rel)
  BY SameEval, SameRestored DEF resolveForWrite, Is

(* and shown to be the same. *)
LEMMA SamePreview ==
  ASSUME tree' = tree, NEW CONSTANT rel, NEW CONSTANT c
  PROVE  writePreview(rel, c)' = writePreview(rel, c)
  BY SameEval, SameResolved DEF writePreview, Is

(* While nobody has changed the tree, what was shown of a write is what the   *)
(* write would show again; once its directories are made, it is what will be  *)
(* there.                                                                     *)
AsShown(p, shown) ==
  /\ shown.says \in {"new", "same", "diff"} /\ shown.at = p /\ p \notin touched
  /\ shown.says = "new" => p \notin DOMAIN tree /\ (touched # {} <=> shown.makes)
  /\ shown.says # "new" => Is(p, "file") /\ tree[p].content = shown.was /\ touched = {}

ShownInv ==
  running.op = "write" /\ moved = {} =>
    /\ running.stage # "made" =>
         touched = {} /\ running.rel # <<>> /\ running.preview = writePreview(running.rel, running.content)
    /\ running.stage = "resolved" => running.target = resolveForWrite(running.rel)
    /\ running.stage = "made" => AsShown(running.target, running.preview)

(* The inductive invariant of what is shown, beside that of confinement. *)
AsShownInv == ShownInv /\ WrittenAsShown

(* What is no write promises nothing of one. *)
LEMMA NoWrite ==
  ASSUME running'.op # "write", answer'.op # "write"
  PROVE  AsShownInv'
  BY DEF AsShownInv, ShownInv, WrittenAsShown

(* What is shown when a write is asked for is what would be shown. *)
LEMMA AskKeeps ==
  ASSUME NEW rel \in Rel \ {<<>>}, NEW c \in Content, AskWrite(rel, c)
  PROVE  AsShownInv'
<1>1. PICK shown : shown = writePreview(rel, c)
  OBVIOUS
<1>2. running' = [op |-> "write", stage |-> "asked", rel |-> rel, content |-> c, preview |-> shown, target |-> NoPath]
      /\ answer' = NoAnswer /\ touched' = {} /\ tree' = tree
  BY <1>1 DEF AskWrite, Start
<1>3. shown = writePreview(rel, c)'
  BY <1>1, <1>2, SamePreview
<1>4. /\ running'.rel = rel /\ running'.content = c /\ running'.stage = "asked" /\ running'.preview = shown
  BY <1>2
<1>5. ShownInv'
  BY <1>2, <1>3, <1>4 DEF ShownInv
<1>6. WrittenAsShown'
  BY <1>2 DEF WrittenAsShown, NoAnswer
<1> QED BY <1>5, <1>6 DEF AsShownInv

(* A path that was shown is the one resolved; one that is refused was shown   *)
(* refused.                                                                   *)
LEMMA ResolveKeeps ==
  ASSUME FilesInv, AsShownInv, Resolve
  PROVE  AsShownInv'
<1>0. PICK rel, c, shown, target :
        /\ rel = running.rel /\ c = running.content /\ shown = running.preview
        /\ target = resolveForWrite(rel)
  OBVIOUS
<1>1. /\ running.op = "write" /\ running.stage = "asked"
      /\ tree' = tree /\ touched' = touched /\ moved' = moved /\ answer = NoAnswer
  BY SoFar DEF Resolve
<1>2. moved = {} => touched = {} /\ rel # <<>> /\ shown = writePreview(rel, c)
  BY <1>0, <1>1 DEF AsShownInv, ShownInv
<1>3. CASE target = NoPath
  <2>1. running' = Idle /\ answer' = [op |-> "write", ok |-> FALSE, call |-> running]
    BY <1>0, <1>3 DEF Resolve, Done
  <2>2. moved = {} => shown.says = "refused"
    <3>1. writePreview(rel, c) = [says |-> "refused"]
      BY <1>0, <1>3 DEF writePreview
    <3> QED BY <1>2, <3>1
  <2>3. ShownInv'
    BY <2>1 DEF ShownInv, Idle
  <2>4. answer'.ok = FALSE /\ answer'.call.preview = shown
    BY <1>0, <2>1
  <2>5. WrittenAsShown'
    BY <1>1, <2>2, <2>4 DEF WrittenAsShown
  <2> QED BY <2>3, <2>5 DEF AsShownInv
<1>4. CASE target # NoPath
  <2>1. running' = [running EXCEPT !.stage = "resolved", !.target = target] /\ answer' = NoAnswer
    BY <1>0, <1>1, <1>4 DEF Resolve
  <2>2. running \in [op : {"write"}, stage : {"asked"}, rel : Rel, content : Content, preview : PreviewType,
                     target : {NoPath}]
    BY <1>1 DEF FilesInv, CallType, Idle
  <2>3. /\ running'.rel = rel /\ running'.content = c /\ running'.preview = shown
        /\ running'.stage = "resolved" /\ running'.target = target
    BY <1>0, <2>1, <2>2
  <2>4. target = resolveForWrite(rel)' /\ (moved = {} => shown = writePreview(rel, c)')
    BY <1>0, <1>1, <1>2, SameResolved, SamePreview
  <2>5. ShownInv'
    BY <1>1, <1>2, <2>3, <2>4 DEF ShownInv
  <2>6. WrittenAsShown'
    BY <2>1 DEF WrittenAsShown, NoAnswer
  <2> QED BY <2>5, <2>6 DEF AsShownInv
<1> QED BY <1>3, <1>4

(* Directories are made when it was shown that they are, and only what was    *)
(* shown to need them fails.                                                  *)
LEMMA MkdirKeeps ==
  ASSUME FilesInv, AsShownInv, MkdirAll
  PROVE  AsShownInv'
<1>0. PICK rel, c, shown, p, made :
        /\ rel = running.rel /\ c = running.content /\ shown = running.preview
        /\ p = running.target /\ made = Missing(Front(p))
  OBVIOUS
<1>1. /\ running.op = "write" /\ running.stage = "resolved" /\ moved' = moved /\ answer = NoAnswer
  BY SoFar DEF MkdirAll
<1>2. running \in [op : {"write"}, stage : {"resolved", "made"}, rel : Rel, content : Content,
                   preview : PreviewType, target : Path]
  BY <1>1 DEF FilesInv, CallType, Idle
<1>3. ASSUME moved = {}
      PROVE  /\ touched = {} /\ Settled(p) /\ shown.says \in {"new", "same", "diff"} /\ shown.at = p
             /\ shown.says # "new" => Is(p, "file") /\ shown.was = tree[p].content /\ Is(Front(p), "dir")
             /\ shown.says = "new" => p \notin DOMAIN tree
             /\ shown.says = "new" => (shown.makes <=> ~Is(Front(p), "dir"))
  <2>1. touched = {} /\ rel # <<>> /\ shown = writePreview(rel, c) /\ p = resolveForWrite(rel)
    BY <1>0, <1>1, <1>3 DEF AsShownInv, ShownInv
  <2>2. Settled(p)
    BY <1>0, <1>1, <1>3 DEF FilesInv, CallInv
  <2>3. rel \in Path /\ p # NoPath /\ TreeInv
    <3>1. rel \in Rel /\ p \in Path
      BY <1>0, <1>2
    <3> QED BY <3>1, Nowhere, FileAssumption DEF Path, FilesInv
  <2> QED BY <2>1, <2>2, <2>3, ShownIs
<1>4. CASE ~Is(Known(Front(p)), "dir")
  <2>1. running' = Idle /\ answer' = [op |-> "write", ok |-> FALSE, call |-> running] /\ touched' = touched
    BY <1>0, <1>4 DEF MkdirAll, Done
  <2>2. ASSUME moved = {} PROVE shown.says = "new" /\ shown.makes
    <3>1. ~Is(Front(p), "dir")
      <4>1. Is(Front(p), "dir") => Canonical(Front(p)) /\ Front(p) \in Path /\ Known(Front(p)) = Front(p)
        <5>1. SUFFICES ASSUME Is(Front(p), "dir")
                       PROVE  Canonical(Front(p)) /\ Front(p) \in Path /\ Known(Front(p)) = Front(p)
          OBVIOUS
        <5>2. Grown(tree) /\ TreeInv /\ Front(p) \in Path
          BY <1>3, <2>2, SettledIs DEF FilesInv, TreeInv
        <5>3. Canonical(Front(p))
          BY <5>1, <5>2, CanonicalHere DEF Is
        <5>4. Len(Front(p)) \in Nat /\ Top(Front(p), Len(Front(p))) = Front(p)
          <6>1. Front(p) \in Seq(FileName)
            BY <5>2 DEF Path
          <6> QED BY <6>1, SubSeqFull DEF Top
        <5>5. \E k \in 1..Len(Front(p)) : Known(Front(p)) = Top(p, k)
          BY <1>3, <2>2, <5>2, SettledIs
        <5>6. Len(Front(p)) \in 1..Len(Front(p)) /\ ~(Len(Front(p)) < Len(Front(p)))
          BY <5>4, <5>5
        <5>7. Known(Front(p)) = Top(Front(p), Len(Front(p)))
          BY <5>2, <5>3, <5>4, <5>6, KnownIs
        <5> QED BY <5>2, <5>3, <5>4, <5>7
      <4> QED BY <1>4, <4>1
    <3> QED BY <1>3, <2>2, <3>1
  <2>3. ShownInv'
    BY <2>1 DEF ShownInv, Idle
  <2>4. answer'.ok = FALSE /\ answer'.call.preview = shown
    BY <1>0, <2>1
  <2>5. WrittenAsShown'
    BY <1>1, <2>2, <2>4 DEF WrittenAsShown
  <2> QED BY <2>3, <2>5 DEF AsShownInv
<1>5. CASE Is(Known(Front(p)), "dir")
  <2>1. /\ tree' = Entered(tree, made, Dir) /\ touched' = touched \cup made
        /\ running' = [running EXCEPT !.stage = "made"] /\ answer' = NoAnswer
    BY <1>0, <1>1, <1>5 DEF MkdirAll
  <2>2. running'.stage = "made" /\ running'.target = p /\ running'.preview = shown
    BY <1>0, <1>2, <2>1
  <2>3. ASSUME moved = {} PROVE AsShown(p, shown)'
    <3>1. p \notin made /\ (Is(Front(p), "dir") <=> made = {})
      BY <1>0, <1>3, <1>5, <2>1, <2>3, MakesReady DEF FilesInv
    <3>2. touched' = made /\ (p \in DOMAIN tree' <=> p \in DOMAIN tree) /\ (p \in DOMAIN tree => tree'[p] = tree[p])
      BY <1>3, <2>1, <2>3, <3>1 DEF Entered
    <3>3. CASE shown.says = "new"
      BY <1>3, <2>3, <3>1, <3>2, <3>3 DEF AsShown
    <3>4. CASE shown.says # "new"
      BY <1>3, <2>3, <3>1, <3>2, <3>4 DEF AsShown, Is
    <3> QED BY <3>3, <3>4
  <2>4. ShownInv'
    BY <1>1, <2>2, <2>3 DEF ShownInv
  <2>5. WrittenAsShown'
    BY <2>1 DEF WrittenAsShown, NoAnswer
  <2> QED BY <2>4, <2>5 DEF AsShownInv
<1> QED BY <1>4, <1>5

(* What is written is the file that was shown, over the contents that were    *)
(* shown.                                                                     *)
LEMMA WriteKeeps ==
  ASSUME FilesInv, AsShownInv, Write
  PROVE  AsShownInv'
<1>0. PICK p, shown, content : p = running.target /\ shown = running.preview /\ content = running.content
  OBVIOUS
<1>1. running.op = "write" /\ running.stage = "made" /\ moved' = moved /\ running' = Idle
  BY DEF Write, Done
<1>2. ShownInv'
  BY <1>1 DEF ShownInv, Idle
<1>3. ASSUME moved = {}
      PROVE  /\ answer'.ok = TRUE /\ answer'.call.preview = shown
             /\ shown.says # "refused" /\ shown.at \in touched'
             /\ answer'.replaced = IF shown.says = "new" THEN {} ELSE {shown.was}
             /\ touched' # {shown.at} <=> (shown.says = "new" /\ shown.makes)
  <2>1. AsShown(p, shown) /\ Ready(p) /\ Grown(tree)
    BY <1>0, <1>1, <1>3 DEF AsShownInv, ShownInv, FilesInv, CallInv, TreeInv
  <2>2. CreatedAt(p) = p /\ p # NoPath /\ ~Is(p, "dir")
    <3>1. p \in Path
      BY <2>1 DEF Ready
    <3> QED BY <2>1, <3>1, CreatedReady, Nowhere DEF Ready
  <2>3. /\ answer' = [op |-> "write", ok |-> TRUE, call |-> running,
                      replaced |-> IF Is(p, "file") THEN {tree[p].content} ELSE {}]
        /\ touched' = touched \cup {p}
    BY <1>0, <2>2 DEF Write, Done
  <2>4. CASE shown.says = "new"
    <3>1. ~Is(p, "file")
      BY <2>1, <2>4 DEF AsShown, Is
    <3> QED BY <1>0, <2>1, <2>3, <2>4, <3>1 DEF AsShown
  <2>5. CASE shown.says # "new"
    BY <1>0, <2>1, <2>3, <2>5 DEF AsShown
  <2> QED BY <2>4, <2>5
<1>4. WrittenAsShown'
  BY <1>1, <1>3 DEF WrittenAsShown
<1> QED BY <1>2, <1>4 DEF AsShownInv

(* Every step keeps it. *)
LEMMA KeptStep == FilesInv /\ AsShownInv /\ [FileNext]_fileVars => AsShownInv'
<1> SUFFICES ASSUME FilesInv, AsShownInv, [FileNext]_fileVars PROVE AsShownInv'
  OBVIOUS
<1>1. CASE \E rel \in Rel \ {<<>>} : \E c \in Content : AskWrite(rel, c)
  BY <1>1, AskKeeps
<1>2. CASE \/ \E rel \in Rel \ {<<>>} : \E r \in Ranges : ReadFile(rel, r[1], r[2])
           \/ \E rel \in Rel : ListDir(rel) \/ Search(rel)
           \/ \E names \in {{"a"}, {"a", "b"}} : Glob(names)
           \/ Decline \/ Open \/ ReadDir
  <2>1. CASE \/ \E rel \in Rel \ {<<>>} : \E r \in Ranges : ReadFile(rel, r[1], r[2])
             \/ \E rel \in Rel : ListDir(rel)
    BY <2>1, NoWrite DEF ReadFile, ListDir, Start, NoAnswer
  <2>2. CASE \/ \E rel \in Rel : Search(rel)
             \/ \E names \in {{"a"}, {"a", "b"}} : Glob(names)
    <3>1. running' = Idle /\ answer'.op \in {"error", "search", "glob"}
      BY <2>2 DEF Search, Glob
    <3> QED BY <3>1, NoWrite DEF Idle
  <2>3. CASE Decline \/ Open \/ ReadDir
    <3>1. running' = Idle /\ answer'.op \in {"declined", "error", "read", "list"}
      BY <2>3 DEF Decline, Open, ReadDir, Fails, Done
    <3> QED BY <3>1, NoWrite DEF Idle
  <2> QED BY <1>2, <2>1, <2>2, <2>3
<1>3. CASE Resolve \/ MkdirAll \/ Write
  BY <1>3, ResolveKeeps, MkdirKeeps, WriteKeeps
<1>4. CASE \E p \in Spot :
             \/ Vanish(p)
             \/ \E e \in {Dir} \cup {Plain(c) : c \in Content} \cup {Link(g) : g \in Goal} : Put(p, e)
  <2>1. /\ running' = running /\ answer' = answer /\ touched' = touched
        /\ moved' = IF running = Idle THEN moved ELSE moved \cup {running.stage}
    BY <1>4 DEF Vanish, Put, Becomes
  <2>2. CASE running = Idle
    BY <2>1, <2>2 DEF AsShownInv, ShownInv, WrittenAsShown, Idle
  <2>3. CASE running # Idle
    <3>1. moved' # {}
      BY <2>1, <2>3
    <3> QED BY <3>1 DEF AsShownInv, ShownInv, WrittenAsShown
  <2> QED BY <2>2, <2>3
<1>5. CASE UNCHANGED fileVars
  <2>1. tree' = tree /\ running' = running /\ answer' = answer /\ touched' = touched /\ moved' = moved
    BY <1>5 DEF fileVars
  <2>2. PICK rel, c : rel = running.rel /\ c = running.content
    OBVIOUS
  <2>3. resolveForWrite(rel)' = resolveForWrite(rel) /\ writePreview(rel, c)' = writePreview(rel, c)
    BY <2>1, SameResolved, SamePreview
  <2>4. AsShown(running.target, running.preview) => AsShown(running.target, running.preview)'
    BY <2>1 DEF AsShown, Is
  <2>5. ShownInv'
    BY <2>1, <2>2, <2>3, <2>4 DEF AsShownInv, ShownInv
  <2>6. WrittenAsShown'
    BY <2>1 DEF AsShownInv, WrittenAsShown
  <2> QED BY <2>5, <2>6 DEF AsShownInv
<1> QED BY <1>1, <1>2, <1>3, <1>4, <1>5 DEF FileNext

(* A write that was approved, in a tree nobody has changed since it was       *)
(* shown, is the write that was shown: the file, the contents the diff was    *)
(* against and the directories that are made (writePreview, WriteFile).       *)
THEOREM WritesAreAsShown == FileSpec => []WrittenAsShown
<1>1. FileInit => AsShownInv
  BY DEF FileInit, AsShownInv, ShownInv, WrittenAsShown, Idle, NoAnswer
<1>2. AsShownInv => WrittenAsShown
  BY DEF AsShownInv
<1> QED BY <1>1, <1>2, FilesInit, FilesStep, KeptStep, PTL DEF FileSpec
=============================================================================
