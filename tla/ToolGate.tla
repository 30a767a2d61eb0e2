------------------------------ MODULE ToolGate ------------------------------
(***************************************************************************)
(* The tools a shell offers and the gate in front of them: the Registry of *)
(* pkg/agentloop/tools.go, the Policy and its rules of guard.go, and the   *)
(* tools of MCP servers (remote.go), whose effect is classified by what    *)
(* the server claims and how far the operator trusts it.                   *)
(*                                                                         *)
(* Names are qualified names, so a remote tool never has a local one's.    *)
(* Arguments, descriptions, reasons, results and the order the tools are   *)
(* listed in are left out; of a schema only whether it can be sent to a    *)
(* model is kept.                                                          *)
(***************************************************************************)
EXTENDS Integers, Sequences, SequencesExt, FiniteSetsExt

CONSTANTS LocalName,   \* qualified names of local tools
          RemoteName,  \* qualified names of MCP tools
          NoName,      \* no tool
          LocalTool,   \* the tools the shell may register
          Rules,       \* the rules its policies are composed of
          MaxRules,    \* bound: rules in one policy
          MaxOffer     \* bound: tools a server offers at once

Name == LocalName \cup RemoteName
Effect == {"reads", "spends", "writes", "executes"}

(* Verdict: the order is that of the constants, strictest last. *)
Allow == 0
Ask   == 1
Deny  == 2
Verdict == {Allow, Ask, Deny}

(* A Tool: "" is an effect that was not declared. *)
Tool == [name : Name, effect : Effect \cup {""}]

(* A Rule judges one effect or one tool and allows everything else. *)
Rule == [effect : Effect, verdict : Verdict] \cup [tool : Name, verdict : Verdict]

ASSUME GateAssumption ==
  /\ NoName \notin Name /\ LocalName \cap RemoteName = {}
  /\ LocalTool \subseteq Tool /\ \A t \in LocalTool : t.name \in LocalName
  /\ Rules \subseteq Rule
  /\ MaxRules \in Nat /\ MaxOffer \in Nat

VARIABLES
  tools,      \* Registry.tools: the effect each registered name declared
  policy,     \* Registry.policy: its rules
  approver,   \* Registry.approver
  call,       \* the tool Run was called with
  phase,      \* where Run is
  consent,    \* whether the approver said yes to this call
  announced,  \* history: sendable tools servers have offered
  vouched     \* history: of these, read-only ones of a trusted server

vars == <<tools, policy, approver, call, phase, consent, announced, vouched>>

Approver == {"DenyAll", "AllowAll", "person"}

-----------------------------------------------------------------------------
(* The policy *)

ForEffect(e, v) == [effect |-> e, verdict |-> v]
ForTool(n, v)   == [tool |-> n, verdict |-> v]

ReadOnly == <<ForEffect("reads", Allow), ForEffect("writes", Deny), ForEffect("executes", Deny)>>

(* What one rule says of a request. *)
Judge(rule, req) ==
  IF "effect" \in DOMAIN rule
    THEN IF rule.effect = req.effect THEN rule.verdict ELSE Allow
    ELSE IF rule.tool = req.name THEN rule.verdict ELSE Allow

(* Mutants of Decide: the first rule, or the last, has the say. *)
DecideFirst(rules, req) == IF rules = <<>> THEN Deny ELSE Judge(Head(rules), req)
DecideLast(rules, req)  == IF rules = <<>> THEN Deny ELSE Judge(Last(rules), req)

(* The strictest verdict any rule reached; no rules deny. *)
Decide(rules, req) ==
  IF rules = <<>> THEN Deny ELSE Max({Judge(rules[i], req) : i \in 1..Len(rules)})

-----------------------------------------------------------------------------
(* The registry *)

(* Mutant of Add: the last one wins. *)
AddOver(reg, t) ==
  IF t.effect = "" THEN reg
  ELSE [n \in DOMAIN reg \cup {t.name} |-> IF n = t.name THEN t.effect ELSE reg[n]]

(* Registry.Add: no undeclared effect, no name twice. *)
Add(reg, t) ==
  IF t.effect = "" \/ t.name \in DOMAIN reg THEN reg
  ELSE [n \in DOMAIN reg \cup {t.name} |-> IF n = t.name THEN t.effect ELSE reg[n]]

(* What a server says of one of its tools.  sendable: AsTool and usableSchema *)
(* find nothing wrong with it.                                                *)
RemoteTool == [name : RemoteName, sendable : BOOLEAN, readOnly : BOOLEAN, destructive : BOOLEAN]

Trust == {"nothing", "hints"}

(* Mutant of Classify: a claim is believed. *)
ClassifyByClaim(rt, trust) ==
  IF rt.destructive THEN "executes" ELSE IF rt.readOnly THEN "reads" ELSE "writes"

Classify(rt, trust) ==
  IF rt.destructive THEN "executes"
  ELSE IF rt.readOnly /\ trust = "hints" THEN "reads" ELSE "writes"

AsTool(rt, trust) == [name |-> rt.name, effect |-> Classify(rt, trust)]

(* Mutant of WithRemote: one bad tool refuses the whole server. *)
WithRemoteAllOrNothing(reg, rts, trust) ==
  IF \E i \in 1..Len(rts) : ~rts[i].sendable THEN reg
  ELSE FoldLeft(LAMBDA r, rt : Add(r, AsTool(rt, trust)), reg, rts)

(* AddRemote's loop: AsTool refuses what cannot be sent, Add a name that is   *)
(* taken, each for that one tool, so the first sendable offer of each free    *)
(* name is registered.                                                        *)
WithRemote(reg, rts, trust) ==
  LET sent(n) == {i \in 1..Len(rts) : rts[i].sendable /\ rts[i].name = n}
      free == {n \in RemoteName \ DOMAIN reg : sent(n) # {}}
  IN  [n \in DOMAIN reg \cup free |->
         IF n \in DOMAIN reg THEN reg[n] ELSE AsTool(rts[Min(sent(n))], trust).effect]

-----------------------------------------------------------------------------

(* NewRegistry *)
Init ==
  /\ tools = <<>>
  /\ policy = ReadOnly /\ approver = "DenyAll"
  /\ call = NoName /\ phase = "idle" /\ consent = FALSE
  /\ announced = {} /\ vouched = {}

AddTool(t) ==
  /\ phase = "idle"
  /\ tools' = Add(tools, t)
  /\ UNCHANGED <<policy, approver, call, phase, consent, announced, vouched>>

AddRemote(rts, trust) ==
  /\ phase = "idle"
  /\ tools' = WithRemote(tools, rts, trust)
  /\ LET sent == {rt \in ToSet(rts) : rt.sendable}
     IN  /\ announced' = announced \cup {rt.name : rt \in sent}
         /\ vouched' = vouched \cup
              {rt.name : rt \in {r \in sent : trust = "hints" /\ r.readOnly /\ ~r.destructive}}
  /\ UNCHANGED <<policy, approver, call, phase, consent>>

(* Govern: a nil policy or approver leaves the old one. *)
Govern(rules, a) ==
  /\ phase = "idle"
  /\ policy' \in {policy, rules} /\ approver' \in {approver, a}
  /\ UNCHANGED <<tools, call, phase, consent, announced, vouched>>

(* Policy.Add; the default policy is longer than MaxRules and grows by one. *)
AddRule(rule) ==
  /\ phase = "idle" /\ (Len(policy) < MaxRules \/ policy = ReadOnly)
  /\ policy' = Append(policy, rule)
  /\ UNCHANGED <<tools, approver, call, phase, consent, announced, vouched>>

-----------------------------------------------------------------------------
(* Registry.Run *)

Request(n) == [name |-> n, effect |-> tools[n]]

Enter(n, where) ==
  /\ call' = n
  /\ phase' = where
  /\ UNCHANGED <<tools, policy, approver, consent, announced, vouched>>

(* An unknown tool, a denied one, or one nobody is there to approve: the      *)
(* model is told, and nothing runs.                                           *)
Refuse(n) ==
  /\ phase = "idle"
  /\ \/ n \notin DOMAIN tools
     \/ n \in DOMAIN tools /\ Decide(policy, Request(n)) = Deny
     \/ n \in DOMAIN tools /\ Decide(policy, Request(n)) = Ask /\ approver = "DenyAll"
  /\ UNCHANGED vars

RunAllowed(n) ==
  /\ phase = "idle" /\ n \in DOMAIN tools
  /\ Decide(policy, Request(n)) = Allow
  /\ Enter(n, "running")

AskPerson(n) ==
  /\ phase = "idle" /\ n \in DOMAIN tools
  /\ Decide(policy, Request(n)) = Ask /\ approver # "DenyAll"
  /\ Enter(n, "asking")

Finish ==
  /\ call' = NoName /\ phase' = "idle" /\ consent' = FALSE
  /\ UNCHANGED <<tools, policy, approver, announced, vouched>>

Declined == phase = "asking" /\ approver = "person" /\ Finish

Approved ==
  /\ phase = "asking"
  /\ consent' = TRUE
  /\ phase' = "running"
  /\ UNCHANGED <<tools, policy, approver, call, announced, vouched>>

(* The tool returns, with or without an error. *)
Returns == phase = "running" /\ Finish

Next ==
  \/ \E t \in LocalTool : AddTool(t)
  \/ \E rts \in BoundedSeq(RemoteTool, MaxOffer), trust \in Trust : AddRemote(rts, trust)
  \/ \E rules \in BoundedSeq(Rules, MaxRules), a \in Approver : Govern(rules, a)
  \/ \E rule \in Rules : AddRule(rule)
  \/ \E n \in Name : Refuse(n) \/ RunAllowed(n) \/ AskPerson(n)
  \/ Declined \/ Approved \/ Returns

Spec == Init /\ [][Next]_vars

-----------------------------------------------------------------------------
(* Properties *)

(* No registration, of the shell or of a server, ever changes the effect a    *)
(* name is judged by, or makes a tool disappear (tools.go: "REFUSED RATHER    *)
(* THAN OVERWRITTEN").                                                        *)
NoShadowing ==
  [][\A n \in DOMAIN tools : n \in DOMAIN tools' /\ tools'[n] = tools[n]]_vars

(* A tool that runs was denied by no rule of the policy, and if one rule      *)
(* wanted somebody asked, somebody said yes, whatever the order of the rules  *)
(* and whoever set them (guard.go Decide, tools.go Run).                      *)
RanAsJudged ==
  phase = "running" =>
    /\ policy # <<>>
    /\ \A i \in 1..Len(policy) :
         /\ Judge(policy[i], Request(call)) # Deny
         /\ Judge(policy[i], Request(call)) = Ask => consent

(* One more rule never loosens a policy that has some (guard.go: "adding a    *)
(* rule can only ever tighten").                                              *)
AddingTightens ==
  policy # <<>> =>
    \A rule \in Rules, n \in DOMAIN tools :
      Decide(Append(policy, rule), Request(n)) >= Decide(policy, Request(n))

(* A remote tool counts as reading only if a server the operator trusts       *)
(* called it read-only and not destructive: what an untrusted server claims   *)
(* of a tool never lets it past (remote.go Classify).                         *)
ClaimsDoNotLoosen ==
  \A n \in DOMAIN tools \cap RemoteName : tools[n] = "reads" => n \in vouched

(* One bad tool costs one tool: every tool a server offered in a form that    *)
(* can be sent is there, whatever else was in the offer (remote.go AddRemote).*)
OneBadToolCostsOne == announced \subseteq DOMAIN tools

=============================================================================
