----------------------------- MODULE MCToolGate -----------------------------
(* Module ToolGate on a small instance: one local name that may be claimed    *)
(* by three different tools, two remote names, and rules that overlap.        *)
EXTENDS ToolGate

CONSTANTS l, r1, r2

MCLocalTool == {[name |-> l, effect |-> e] : e \in {"spends", "writes", ""}}

MCRules == {ForEffect("writes", Ask), ForEffect("reads", Allow), ForTool(r1, Deny)}
=============================================================================
