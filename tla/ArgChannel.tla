----------------------------- MODULE ArgChannel -----------------------------
(***************************************************************************)
(* What a call through dyncall promises, whatever the calling convention:  *)
(* the arguments that were bound reach the callee, every one with its own  *)
(* value and in the order of the signature, before the call returns.       *)
(* CallBridge implements this specification.                               *)
(***************************************************************************)
EXTENDS Naturals, Sequences

CONSTANT Types   \* the types of arguments

VARIABLES
    busy,   \* is the callee running?
    sent,   \* the arguments bound so far
    got     \* the arguments that the callee has taken

vars == <<busy, sent, got>>

Init == busy = FALSE /\ sent = <<>> /\ got = <<>>

Clear == ~busy /\ sent' = <<>> /\ UNCHANGED <<busy, got>>

Bind(t) == ~busy /\ sent' = Append(sent, t) /\ UNCHANGED <<busy, got>>

Call == ~busy /\ busy' = TRUE /\ UNCHANGED <<sent, got>>

Take ==
    /\ busy /\ Len(got) < Len(sent)
    /\ got' = Append(got, sent[Len(got) + 1])
    /\ UNCHANGED <<busy, sent>>

Return == busy /\ got = sent /\ busy' = FALSE /\ got' = <<>> /\ sent' = <<>>

Next == Clear \/ (\E t \in Types : Bind(t)) \/ Call \/ Take \/ Return

Spec == Init /\ [][Next]_vars
=============================================================================
