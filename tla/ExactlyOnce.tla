----------------------------- MODULE ExactlyOnce -----------------------------
(***************************************************************************)
(* What the enrollment service promises about payment events               *)
(* (schema.prisma:85-87: "Every event handler writes here inside the same  *)
(* transaction as its side effect, so redelivery is a no-op"): a message   *)
(* is applied in one step, at most once, and that step both records it and *)
(* opens or closes the access it is about.  Support and free enrolment may *)
(* decide about access at any time without touching the record.            *)
(***************************************************************************)
EXTENDS Naturals, Sequences

CONSTANT Pairs

VARIABLES posted,     \* messages: [id, pair, opens]
          recorded,   \* ids of the messages already applied
          effects,    \* the ids whose effect was applied, in that order
          access      \* access[p]: may the user of p read the course of p

vars == <<posted, recorded, effects, access>>

Message == [id : Nat, pair : Pairs, opens : BOOLEAN]

Init ==
  /\ posted = {}
  /\ recorded = {}
  /\ effects = <<>>
  /\ access = [p \in Pairs |-> FALSE]

Post ==
  /\ posted \subseteq posted'
  /\ \A m \in posted' \ posted : m.id \notin recorded
  /\ UNCHANGED <<recorded, effects, access>>

Apply(m) ==
  /\ m \in posted
  /\ m.id \notin recorded
  /\ recorded' = recorded \cup {m.id}
  /\ effects' = Append(effects, m.id)
  /\ access' = [access EXCEPT ![m.pair] = m.opens]
  /\ UNCHANGED posted

Decide(p) ==
  /\ \E open \in BOOLEAN : access' = [access EXCEPT ![p] = open]
  /\ UNCHANGED <<posted, recorded, effects>>

Next ==
  \/ Post
  \/ \E m \in posted : Apply(m)
  \/ \E p \in Pairs : Decide(p)

Spec == Init /\ [][Next]_vars
=============================================================================
