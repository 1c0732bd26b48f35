----------------------------- MODULE TokenFamily -----------------------------
(***************************************************************************)
(* What refresh-token rotation promises, whatever handlers keep it         *)
(* ("A session is a 'refresh token family'", schema.prisma:66 of           *)
(* auth-service; "Every refresh returns a brand new refresh token and      *)
(* marks the old one used", auth.service.ts:232): a family begins with one *)
(* token, and from then on a token is given for a token of the same family *)
(* only.  Families end whole and for good, and a spent token is never      *)
(* good again.                                                             *)
(*                                                                         *)
(* In a family that is contested, somebody being about to exchange one of  *)
(* its tokens when another comes to do so, a token may be taken twice.     *)
(***************************************************************************)
CONSTANTS Sessions, Tokens,
          Nobody        \* the family of a token that was not given yet

VARIABLES state,        \* "none", "open" or "revoked", of each family
          family,       \* the family of each token
          spent,        \* tokens that were exchanged or revoked
          contested     \* families refreshed twice at a time

vars == <<state, family, spent, contested>>

Init ==
  /\ state = [s \in Sessions |-> "none"]
  /\ family = [t \in Tokens |-> Nobody]
  /\ spent = {}
  /\ contested = {}

SignIn(s) ==
  /\ state[s] = "none"
  /\ state' = [state EXCEPT ![s] = "open"]
  /\ UNCHANGED <<family, spent, contested>>

give(t, s) == family[t] = Nobody /\ family' = [family EXCEPT ![t] = s]

First(t, s) ==
  /\ state[s] # "none"
  /\ \A u \in Tokens : family[u] # s
  /\ give(t, s)
  /\ UNCHANGED <<state, spent, contested>>

\* Token t for token u, which is spent by it.
Exchange(t, u) ==
  /\ family[u] \in Sessions
  /\ u \notin spent \/ family[u] \in contested \/ state[family[u]] = "revoked"
  /\ give(t, family[u])
  /\ spent' = spent \cup {u}
  /\ UNCHANGED <<state, contested>>

Contest(s) ==
  /\ contested' = contested \cup {s}
  /\ UNCHANGED <<state, family, spent>>

\* The families of S, with every token there is of them.
End(S) ==
  /\ \A s \in S : state[s] # "none"
  /\ state' = [s \in Sessions |-> IF s \in S THEN "revoked" ELSE state[s]]
  /\ spent' = spent \cup {t \in Tokens : family[t] \in S}
  /\ UNCHANGED <<family, contested>>

Next ==
  \/ \E s \in Sessions : SignIn(s) \/ Contest(s)
  \/ \E s \in Sessions, t \in Tokens : First(t, s)
  \/ \E t, u \in Tokens : Exchange(t, u)
  \/ \E S \in SUBSET Sessions : End(S)

Spec == Init /\ [][Next]_vars
=============================================================================
