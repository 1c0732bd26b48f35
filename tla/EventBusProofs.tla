---------------------------- MODULE EventBusProofs ----------------------------
(***************************************************************************)
(* What one call of publish does to the events of the bus: they stay well  *)
(* typed and uniquely numbered, and their number goes up by one.           *)
(***************************************************************************)
EXTENDS EventBus, FiniteSetTheorems, TLAPS

\* The envelopes of one kind about one order.
envelopes(name, o) == {e \in published : e.order = o /\ e.name = name}

LEMMA PublishTyped ==
  ASSUME BusTypeOK, NEW name \in EventName, NEW o \in Orders, publish(name, o)
  PROVE  BusTypeOK'
  BY DEF BusTypeOK, Envelope, publish

\* The id a call mints is new, and so the ids stay unique.
LEMMA PublishFresh ==
  ASSUME BusTypeOK, FreshIds, NEW name, NEW o, publish(name, o)
  PROVE  FreshIds' /\ \A e \in published : e.id # nextId
<1> DEFINE new == [id |-> nextId, name |-> name, order |-> o]
<1>1. published' = published \cup {new} /\ nextId' = nextId + 1
  BY DEF publish
<1>2. new.id = nextId /\ nextId \in Nat
  BY DEF BusTypeOK
<1>3. \A e \in published : e.id \in Nat /\ e.id < nextId
  BY DEF BusTypeOK, Envelope, FreshIds
<1> HIDE DEF new
<1>4. \A e \in published' : e.id < nextId'
  BY <1>1, <1>2, <1>3
<1>5. \A e, f \in published' : e.id = f.id => e = f
  BY <1>1, <1>2, <1>3 DEF FreshIds
<1>6. QED BY <1>2, <1>3, <1>4, <1>5 DEF FreshIds

\* One more envelope of its kind about its order, and no other.
LEMMA PublishCounts ==
  ASSUME BusTypeOK, FreshIds, IsFiniteSet(published),
         NEW name, NEW o, publish(name, o)
  PROVE  /\ IsFiniteSet(published')
         /\ Cardinality(envelopes(name, o)') = Cardinality(envelopes(name, o)) + 1
         /\ \A n, p : <<n, p>> # <<name, o>> => envelopes(n, p)' = envelopes(n, p)
<1> DEFINE new == [id |-> nextId, name |-> name, order |-> o]
<1>1. published' = published \cup {new}
  BY DEF publish
<1>2. new \notin published /\ new.name = name /\ new.order = o
  BY PublishFresh
<1> HIDE DEF new
<1>3. IsFiniteSet(published')
  BY <1>1, FS_AddElement
<1>4. envelopes(name, o)' = envelopes(name, o) \cup {new} /\ new \notin envelopes(name, o)
  BY <1>1, <1>2 DEF envelopes
<1>5. IsFiniteSet(envelopes(name, o))
  BY FS_Subset DEF envelopes
<1>6. Cardinality(envelopes(name, o)') = Cardinality(envelopes(name, o)) + 1
  BY <1>4, <1>5, FS_AddElement
<1>7. ASSUME NEW n, NEW p, <<n, p>> # <<name, o>>
      PROVE  envelopes(n, p)' = envelopes(n, p)
  BY <1>1, <1>2, <1>7 DEF envelopes
<1>8. QED BY <1>3, <1>6, <1>7
=============================================================================
