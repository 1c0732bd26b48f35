---------------------------- MODULE LearningProofs ----------------------------
(* What holds of a course and its learner for any number of lessons,       *)
(* requests, failures and deliveries.                                      *)
EXTENDS Learning, FiniteSetTheorems, SequenceTheorems, TLAPS

-----------------------------------------------------------------------------
(* Percentages                                                             *)

LEMMA PercentType == ASSUME NEW k \in Nat, NEW n \in Nat PROVE percentOf(k, n) \in Nat
<1>1. CASE n = 0
  BY <1>1 DEF percentOf
<1>2. CASE n > 0
  <2>1. 200 * k + n \in Nat /\ 2 * n \in Nat /\ 2 * n > 0
    BY <1>2
  <2>2. ASSUME NEW a \in Nat, NEW b \in Nat, b > 0 PROVE a \div b \in Nat
    BY <2>2
  <2> QED BY <1>2, <2>1, <2>2 DEF percentOf
<1> QED
  BY <1>1, <1>2

\* With fewer than 200 lessons only all of them round to 100 %.
LEMMA WholePercent ==
  ASSUME NEW k \in Nat, NEW n \in Nat, n < 200, percentOf(k, n) >= 100
  PROVE  n > 0 /\ k >= n
<1>1. n > 0
  BY DEF percentOf
<1> DEFINE d == (200 * k + n) \div (2 * n)
<1>2. d \in Int /\ (2 * n) * d <= 200 * k + n
  <2>1. ASSUME NEW a \in Nat, NEW b \in Nat, b > 0 PROVE a \div b \in Int /\ b * (a \div b) <= a
    BY <2>1
  <2> QED BY <1>1, <2>1
<1>3. d >= 100
  BY <1>1 DEF percentOf
<1> HIDE DEF d
<1>4. (2 * n) * 100 <= (2 * n) * d
  BY <1>1, <1>2, <1>3
<1>5. 200 * n <= 200 * k + n
  BY <1>2, <1>4
<1> QED
  BY <1>1, <1>5

-----------------------------------------------------------------------------
(* course-service: what no edit takes back                                 *)

CatalogActs == CatalogRequest \/ CatalogStep \/ loseEdits

\* Which order a new row is to have does not matter here (CatalogTypes has it).
isEdit(e) == e \in [row : Rows, at : {"create", "count", "write"}, n : {e.n}]

CatalogShape ==
  /\ rows \subseteq Rows /\ removed \subseteq rows /\ InitialRows \subseteq rows
  /\ IsFiniteSet(edits)
  /\ \A e \in edits : isEdit(e)

\* An edit that another replaces.
LEMMA Replaced ==
  ASSUME NEW e \in edits, CatalogShape, NEW d, edits' = (edits \ {e}) \cup {d},
         isEdit(d),
         rows' \subseteq Rows, removed' \subseteq rows', InitialRows \subseteq rows'
  PROVE  CatalogShape'
<1>1. IsFiniteSet(edits \ {e})
  BY FS_RemoveElement DEF CatalogShape
<1>2. IsFiniteSet(edits')
  BY <1>1, FS_AddElement
<1> QED
  BY <1>2 DEF CatalogShape

LEMMA Added ==
  ASSUME CatalogShape, NEW d, edits' = edits \cup {d},
         isEdit(d),
         rows' \subseteq Rows, removed' \subseteq rows', InitialRows \subseteq rows'
  PROVE  CatalogShape'
<1>1. IsFiniteSet(edits')
  BY FS_AddElement DEF CatalogShape
<1> QED
  BY <1>1 DEF CatalogShape

LEMMA Fewer ==
  ASSUME CatalogShape, edits' \subseteq edits,
         rows' \subseteq Rows, removed' \subseteq rows', InitialRows \subseteq rows'
  PROVE  CatalogShape'
<1>1. IsFiniteSet(edits')
  BY FS_Subset DEF CatalogShape
<1> QED
  BY <1>1 DEF CatalogShape

\* Rows are never taken back, nor restored once they were removed.
LEMMA CatalogKeeps ==
  ASSUME CatalogShape, CatalogActs
  PROVE  CatalogShape' /\ rows \subseteq rows' /\ removed \subseteq removed'
<1> USE DEF rowVars, courseVars
<1> DEFINE good == CatalogShape' /\ rows \subseteq rows' /\ removed \subseteq removed'
<1>0. /\ rows \subseteq Rows /\ removed \subseteq rows /\ InitialRows \subseteq rows
  BY DEF CatalogShape
<1>1. ASSUME NEW r \in Rows, beginAdd(r) PROVE good
  <2> PICK n \in GivenOrders \cup nextOrders(r) :
        edits' = edits \cup {[row |-> r, at |-> "create", n |-> n]}
    BY <1>1 DEF beginAdd
  <2>1. isEdit([row |-> r, at |-> "create", n |-> n])
    BY DEF isEdit
  <2> QED BY <1>0, <1>1, <2>1, Added DEF beginAdd
<1>2. ASSUME NEW l \in Lessons, updateLesson(l) PROVE good
  <2>1. edits' = edits \cup {[row |-> l, at |-> "count", n |-> 0]}
    BY <1>2 DEF updateLesson
  <2>2. UNCHANGED <<rows, removed>>
    BY <1>2 DEF updateLesson, changeRow
  <2>3. isEdit([row |-> l, at |-> "count", n |-> 0])
    BY DEF isEdit, Rows
  <2> QED BY <1>0, <2>1, <2>2, <2>3, Added
<1>3. ASSUME NEW l \in Lessons, removeLesson(l) PROVE good
  <2>1. edits' = edits \cup {[row |-> l, at |-> "count", n |-> 0]}
    BY <1>3 DEF removeLesson
  <2>2. rows' = rows /\ removed' = removed \cup {l} /\ l \in rows
    BY <1>3 DEF removeLesson
  <2>3. isEdit([row |-> l, at |-> "count", n |-> 0])
    BY DEF isEdit, Rows
  <2> QED BY <1>0, <2>1, <2>2, <2>3, Added
<1>4. ASSUME NEW m \in Modules, updateModule(m) PROVE good
  BY <1>0, <1>4, Fewer DEF updateModule, changeRow
<1>5. ASSUME NEW m \in Modules, removeModule(m) PROVE good
  BY <1>0, <1>5, Fewer DEF removeModule
<1>6. ASSUME NEW group, reorder(group) PROVE good
  BY <1>0, <1>6, Fewer DEF reorder
<1>7. ASSUME NEW to, beginCourseWrite(to) PROVE good
  BY <1>0, <1>7, Fewer DEF beginCourseWrite
<1>8. CASE CatalogRequest
  BY <1>1, <1>2, <1>3, <1>4, <1>5, <1>6, <1>7, <1>8
    DEF CatalogRequest, addLesson, addModule, publish, unpublish, update, remove, Rows
<1>9. ASSUME NEW e \in edits, createRow(e) PROVE good
  <2>0. isEdit(e)
    BY DEF CatalogShape
  <2>1. CASE edits' = edits \ {e}
    BY <1>0, <1>9, <2>0, <2>1, Fewer DEF createRow, isEdit
  <2>2. CASE goesOn(e, "count")
    <3> DEFINE d == [e EXCEPT !.at = "count"]
    <3>1. isEdit(d)
      BY <2>0 DEF isEdit
    <3>2. edits' = (edits \ {e}) \cup {d}
      BY <2>2 DEF goesOn
    <3>3. rows' \subseteq Rows /\ rows \subseteq rows' /\ removed' = removed
      BY <1>0, <1>9, <2>0 DEF createRow, isEdit
    <3> HIDE DEF d
    <3> QED BY <1>0, <3>1, <3>2, <3>3, Replaced
  <2> QED BY <1>9, <2>1, <2>2 DEF createRow
<1>10. ASSUME NEW e \in edits, countLessons(e) PROVE good
  <2>0. isEdit(e)
    BY DEF CatalogShape
  <2> DEFINE d == [e EXCEPT !.at = "write", !.n = Cardinality(liveLessons)]
  <2>1. isEdit(d)
    BY <2>0 DEF isEdit
  <2>2. edits' = (edits \ {e}) \cup {d} /\ UNCHANGED <<rows, removed>>
    BY <1>10 DEF countLessons
  <2> HIDE DEF d
  <2> QED BY <1>0, <2>1, <2>2, Replaced
<1>11. ASSUME NEW e \in edits, writeCounters(e) PROVE good
  BY <1>0, <1>11, Fewer DEF writeCounters
<1>12. ASSUME NEW to, writeCourse(to) PROVE good
  BY <1>0, <1>12, Fewer DEF writeCourse
<1>13. CASE CatalogStep
  BY <1>9, <1>10, <1>11, <1>12, <1>13 DEF CatalogStep, editSteps
<1>14. CASE loseEdits
  BY <1>0, <1>14, Fewer DEF loseEdits
<1> QED
  BY <1>8, <1>13, <1>14 DEF CatalogActs

InitialLessons == InitialRows \cap Lessons

\* A course that was not edited has the lessons it began with.
LEMMA Unedited ==
  ASSUME CatalogShape, ~edited
  PROVE  rows \cap Lessons = InitialLessons /\ liveLessons = InitialLessons
BY DEF CatalogShape, edited, InitialLessons, liveLessons

LEMMA EditedForGood ==
  ASSUME CatalogShape, rows \subseteq rows', removed \subseteq removed', edited
  PROVE  edited'
BY DEF CatalogShape, edited

-----------------------------------------------------------------------------
(* enrollment-service: what its requests know is true                      *)

ProgressActs == ProgressRequest \/ ProgressStep \/ loseRequests

ProgressShape ==
  /\ percent \in Nat /\ announced \in Nat /\ completedAt \in BOOLEAN
  /\ record \in [Ids -> {"none", "STARTED", "COMPLETED", "away"}]
  /\ requests \subseteq Request /\ heartbeats \subseteq Ids /\ strayed \subseteq Ids

\* Ids that some request has named.
known ==
  /\ \A l \in Ids : record[l] # "none" => l \in nameable
  /\ heartbeats \subseteq nameable

\* What a request has read is or was so, and does not cease to be.
honest(q) ==
  /\ q.lesson \in nameable
  /\ q.done \subseteq completed
  /\ q.at \in {"readRecords", "readRow", "write"} =>
       edited \/ q.size = Cardinality(InitialLessons)
  /\ q.at = "write" /\ q.was => completedAt
  /\ q.at = "announce" => completedAt

HonestInv ==
  /\ CatalogShape /\ ProgressShape
  /\ \A q \in requests : honest(q)
  /\ known
  /\ percent >= 100 => completedAt

\* Nothing is forgotten: neither rows nor completions.
kept == /\ rows \subseteq rows' /\ removed \subseteq removed'
        /\ completed \subseteq completed'
        /\ completedAt => completedAt'

LEMMA HonestStays == ASSUME CatalogShape, kept, NEW q, honest(q) PROVE honest(q)'
BY EditedForGood DEF honest, kept, nameable

LEMMA IdsAreFinite == IsFiniteSet(Ids)
BY FS_Union, CatalogAssumption, OthersAssumption DEF Ids

LEMMA PercentForType == ASSUME NEW q \in Request PROVE percentFor(q) \in Nat
<1>1. IsFiniteSet(q.done)
  BY FS_Subset, IdsAreFinite DEF Request
<1>2. Cardinality(q.done) \in Nat /\ q.size \in Nat
  BY <1>1, FS_CardinalityType DEF Request
<1> QED
  BY <1>2, PercentType DEF percentFor

\* A request that moves on to r, or ends.
LEMMA MovesOn ==
  ASSUME HonestInv, kept, ProgressShape', CatalogShape', NEW q \in requests, NEW r,
         becomes(q, r), honest(r)',
         known', percent' >= 100 => completedAt'
  PROVE  HonestInv'
BY HonestStays DEF HonestInv, becomes

LEMMA NoneMoves ==
  ASSUME HonestInv, kept, ProgressShape', CatalogShape', requests' \subseteq requests,
         known', percent' >= 100 => completedAt'
  PROVE  HonestInv'
BY HonestStays DEF HonestInv

LEMMA CompletedSame == ASSUME record' = record PROVE completed' = completed
BY DEF completed

\* What was named stays so.
LEMMA KnownStays ==
  ASSUME known, record' = record, heartbeats' = heartbeats, rows \subseteq rows'
  PROVE  known'
BY DEF known, nameable

LEMMA ProgressKeeps ==
  ASSUME HonestInv, ProgressActs, UNCHANGED catalogVars
  PROVE  HonestInv' /\ kept
<1> DEFINE good == HonestInv' /\ kept
<1>0. /\ CatalogShape' /\ UNCHANGED <<rows, removed, nameable>>
  BY DEF HonestInv, CatalogShape, catalogVars, nameable
<1>1. /\ ProgressShape /\ CatalogShape /\ known
      /\ percent >= 100 => completedAt
      /\ \A q \in requests : q \in Request /\ honest(q)
  BY DEF HonestInv, ProgressShape
<1>same. ASSUME UNCHANGED <<percent, completedAt, record, announced>>
         PROVE  /\ kept /\ completed' = completed
                /\ heartbeats' = heartbeats => known'
                /\ percent' >= 100 => completedAt'
  BY <1>0, <1>1, <1>same, CompletedSame, KnownStays DEF kept
<1>2. ASSUME NEW l \in Ids, completeLesson(l) PROVE good
  <2> DEFINE r == [lesson |-> l, at |-> "record", done |-> {}, size |-> 0, was |-> FALSE]
  <2>1. requests' = requests \cup {r} /\ l \in nameable
        /\ UNCHANGED <<percent, completedAt, record, heartbeats, announced, strayed>>
    BY <1>2 DEF completeLesson
  <2>2. r \in Request
    BY DEF Request
  <2>3. ProgressShape'
    BY <1>1, <2>1, <2>2 DEF ProgressShape
  <2>4. honest(r)'
    BY <1>0, <2>1 DEF honest
  <2> HIDE DEF r
  <2> QED BY <1>0, <1>1, <1>same, <2>1, <2>3, <2>4, HonestStays DEF HonestInv
<1>3. ASSUME NEW l \in Ids, savePosition(l) PROVE good
  <2>1. ProgressShape'
    BY <1>1, <1>3 DEF savePosition, ProgressShape
  <2>2. known'
    BY <1>0, <1>1, <1>3 DEF savePosition, known
  <2> QED BY <1>0, <1>1, <1>3, <1>same, <2>1, <2>2, NoneMoves DEF savePosition
<1>4. CASE openAccess \/ closeAccess
  <2>1. UNCHANGED <<percent, completedAt, record, requests, heartbeats, announced, strayed>>
    BY <1>4 DEF openAccess, closeAccess
  <2>2. ProgressShape'
    BY <1>1, <2>1 DEF ProgressShape
  <2> QED BY <1>0, <1>1, <1>same, <2>1, <2>2, NoneMoves
<1>5. ASSUME NEW q \in requests, recordLesson(q) PROVE good
  <2> DEFINE r == [q EXCEPT !.at = "read"]
  <2>1. /\ becomes(q, r)
        /\ record' = [record EXCEPT ![q.lesson] = IF @ = "away" THEN @ ELSE "COMPLETED"]
        /\ UNCHANGED <<percent, completedAt, heartbeats, announced, strayed>>
    BY <1>5 DEF recordLesson
  <2>2. r \in Request /\ r.at = "read" /\ r.done = q.done /\ r.lesson = q.lesson
    BY <1>1 DEF Request
  <2>3. ProgressShape'
    BY <1>1, <2>1, <2>2 DEF ProgressShape, becomes, Request
  <2>4. completed \subseteq completed'
    BY <1>1, <2>1 DEF completed, ProgressShape, Request
  <2>5. kept /\ (percent' >= 100 => completedAt')
    BY <1>0, <1>1, <2>1, <2>4 DEF kept
  <2>7. known'
    BY <1>0, <1>1, <2>1 DEF known, honest, ProgressShape
  <2> HIDE DEF r
  <2>6. honest(r)'
    BY <1>0, <1>1, <2>2, <2>4 DEF honest
  <2> QED BY <1>0, <2>1, <2>3, <2>5, <2>6, <2>7, MovesOn
<1>6. ASSUME NEW q \in requests, readRecords(q) PROVE good
  <2> PICK r : r = [q EXCEPT !.done = completed,
                             !.at = IF @ = "read" THEN "readCurriculum" ELSE "readRow"]
    OBVIOUS
  <2>1. becomes(q, r) /\ UNCHANGED <<percent, completedAt, record, heartbeats, announced, strayed>>
    BY <1>6 DEF readRecords
  <2>2. /\ r.done = completed /\ r.lesson = q.lesson /\ r.size = q.size
        /\ r.at = "readRow" => q.at = "readRecords"
        /\ r.at \in {"readCurriculum", "readRow"}
    BY <1>1, <1>6 DEF Request, readRecords
  <2>6. completed \subseteq Ids
    BY DEF completed
  <2>7. r \in Request
    BY <1>1, <1>6, <2>6 DEF Request, readRecords
  <2>3. ProgressShape'
    BY <1>1, <2>1, <2>7 DEF ProgressShape, becomes
  <2>4. kept /\ completed' = completed /\ edited' = edited
    BY <1>0, <1>same, <2>1 DEF edited
  <2>5. honest(r)'
    BY <1>0, <1>1, <2>2, <2>4 DEF honest
  <2> QED BY <1>0, <1>same, <2>1, <2>3, <2>4, <2>5, MovesOn
<1>7. ASSUME NEW q \in requests, readCurriculum(q) PROVE good
  <2> PICK r : r = [q EXCEPT !.size = Cardinality(liveLessons),
                             !.at = IF @ = "read" THEN "readRecords" ELSE "readRow"]
    OBVIOUS
  <2>0. Cardinality(liveLessons) \in Nat
    BY CatalogAssumption, FS_Subset, FS_CardinalityType DEF liveLessons
  <2>1. becomes(q, r) /\ UNCHANGED <<percent, completedAt, record, heartbeats, announced, strayed>>
    BY <1>7 DEF readCurriculum
  <2>2. /\ r \in Request /\ r.done = q.done /\ r.lesson = q.lesson
        /\ r.size = Cardinality(liveLessons)
        /\ r.at \in {"readRecords", "readRow"}
    BY <1>1, <1>7, <2>0 DEF Request, readCurriculum
  <2>3. ProgressShape'
    BY <1>1, <2>1, <2>2 DEF ProgressShape, becomes
  <2>4. kept /\ completed' = completed /\ edited' = edited
    BY <1>0, <1>same, <2>1 DEF edited
  <2>5. edited \/ r.size = Cardinality(InitialLessons)
    BY <1>1, <2>2, Unedited
  <2>6. honest(r)'
    BY <1>0, <1>1, <2>2, <2>4, <2>5 DEF honest
  <2> QED BY <1>0, <1>same, <2>1, <2>3, <2>4, <2>6, MovesOn
<1>8. ASSUME NEW q \in requests, readRow(q) PROVE good
  <2> PICK r : r = [q EXCEPT !.was = completedAt, !.at = "write"]
    OBVIOUS
  <2>1. becomes(q, r) /\ UNCHANGED <<percent, completedAt, record, heartbeats, announced, strayed>>
    BY <1>8 DEF readRow
  <2>2. /\ r.done = q.done /\ r.lesson = q.lesson /\ r.size = q.size
        /\ r.at = "write" /\ q.at = "readRow"
    BY <1>1, <1>8 DEF Request, readRow
  <2>7. r \in Request
    BY <1>1 DEF Request, ProgressShape
  <2>8. r.was = completedAt
    BY <1>1 DEF Request
  <2>3. ProgressShape'
    BY <1>1, <2>1, <2>7 DEF ProgressShape, becomes
  <2>4. kept /\ completed' = completed /\ edited' = edited
    BY <1>0, <1>same, <2>1 DEF edited
  <2>5. honest(r)'
    BY <1>0, <1>1, <2>1, <2>2, <2>4, <2>8 DEF honest
  <2> QED BY <1>0, <1>same, <2>1, <2>3, <2>4, <2>5, MovesOn
<1>9. ASSUME NEW q \in requests, writeRow(q) PROVE good
  <2> PICK r : r = [q EXCEPT !.at = "announce"]
    OBVIOUS
  <2>1. /\ r \in Request /\ r.at = "announce" /\ r.done = q.done /\ r.lesson = q.lesson
        /\ q.at = "write"
    BY <1>1, <1>9 DEF Request, writeRow
  <2>2. (becomes(q, r) /\ finishing(q)) \/ requests' = requests \ {q}
    BY <1>9 DEF writeRow
  <2>3. /\ percent' = percentFor(q) /\ UNCHANGED <<record, heartbeats, announced, strayed>>
        /\ completedAt' = (completedAt \/ finishing(q))
    BY <1>9 DEF writeRow
  <2>4. ProgressShape'
    <3>1. percent' \in Nat
      BY <1>1, <2>3, PercentForType
    <3>2. completedAt' \in BOOLEAN
      BY <2>3
    <3>3. requests' \subseteq Request
      BY <1>1, <2>1, <2>2 DEF becomes
    <3> QED BY <1>1, <2>3, <3>1, <3>2, <3>3 DEF ProgressShape
  <2>5. completed' = completed
    BY <2>3, CompletedSame
  <2>6. kept
    BY <1>0, <2>3, <2>5 DEF kept
  <2>7. percent' >= 100 => completedAt'
    <3>1. percentFor(q) >= 100 => q.size > 0
      <4>1. q.size \in Nat
        BY <1>1 DEF Request
      <4> QED BY <4>1 DEF percentFor, percentOf
    <3>2. q.was => completedAt
      BY <1>1, <2>1 DEF honest
    <3> QED BY <2>3, <3>1, <3>2 DEF finishing
  <2>8. completedAt' => honest(r)'
    BY <1>0, <1>1, <2>1, <2>5 DEF honest
  <2>11. known'
    BY <1>0, <1>1, <2>3, KnownStays
  <2>9. CASE requests' = requests \ {q}
    BY <1>0, <1>1, <2>4, <2>6, <2>7, <2>9, <2>11, NoneMoves
  <2>10. CASE becomes(q, r) /\ finishing(q)
    BY <1>0, <1>1, <2>3, <2>4, <2>6, <2>7, <2>8, <2>10, <2>11, MovesOn
  <2> QED BY <2>2, <2>9, <2>10
<1>10. ASSUME NEW q \in requests, publishCompleted(q) PROVE good
  <2>1. ProgressShape'
    BY <1>1, <1>10 DEF publishCompleted, ProgressShape
  <2>2. completed' = completed
    BY <1>10, CompletedSame DEF publishCompleted
  <2>3. kept
    BY <1>0, <1>10, <2>2 DEF publishCompleted, kept
  <2>4. known'
    BY <1>0, <1>1, <1>10, KnownStays DEF publishCompleted
  <2> QED BY <1>0, <1>1, <1>10, <2>1, <2>3, <2>4, NoneMoves DEF publishCompleted
<1>11. ASSUME NEW l \in heartbeats, upsertPosition(l) PROVE good
  <2>0. l \in Ids /\ record[l] \in {"none", "STARTED", "COMPLETED", "away"}
    BY <1>1 DEF ProgressShape
  <2>1. ProgressShape'
    BY <1>1, <1>11, <2>0 DEF upsertPosition, ProgressShape
  <2>2. completed' = completed
    BY <1>1, <1>11, <2>0 DEF upsertPosition, completed, ProgressShape
  <2>3. kept
    BY <1>0, <1>11, <2>2 DEF upsertPosition, kept
  <2>4. known'
    BY <1>0, <1>1, <1>11, <2>0 DEF upsertPosition, known, ProgressShape
  <2> QED BY <1>0, <1>1, <1>11, <2>1, <2>3, <2>4, NoneMoves DEF upsertPosition
<1>13. ASSUME NEW l \in Ids, fileElsewhere(l) \/ completeElsewhere(l) PROVE good
  <2>0. /\ UNCHANGED <<percent, completedAt, requests, heartbeats, announced>>
        /\ strayed' \subseteq strayed \cup {l}
    BY <1>13 DEF fileElsewhere, completeElsewhere
  <2>1. ProgressShape'
    BY <1>1, <1>13, <2>0 DEF fileElsewhere, completeElsewhere, ProgressShape
  <2>2. completed \subseteq completed'
    BY <1>1, <1>13 DEF fileElsewhere, completeElsewhere, completed, ProgressShape
  <2>3. kept
    BY <1>0, <2>0, <2>2 DEF kept
  <2>4. known'
    BY <1>0, <1>1, <1>13, <2>0 DEF fileElsewhere, completeElsewhere, known, ProgressShape
  <2> QED BY <1>0, <1>1, <2>0, <2>1, <2>3, <2>4, NoneMoves
<1>12. CASE loseRequests
  <2>1. ProgressShape'
    BY <1>1, <1>12 DEF loseRequests, ProgressShape
  <2> QED BY <1>0, <1>1, <1>12, <1>same, <2>1, NoneMoves DEF loseRequests
<1> QED
  BY <1>2, <1>3, <1>4, <1>5, <1>6, <1>7, <1>8, <1>9, <1>10, <1>11, <1>12, <1>13
    DEF ProgressActs, ProgressRequest, ProgressStep, requestSteps

-----------------------------------------------------------------------------
(* The system                                                              *)

CertActs == CertRequest \/ CertStep \/ loseIssues
GatewayActs == GatewayRequest \/ GatewayStep \/ loseReads

\* A step is one service's; what is lost is counted.
LEMMA Moves ==
  ASSUME [Next]_vars, mishaps \in Nat
  PROVE  /\ mishaps' \in Nat /\ mishaps <= mishaps'
         /\ \/ InCatalog(CatalogActs)
            \/ InProgress(ProgressRequest \/ ProgressStep)
            \/ InProgress(loseRequests) /\ mishaps' > 0
            \/ InCertificates(CertActs)
            \/ InGateway(GatewayActs)
            \/ UNCHANGED <<catalogVars, progressVars, certVars, gatewayVars>>
<1>1. CASE Call
  BY <1>1 DEF Call, InCatalog, InProgress, InCertificates, InGateway,
    CatalogActs, CertActs, GatewayActs
<1>2. CASE GoOn
  BY <1>2 DEF GoOn, InCatalog, InProgress, InCertificates, InGateway,
    CatalogActs, CertActs, GatewayActs
<1>3. CASE Mishap
  BY <1>3 DEF Mishap, InCatalog, InProgress, InCertificates, InGateway,
    CatalogActs, CertActs, GatewayActs
<1>4. CASE UNCHANGED vars
  BY <1>4 DEF vars
<1> QED
  BY <1>1, <1>2, <1>3, <1>4 DEF Next

-----------------------------------------------------------------------------
(* Certificates                                                            *)

\* Whoever passed the question for the percentage found a finished course.
IssuesInv ==
  /\ \A i \in issues : i \in Issue /\ (i.at \in {"profile", "create"} => completedAt)
  /\ hasCert => completedAt

LEMMA CertActsKeep ==
  ASSUME IssuesInv, CertActs, completedAt' = completedAt, percent >= 100 => completedAt
  PROVE  IssuesInv'
<1> USE DEF IssuesInv
<1>1. ASSUME NEW via \in Via, issue(via) PROVE IssuesInv'
  <2>1. [via |-> via, at |-> "progress"] \in Issue
    BY DEF Issue
  <2> QED BY <1>1, <2>1 DEF issue, hasCert
<1>2. CASE claim \/ deliverCompleted
  BY <1>1, <1>2 DEF claim, deliverCompleted, Via
<1>3. CASE revoke
  BY <1>3 DEF revoke, hasCert
<1>4. ASSUME NEW i \in issues, fetchProgress(i) PROVE IssuesInv'
  <2>1. [i EXCEPT !.at = "profile"] \in Issue
    BY DEF Issue
  <2> QED BY <1>4, <2>1 DEF fetchProgress, moves, hasCert
<1>5. ASSUME NEW i \in issues, fetchUserAndCourse(i) PROVE IssuesInv'
  <2>1. [i EXCEPT !.at = "create"] \in Issue
    BY DEF Issue
  <2> QED BY <1>5, <2>1 DEF fetchUserAndCourse, moves, hasCert
<1>6. ASSUME NEW i \in issues, createCertificate(i) PROVE IssuesInv'
  BY <1>6 DEF createCertificate, hasCert
<1>7. CASE loseIssues
  BY <1>7 DEF loseIssues, hasCert
<1> QED
  BY <1>2, <1>3, <1>4, <1>5, <1>6, <1>7 DEF CertActs, CertRequest, CertStep, issueSteps

LearnInv ==
  /\ HonestInv /\ IssuesInv /\ CompletionsAreAnnounced
  /\ mishaps \in Nat

LEMMA InitLearnInv == Init => LearnInv
<1> SUFFICES ASSUME Init PROVE LearnInv
  OBVIOUS
<1> USE DEF Init
<1>1. CatalogShape
  BY FS_EmptySet, CatalogAssumption DEF CatalogInit, CatalogShape, Rows
<1>2. ProgressShape
  BY DEF ProgressInit, ProgressShape
<1>3. completed = {} /\ requests = {} /\ percent = 0 /\ announced = 0
  BY DEF ProgressInit, completed
<1>4. HonestInv
  <2>1. known
    BY DEF ProgressInit, known
  <2> QED BY <1>1, <1>2, <1>3, <2>1 DEF HonestInv
<1>5. IssuesInv
  BY DEF CertInit, IssuesInv, hasCert, NoCert
<1>6. CompletionsAreAnnounced
  BY <1>3 DEF ProgressInit, CompletionsAreAnnounced
<1> QED
  BY <1>4, <1>5, <1>6 DEF LearnInv

\* What the steps of progress do to the announcement.
LEMMA ProgressAnnounces ==
  ASSUME HonestInv, ProgressRequest \/ ProgressStep, CompletionsAreAnnounced,
         mishaps \in Nat, mishaps' \in Nat, mishaps <= mishaps'
  PROVE  CompletionsAreAnnounced'
<1>0. /\ announced \in Nat /\ requests \subseteq Request
      /\ \A q \in requests : q.at = "announce" => completedAt
  BY DEF HonestInv, ProgressShape, honest
<1> USE DEF CompletionsAreAnnounced
<1>1. ASSUME UNCHANGED <<completedAt, announced>>, requests \subseteq requests'
      PROVE  CompletionsAreAnnounced'
  BY <1>1
<1>2. ASSUME NEW q \in requests, q.at # "announce", NEW r, becomes(q, r),
             UNCHANGED <<completedAt, announced>>
      PROVE  CompletionsAreAnnounced'
  BY <1>2 DEF becomes
<1>3. CASE ProgressRequest
  BY <1>1, <1>3 DEF ProgressRequest, completeLesson, savePosition, fileElsewhere,
    completeElsewhere, openAccess, closeAccess
<1>4. ASSUME NEW q \in requests,
             recordLesson(q) \/ readRecords(q) \/ readCurriculum(q) \/ readRow(q)
      PROVE  CompletionsAreAnnounced'
  BY <1>2, <1>4 DEF recordLesson, readRecords, readCurriculum, readRow
<1>5. ASSUME NEW q \in requests, writeRow(q) PROVE CompletionsAreAnnounced'
  <2>1. [q EXCEPT !.at = "announce"].at = "announce"
    BY <1>0 DEF Request
  <2>2. q.at = "write" /\ announced' = announced
    BY <1>5 DEF writeRow
  <2>3. CASE finishing(q)
    <3>1. \E r \in requests' : r.at = "announce"
      BY <1>5, <2>1, <2>3 DEF writeRow, becomes
    <3>2. completedAt'
      BY <1>5, <2>3 DEF writeRow
    <3> QED BY <3>1, <3>2
  <2>4. CASE ~finishing(q)
    <3>1. completedAt' <=> completedAt
      BY <1>5, <2>4 DEF writeRow
    <3>2. requests' = requests \ {q}
      BY <1>5, <2>4 DEF writeRow
    <3> QED BY <2>2, <3>1, <3>2
  <2> QED BY <2>3, <2>4
<1>6. ASSUME NEW q \in requests, publishCompleted(q) PROVE CompletionsAreAnnounced'
  BY <1>0, <1>6 DEF publishCompleted
<1>7. ASSUME NEW l \in heartbeats, upsertPosition(l) PROVE CompletionsAreAnnounced'
  BY <1>1, <1>7 DEF upsertPosition
<1> QED
  BY <1>3, <1>4, <1>5, <1>6, <1>7 DEF ProgressStep, requestSteps

LEMMA NextLearnInv == LearnInv /\ [Next]_vars => LearnInv' /\ kept
<1> SUFFICES ASSUME LearnInv, [Next]_vars PROVE LearnInv' /\ kept
  OBVIOUS
<1>0. /\ HonestInv /\ IssuesInv /\ CompletionsAreAnnounced /\ mishaps \in Nat
      /\ mishaps' \in Nat /\ mishaps <= mishaps' /\ CatalogShape
      /\ percent >= 100 => completedAt
  BY Moves DEF LearnInv, HonestInv
<1>same. ASSUME UNCHANGED progressVars PROVE /\ completed' = completed
                                             /\ CompletionsAreAnnounced'
                                             /\ ProgressShape'
  BY <1>0, <1>same, CompletedSame
    DEF progressVars, CompletionsAreAnnounced, HonestInv, ProgressShape
<1>certs. ASSUME UNCHANGED certVars, completedAt => completedAt' PROVE IssuesInv'
  BY <1>0, <1>certs DEF certVars, IssuesInv, hasCert
<1>still. ASSUME UNCHANGED progressVars, UNCHANGED catalogVars PROVE HonestInv' /\ kept
  <2>1. CatalogShape' /\ UNCHANGED <<rows, removed, requests, percent, completedAt>>
    BY <1>0, <1>still DEF CatalogShape, catalogVars, progressVars
  <2>2. kept
    BY <1>same, <1>still, <2>1 DEF kept
  <2>3. known' /\ (percent' >= 100 => completedAt')
    BY <1>0, <1>still, <2>1, KnownStays DEF HonestInv, progressVars
  <2> QED BY <1>0, <1>same, <1>still, <2>1, <2>2, <2>3, NoneMoves
<1>1. CASE InCatalog(CatalogActs)
  <2>1. CatalogActs /\ UNCHANGED <<progressVars, certVars>>
    BY <1>1 DEF InCatalog
  <2>2. CatalogShape' /\ rows \subseteq rows' /\ removed \subseteq removed'
    BY <1>0, <2>1, CatalogKeeps
  <2>3. UNCHANGED <<requests, percent, completedAt>>
    BY <2>1 DEF progressVars
  <2>4. kept
    BY <1>same, <2>1, <2>2, <2>3 DEF kept
  <2>5. known' /\ (percent' >= 100 => completedAt')
    BY <1>0, <2>1, <2>2, <2>3, KnownStays DEF HonestInv, progressVars
  <2>6. HonestInv'
    BY <1>0, <1>same, <2>1, <2>2, <2>3, <2>4, <2>5, NoneMoves
  <2> QED BY <1>0, <1>same, <1>certs, <2>1, <2>3, <2>4, <2>6 DEF LearnInv
<1>2. CASE InProgress(ProgressRequest \/ ProgressStep)
  <2>1. /\ ProgressRequest \/ ProgressStep
        /\ UNCHANGED catalogVars /\ UNCHANGED certVars
    BY <1>2 DEF InProgress
  <2>2. HonestInv' /\ kept
    BY <1>0, <2>1, ProgressKeeps DEF ProgressActs
  <2>3. CompletionsAreAnnounced'
    BY <1>0, <2>1, ProgressAnnounces
  <2> QED BY <1>0, <1>certs, <2>1, <2>2, <2>3 DEF LearnInv, kept
<1>3. CASE InProgress(loseRequests) /\ mishaps' > 0
  <2>1. loseRequests /\ UNCHANGED catalogVars /\ UNCHANGED certVars
    BY <1>3 DEF InProgress
  <2>2. HonestInv' /\ kept
    BY <1>0, <2>1, ProgressKeeps DEF ProgressActs
  <2>3. CompletionsAreAnnounced'
    BY <1>0, <1>3, <2>1 DEF loseRequests, CompletionsAreAnnounced
  <2> QED BY <1>0, <1>certs, <2>1, <2>2, <2>3 DEF LearnInv, kept
<1>4. CASE InCertificates(CertActs)
  <2>1. CertActs /\ UNCHANGED progressVars /\ UNCHANGED catalogVars
    BY <1>4 DEF InCertificates
  <2>2. IssuesInv'
    BY <1>0, <2>1, CertActsKeep DEF progressVars
  <2> QED BY <1>0, <1>same, <1>still, <2>1, <2>2 DEF LearnInv
<1>5. CASE InGateway(GatewayActs) \/ UNCHANGED <<catalogVars, progressVars, certVars, gatewayVars>>
  <2>1. UNCHANGED progressVars /\ UNCHANGED catalogVars /\ UNCHANGED certVars
    BY <1>5 DEF InGateway
  <2>2. completedAt' = completedAt
    BY <2>1 DEF progressVars
  <2> QED BY <1>0, <1>same, <1>still, <1>certs, <2>1, <2>2 DEF LearnInv
<1> QED
  BY <1>0, <1>1, <1>2, <1>3, <1>4, <1>5, Moves

\* What the requests of progress and of certificates know stays true.
THEOREM LearnInvHolds == Spec => []LearnInv
<1>1. LearnInv /\ [Next]_vars => LearnInv'
  BY NextLearnInv
<1> QED
  BY <1>1, InitLearnInv, PTL DEF Spec

\* A completion is announced unless something stopped or failed, and nothing
\* else is announced.
THEOREM CompletionsAreAlwaysAnnounced == Spec => []CompletionsAreAnnounced
<1>1. LearnInv => CompletionsAreAnnounced
  BY DEF LearnInv
<1> QED
  BY <1>1, LearnInvHolds, PTL

-----------------------------------------------------------------------------
(* Certificates are earned                                                 *)

\* Only the write of a request that sees the whole finishes a course.
LEMMA FinishingSteps ==
  ASSUME LearnInv, [Next]_vars, ~completedAt, completedAt'
  PROVE  \E q \in requests : writeRow(q) /\ finishing(q) /\ UNCHANGED catalogVars
<1>1. ~UNCHANGED completedAt
  OBVIOUS
<1>2. ~UNCHANGED progressVars
  BY <1>1 DEF progressVars
<1>3. InProgress(ProgressRequest \/ ProgressStep) \/ InProgress(loseRequests)
  BY <1>2, Moves DEF LearnInv, InCatalog, InCertificates, InGateway
<1>4. ~loseRequests /\ ~ProgressRequest
  BY <1>1 DEF loseRequests, ProgressRequest, completeLesson, savePosition, fileElsewhere,
    completeElsewhere, openAccess, closeAccess
<1>5. ProgressStep /\ UNCHANGED catalogVars
  BY <1>3, <1>4 DEF InProgress
<1>6. PICK q \in requests : writeRow(q)
  BY <1>1, <1>5 DEF ProgressStep, requestSteps, recordLesson, readRecords, readCurriculum,
    readRow, publishCompleted, upsertPosition
<1> QED
  BY <1>5, <1>6 DEF writeRow

Few == Cardinality(InitialLessons) < 200

earned == completedAt => edited \/ Cardinality(completed) >= Cardinality(liveLessons)

LEMMA CompletedFinite == IsFiniteSet(completed) /\ Cardinality(completed) \in Nat
<1>1. IsFiniteSet(completed)
  BY IdsAreFinite, FS_Subset DEF completed
<1> QED
  BY <1>1, FS_CardinalityType

\* Where only lessons were completed, as many as there are is all of them.
LEMMA EnoughIsAll ==
  ASSUME LearnInv, ~edited, completed \subseteq Lessons,
         Cardinality(completed) >= Cardinality(liveLessons)
  PROVE  liveLessons \subseteq completed
<1>1. CatalogShape /\ known
  BY DEF LearnInv, HonestInv
<1>2. rows \cap Lessons = InitialLessons /\ liveLessons = InitialLessons
  BY <1>1, Unedited
<1>3. completed \subseteq nameable
  BY <1>1 DEF known, completed
<1>4. completed \subseteq InitialLessons
  BY <1>2, <1>3, OthersAssumption DEF nameable
<1>5. IsFiniteSet(InitialLessons)
  BY FS_Subset, CatalogAssumption DEF InitialLessons
<1>6. /\ Cardinality(completed) <= Cardinality(InitialLessons)
      /\ Cardinality(completed) = Cardinality(InitialLessons) => completed = InitialLessons
      /\ Cardinality(InitialLessons) \in Nat
  BY <1>4, <1>5, FS_Subset, FS_CardinalityType
<1>7. Cardinality(completed) = Cardinality(InitialLessons)
  BY <1>2, <1>6, CompletedFinite
<1> QED
  BY <1>2, <1>6, <1>7

LEMMA EarnedStep ==
  ASSUME Few, LearnInv, earned, [Next]_vars
  PROVE  earned'
<1>0. /\ LearnInv' /\ kept /\ CatalogShape /\ CatalogShape'
  BY NextLearnInv DEF LearnInv, HonestInv
<1> SUFFICES ASSUME completedAt', ~edited' PROVE earned'
  BY DEF earned
<1>1. ~edited /\ completed \subseteq completed'
  BY <1>0, EditedForGood DEF kept
<1>2. liveLessons = InitialLessons /\ liveLessons' = InitialLessons
  BY <1>0, <1>1, Unedited DEF edited, liveLessons, InitialLessons, CatalogShape
<1>3. IsFiniteSet(completed') /\ Cardinality(completed') \in Nat
  <2>1. completed' \subseteq Ids
    BY DEF completed
  <2> QED BY <2>1, IdsAreFinite, FS_Subset, FS_CardinalityType
<1>4. Cardinality(InitialLessons) \in Nat
  BY FS_Subset, FS_CardinalityType, CatalogAssumption DEF InitialLessons
<1>5. ASSUME NEW S, S \subseteq completed', Cardinality(S) >= Cardinality(InitialLessons)
      PROVE  earned'
  <2>1. Cardinality(S) <= Cardinality(completed') /\ Cardinality(S) \in Nat
    BY <1>3, <1>5, FS_Subset, FS_CardinalityType
  <2>2. Cardinality(completed') >= Cardinality(InitialLessons)
    BY <1>3, <1>4, <1>5, <2>1
  <2> QED BY <1>2, <2>2 DEF earned
<1>6. CASE completedAt
  BY <1>1, <1>2, <1>5, <1>6 DEF earned
<1>7. CASE ~completedAt
  <2> PICK q \in requests : writeRow(q) /\ finishing(q) /\ UNCHANGED catalogVars
    BY <1>7, FinishingSteps
  <2>1. q \in Request /\ honest(q) /\ q.at = "write"
    BY DEF LearnInv, HonestInv, ProgressShape, writeRow
  <2>2. q.size = Cardinality(InitialLessons) /\ q.done \subseteq completed
    BY <1>1, <2>1 DEF honest
  <2>3. IsFiniteSet(q.done)
    BY <2>1, IdsAreFinite, FS_Subset DEF Request
  <2>4. Cardinality(q.done) \in Nat
    BY <2>3, FS_CardinalityType
  <2>5. Cardinality(q.done) >= Cardinality(InitialLessons)
    BY <1>4, <2>2, <2>4, WholePercent DEF Few, finishing, percentFor
  <2> QED BY <1>1, <1>5, <2>2, <2>5
<1> QED
  BY <1>6, <1>7

\* Whoever holds a certificate has completed the course, with as many records
\* as it has lessons unless lessons were added or removed, and with every lesson
\* of it if the records are of lessons of the course; for courses that begin
\* with fewer than 200 lessons, where nothing less is rounded to 100 %.
THEOREM CertificatesAreAlwaysEarned == Few => (Spec => []CertificatesAreEarned)
<1> SUFFICES ASSUME Few PROVE Spec => []CertificatesAreEarned
  OBVIOUS
<1>1. Init => earned
  BY DEF Init, ProgressInit, earned
<1>2. LearnInv /\ earned /\ [Next]_vars => earned'
  BY EarnedStep
<1>3. LearnInv /\ earned => CertificatesAreEarned
  BY EnoughIsAll DEF LearnInv, IssuesInv, earned, CertificatesAreEarned
<1> QED
  BY <1>1, <1>2, <1>3, LearnInvHolds, PTL DEF Spec

-----------------------------------------------------------------------------
(* What no step does                                                       *)

LEMMA GatewayTypes == LearnInv /\ GatewayTypeOK /\ [Next]_vars => GatewayTypeOK'
<1> SUFFICES ASSUME LearnInv, GatewayTypeOK, [Next]_vars PROVE GatewayTypeOK'
  OBVIOUS
<1> USE DEF GatewayTypeOK
<1>1. CASE UNCHANGED gatewayVars
  BY <1>1 DEF gatewayVars
<1>2. ASSUME NEW l \in Lessons, readLesson(l) PROVE GatewayTypeOK'
  BY <1>2 DEF readLesson
<1>3. ASSUME NEW r \in reads, NEW at \in {"check", "forward"}, NEW e \in BOOLEAN,
             answers(r, at, e), opened' = opened
      PROVE  GatewayTypeOK'
  <2>1. [r EXCEPT !.at = at, !.entitled = e] \in Read
    BY DEF Read
  <2> QED BY <1>3, <2>1 DEF answers
<1>4. ASSUME NEW r \in reads, courseIdForSlug(r) PROVE GatewayTypeOK'
  BY <1>3, <1>4 DEF courseIdForSlug
<1>5. ASSUME NEW r \in reads, checkEntitled(r) PROVE GatewayTypeOK'
  <2>1. isEntitled \in BOOLEAN
    BY DEF isEntitled
  <2> QED BY <1>3, <1>5, <2>1 DEF checkEntitled
<1>6. ASSUME NEW r \in reads, callFails(r) PROVE GatewayTypeOK'
  BY <1>3, <1>6 DEF callFails
<1>7. ASSUME NEW r \in reads, getLesson(r) PROVE GatewayTypeOK'
  BY <1>7 DEF getLesson, Read, Opened
<1> QED
  BY <1>1, <1>2, <1>4, <1>5, <1>6, <1>7, Moves
    DEF LearnInv, InCatalog, InProgress, InCertificates, InGateway, GatewayActs,
      GatewayRequest, GatewayStep, loseReads

\* What is given out is a preview, or was asked for past the pattern.
withheld == \A o \in opened' \ opened : o.matched => o.lesson \in Previews

LEMMA ShutStep ==
  ASSUME LearnInv, GatewayTypeOK, shut, [Next]_vars
  PROVE  (shut' \/ status' = "ACTIVE") /\ withheld
<1>0. requests = {} /\ ~isEntitled
  BY DEF shut, isEntitled
<1>1. ASSUME UNCHANGED progressVars, UNCHANGED gatewayVars
      PROVE  shut' /\ opened' = opened
  BY <1>1 DEF shut, progressVars, gatewayVars
<1>2. ASSUME ProgressActs, UNCHANGED gatewayVars
      PROVE  (shut' \/ status' = "ACTIVE") /\ opened' = opened
  <2>1. CASE openAccess \/ closeAccess
    BY <1>2, <2>1 DEF openAccess, closeAccess, shut, gatewayVars
  <2>2. ASSUME NEW l \in heartbeats, upsertPosition(l) PROVE shut'
    BY <1>2, <2>2 DEF upsertPosition, shut, gatewayVars
  <2>3. ASSUME NEW l \in Ids, fileElsewhere(l) \/ completeElsewhere(l) PROVE shut'
    BY <1>2, <2>3 DEF fileElsewhere, completeElsewhere, shut, gatewayVars
  <2> QED BY <1>0, <1>2, <2>1, <2>2, <2>3
    DEF ProgressActs, ProgressRequest, ProgressStep, loseRequests, completeLesson,
      savePosition, gatewayVars
<1>3. ASSUME GatewayActs, UNCHANGED progressVars
      PROVE  shut' /\ withheld
  <2>0. status' = status /\ requests' = {}
    BY <1>0, <1>3 DEF progressVars
  <2>1. ASSUME NEW r, r.matched => ~r.entitled, opened' = opened,
               reads' \subseteq reads \cup {r}
        PROVE  shut' /\ withheld
    BY <2>0, <2>1 DEF shut, withheld
  <2>2. ASSUME NEW l \in Lessons, readLesson(l) PROVE shut' /\ withheld
    <3> PICK r \in Read : (r.matched => ~r.entitled) /\ reads' = reads \cup {r}
      BY <2>2 DEF readLesson
    <3> QED BY <2>1, <2>2 DEF readLesson
  <2>3. ASSUME NEW r \in reads, courseIdForSlug(r) \/ checkEntitled(r) \/ callFails(r)
        PROVE  shut' /\ withheld
    <3>1. PICK at \in {"check", "forward"} : answers(r, at, FALSE) /\ opened' = opened
      <4>1. CASE courseIdForSlug(r)
        BY <4>1 DEF courseIdForSlug
      <4>2. CASE callFails(r)
        BY <4>2 DEF callFails
      <4>3. CASE checkEntitled(r)
        <5>1. isEntitled = FALSE
          BY <1>0 DEF isEntitled
        <5> QED BY <4>3, <5>1 DEF checkEntitled
      <4> QED BY <2>3, <4>1, <4>2, <4>3
    <3>2. ~[r EXCEPT !.at = at, !.entitled = FALSE].entitled
      BY DEF GatewayTypeOK, Read
    <3> QED BY <2>1, <3>1, <3>2 DEF answers
  <2>4. ASSUME NEW r \in reads, getLesson(r) PROVE shut' /\ withheld
    <3> PICK o : o = [lesson |-> r.lesson, matched |-> r.matched]
      OBVIOUS
    <3>1. opened' = opened \/ (opened' = opened \cup {o} /\ (r.entitled \/ r.lesson \in Previews))
      BY <2>4 DEF getLesson
    <3>2. o.matched = r.matched /\ o.lesson = r.lesson
      OBVIOUS
    <3>3. withheld
      BY <3>1, <3>2 DEF withheld, shut
    <3> QED BY <2>0, <2>4, <3>3 DEF getLesson, shut
  <2> QED BY <1>3, <2>2, <2>3, <2>4 DEF GatewayActs, GatewayRequest, GatewayStep, loseReads
<1> QED
  BY <1>1, <1>2, <1>3, Moves
    DEF LearnInv, InCatalog, InProgress, InCertificates, InGateway, ProgressActs, withheld

\* Once access is closed and nothing that began before is in flight, only a
\* new enrolment opens the course, and a read whose path the gateway matched
\* gets no lesson but a preview.
THEOREM ShutAlwaysStaysShut == Spec => ShutStaysShut
<1>1. Init => GatewayTypeOK
  BY DEF Init, GatewayInit, GatewayTypeOK
<1>2. LearnInv /\ GatewayTypeOK /\ [Next]_vars =>
        [shut => /\ shut' \/ status' = "ACTIVE"
                 /\ \A o \in opened' \ opened : o.matched => o.lesson \in Previews]_vars
  BY ShutStep DEF withheld
<1> QED
  BY <1>1, <1>2, GatewayTypes, LearnInvHolds, PTL DEF Spec, ShutStaysShut

LEMMA SerialStep ==
  ASSUME LearnInv, cert \in Cert, hasCert, [Next]_vars
  PROVE  /\ cert'.serial = cert.serial
         /\ cert.status = "REVOKED" => cert'.status = "REVOKED"
<1>1. CASE UNCHANGED cert
  BY <1>1
<1>2. CASE CertActs
  BY <1>2 DEF CertActs, CertRequest, CertStep, issueSteps, claim, revoke, deliverCompleted, issue,
    fetchProgress, fetchUserAndCourse, createCertificate, loseIssues, Cert
<1> QED
  BY <1>1, <1>2, Moves DEF LearnInv, InCatalog, InProgress, InCertificates, InGateway, certVars

\* Certificates and the serials handed out keep their types.
LEMMA CertsStep ==
  ASSUME LearnInv, cert \in Cert, minted \in Nat, [Next]_vars
  PROVE  cert' \in Cert /\ minted' \in Nat
<1>1. CASE CertActs
  BY <1>1 DEF CertActs, CertRequest, CertStep, issueSteps, claim, revoke, deliverCompleted, issue,
    fetchProgress, fetchUserAndCourse, createCertificate, loseIssues, Cert
<1>2. CASE UNCHANGED certVars
  BY <1>2 DEF certVars
<1> QED
  BY <1>1, <1>2, Moves DEF LearnInv, InCatalog, InProgress, InCertificates, InGateway

\* The serial of a certificate is for good, and so is its revocation.
THEOREM SerialsAreAlwaysStable == Spec => SerialsAreStable
<1> DEFINE T == cert \in Cert /\ minted \in Nat
<1>1. Init => T
  BY DEF Init, CertInit, NoCert, Cert
<1>2. LearnInv /\ T /\ [Next]_vars => T'
  BY CertsStep
<1>3. LearnInv /\ T /\ [Next]_vars =>
        [hasCert => /\ cert'.serial = cert.serial
                    /\ cert.status = "REVOKED" => cert'.status = "REVOKED"]_vars
  BY SerialStep
<1> QED
  BY <1>1, <1>2, <1>3, LearnInvHolds, PTL DEF Spec, SerialsAreStable

-----------------------------------------------------------------------------
(* Numbers that are kept twice                                             *)

\* Without a mishap nothing is lost, and what overlaps is remembered.
LEMMA Orderly ==
  ASSUME [Next]_vars, mishaps \in Nat, mishaps' = 0
  PROVE  /\ mishaps = 0
         /\ remember \/ UNCHANGED vars
         /\ \/ InCatalog(CatalogRequest \/ CatalogStep)
            \/ InProgress(ProgressRequest \/ ProgressStep)
            \/ UNCHANGED <<catalogVars, progressVars>>
<1>1. CASE Call
  BY <1>1 DEF Call, InCatalog, InProgress, InCertificates, InGateway
<1>2. CASE GoOn
  BY <1>2 DEF GoOn, InCatalog, InProgress, InCertificates, InGateway
<1>3. ~Mishap
  BY DEF Mishap
<1>4. CASE UNCHANGED vars
  BY <1>4 DEF vars
<1> QED
  BY <1>1, <1>2, <1>3, <1>4 DEF Next

LEMMA AtMostOne ==
  ASSUME NEW S, IsFiniteSet(S), ~(Cardinality(S) > 1)
  PROVE  \A x \in S : S = {x}
<1>1. Cardinality(S) \in Nat
  BY FS_CardinalityType
<1>2. Cardinality(S) = 0 \/ Cardinality(S) = 1
  BY <1>1
<1> QED
  BY <1>2, FS_EmptySet, FS_Singleton

LEMMA EditsAlone ==
  ASSUME CatalogShape', remember, "edits" \notin overlapped'
  PROVE  "edits" \notin overlapped /\ \A e \in edits' : edits' = {e}
<1>1. ~(Cardinality(edits') > 1)
  BY DEF remember
<1>2. IsFiniteSet(edits')
  BY DEF CatalogShape
<1> QED
  BY <1>1, <1>2, AtMostOne DEF remember

\* What the one edit in flight is about to write is right.
CountInv ==
  "edits" \notin overlapped /\ mishaps = 0 =>
    /\ edits = {} => lessonCount = Cardinality(liveLessons)
    /\ \A e \in edits :
         /\ edits = {e}
         /\ e.at = "create" => lessonCount = Cardinality(liveLessons)
         /\ e.at = "write" => e.n = Cardinality(liveLessons)

LEMMA CatalogCounts ==
  ASSUME CatalogShape, CountInv, "edits" \notin overlapped, mishaps = 0,
         CatalogRequest \/ CatalogStep, \A e \in edits' : edits' = {e}
  PROVE  CountInv'
<1> USE DEF rowVars, courseVars
<1>0. /\ \A e \in edits : isEdit(e) /\ edits = {e}
      /\ edits = {} => lessonCount = Cardinality(liveLessons)
      /\ \A e \in edits : /\ e.at = "create" => lessonCount = Cardinality(liveLessons)
                          /\ e.at = "write" => e.n = Cardinality(liveLessons)
  BY DEF CatalogShape, CountInv
<1>same. ASSUME liveLessons' = liveLessons, edits' = edits, lessonCount' = lessonCount
         PROVE  CountInv'
  BY <1>0, <1>same DEF CountInv
<1>rows. ASSUME UNCHANGED <<rows, removed>> PROVE liveLessons' = liveLessons
  BY <1>rows DEF liveLessons
<1>1. ASSUME NEW r \in Rows, beginAdd(r) PROVE CountInv'
  <2> PICK n \in GivenOrders \cup nextOrders(r) :
        edits' = edits \cup {[row |-> r, at |-> "create", n |-> n]}
    BY <1>1 DEF beginAdd
  <2> PICK d : d = [row |-> r, at |-> "create", n |-> n]
    OBVIOUS
  <2>3. d.row = r /\ edits' = edits \cup {d}
    OBVIOUS
  <2>1. edits = {}
    <3> SUFFICES ASSUME NEW e \in edits PROVE FALSE
      OBVIOUS
    <3>1. edits' = {e} /\ d \in edits'
      BY <2>3
    <3> QED BY <1>1, <2>3, <3>1 DEF beginAdd, untouched
  <2>2. liveLessons' = liveLessons /\ lessonCount' = lessonCount
    BY <1>1, <1>rows DEF beginAdd
  <2> QED BY <1>0, <2>1, <2>2 DEF CountInv
<1>2. ASSUME NEW l \in Lessons, edits' = edits \cup {[row |-> l, at |-> "count", n |-> 0]}
      PROVE  CountInv'
  <2> PICK d : d = [row |-> l, at |-> "count", n |-> 0]
    OBVIOUS
  <2>1. d.at = "count" /\ d \in edits'
    BY <1>2
  <2>2. edits' = {d}
    BY <2>1
  <2> QED BY <2>1, <2>2 DEF CountInv
<1>3. ASSUME NEW m \in Modules, updateModule(m) PROVE CountInv'
  BY <1>3, <1>same, <1>rows DEF updateModule, changeRow
<1>4. ASSUME NEW m \in Modules, removeModule(m) PROVE CountInv'
  <2>1. liveLessons' = liveLessons
    BY <1>4, CatalogAssumption DEF removeModule, liveLessons
  <2> QED BY <1>4, <1>same, <2>1 DEF removeModule
<1>5. ASSUME NEW group, reorder(group) PROVE CountInv'
  BY <1>5, <1>same, <1>rows DEF reorder
<1>6. ASSUME NEW to, beginCourseWrite(to) PROVE CountInv'
  BY <1>6, <1>same, <1>rows DEF beginCourseWrite
<1>7. CASE CatalogRequest
  BY <1>1, <1>2, <1>3, <1>4, <1>5, <1>6, <1>7
    DEF CatalogRequest, addLesson, addModule, updateLesson, removeLesson,
      publish, unpublish, update, remove, Rows
<1>8. ASSUME NEW e \in edits, createRow(e) PROVE CountInv'
  <2>1. isEdit(e) /\ edits = {e} /\ lessonCount' = Cardinality(liveLessons)
    BY <1>0, <1>8 DEF createRow
  <2>2. CASE edits' = edits \ {e} /\ UNCHANGED <<rows, removed>>
    BY <1>rows, <2>1, <2>2 DEF CountInv
  <2>3. CASE /\ edits' = edits \ {e} /\ e.row \notin Lessons
             /\ rows' = rows \cup {e.row} /\ removed' = removed
    <3>1. liveLessons' = liveLessons
      BY <2>3 DEF liveLessons
    <3> QED BY <2>1, <2>3, <3>1 DEF CountInv
  <2>4. CASE goesOn(e, "count")
    <3>1. [e EXCEPT !.at = "count"].at = "count"
      BY <2>1 DEF isEdit
    <3> QED BY <2>1, <2>4, <3>1 DEF goesOn, CountInv
  <2> QED BY <1>8, <2>2, <2>3, <2>4 DEF createRow
<1>9. ASSUME NEW e \in edits, countLessons(e) PROVE CountInv'
  <2> PICK d : d = [e EXCEPT !.at = "write", !.n = Cardinality(liveLessons)]
    OBVIOUS
  <2>1. d.at = "write" /\ d.n = Cardinality(liveLessons)
    BY <1>0 DEF isEdit
  <2>2. edits' = {d}
    BY <1>0, <1>9 DEF countLessons
  <2>3. liveLessons' = liveLessons
    BY <1>9, <1>rows DEF countLessons
  <2> QED BY <2>1, <2>2, <2>3 DEF CountInv
<1>10. ASSUME NEW e \in edits, writeCounters(e) PROVE CountInv'
  <2>1. edits' = {} /\ lessonCount' = Cardinality(liveLessons)
    BY <1>0, <1>10 DEF writeCounters
  <2>2. liveLessons' = liveLessons
    BY <1>10, <1>rows DEF writeCounters
  <2> QED BY <2>1, <2>2 DEF CountInv
<1>11. ASSUME NEW to, writeCourse(to) PROVE CountInv'
  BY <1>11, <1>same, <1>rows DEF writeCourse
<1>12. CASE CatalogStep
  BY <1>8, <1>9, <1>10, <1>11, <1>12 DEF CatalogStep, editSteps
<1> QED
  BY <1>7, <1>12

LEMMA NextCounts == LearnInv /\ CountInv /\ [Next]_vars => CountInv'
<1> SUFFICES ASSUME LearnInv, CountInv, [Next]_vars, "edits" \notin overlapped', mishaps' = 0
             PROVE  CountInv'
  BY DEF CountInv
<1>1. /\ mishaps = 0 /\ (remember \/ UNCHANGED vars)
      /\ InCatalog(CatalogRequest \/ CatalogStep) \/ UNCHANGED catalogVars
  BY Orderly DEF LearnInv, InProgress
<1>2. CatalogShape /\ CatalogShape'
  BY NextLearnInv DEF LearnInv, HonestInv
<1>3. CASE UNCHANGED vars
  BY <1>3 DEF vars, catalogVars, CountInv, liveLessons
<1>4. CASE remember
  <2>1. "edits" \notin overlapped /\ \A e \in edits' : edits' = {e}
    BY <1>2, <1>4, EditsAlone
  <2>2. CASE CatalogRequest \/ CatalogStep
    BY <1>1, <1>2, <2>1, <2>2, CatalogCounts
  <2>3. CASE UNCHANGED catalogVars
    BY <1>1, <2>1, <2>3 DEF catalogVars, CountInv, liveLessons
  <2> QED BY <1>1, <2>2, <2>3 DEF InCatalog
<1> QED
  BY <1>1, <1>3, <1>4

\* The number of lessons a course advertises is right once its edits are
\* through, if no two overlapped and none failed.
THEOREM CountersAlwaysFollowTheLessons == Spec => []CountersFollowTheLessons
<1>1. Init => CountInv
  <2> SUFFICES ASSUME Init PROVE CountInv
    OBVIOUS
  <2>1. liveLessons = InitialRows \cap Lessons
    BY DEF Init, CatalogInit, liveLessons
  <2> QED BY <2>1 DEF Init, CatalogInit, CountInv
<1>2. CountInv => CountersFollowTheLessons
  BY DEF CountInv, CountersFollowTheLessons
<1> QED
  BY <1>1, <1>2, NextCounts, LearnInvHolds, PTL DEF Spec

\* There are finitely many requests.
LEMMA ProgressFinite ==
  ASSUME ProgressActs, IsFiniteSet(requests)
  PROVE  IsFiniteSet(requests')
<1>1. ASSUME requests' \subseteq requests PROVE IsFiniteSet(requests')
  BY <1>1, FS_Subset
<1>2. ASSUME NEW l \in Ids, completeLesson(l) PROVE IsFiniteSet(requests')
  BY <1>2, FS_AddElement DEF completeLesson
<1>3. ASSUME NEW q \in requests, NEW r, becomes(q, r) PROVE IsFiniteSet(requests')
  <2>1. IsFiniteSet(requests \ {q})
    BY FS_RemoveElement
  <2> QED BY <1>3, <2>1, FS_AddElement DEF becomes
<1>4. ASSUME NEW q \in requests, requestSteps(q) PROVE IsFiniteSet(requests')
  BY <1>1, <1>3, <1>4 DEF requestSteps, recordLesson, readRecords, readCurriculum, readRow,
    writeRow, publishCompleted
<1>5. ASSUME NEW l, \/ savePosition(l) \/ upsertPosition(l)
                    \/ fileElsewhere(l) \/ completeElsewhere(l)
      PROVE  IsFiniteSet(requests')
  BY <1>1, <1>5 DEF savePosition, upsertPosition, fileElsewhere, completeElsewhere
<1>6. CASE openAccess \/ closeAccess \/ loseRequests
  BY <1>1, <1>6 DEF openAccess, closeAccess, loseRequests
<1> QED
  BY <1>2, <1>4, <1>5, <1>6 DEF ProgressActs, ProgressRequest, ProgressStep

LEMMA RequestsAlone ==
  ASSUME IsFiniteSet(requests'), remember, "requests" \notin overlapped'
  PROVE  "requests" \notin overlapped /\ \A q \in requests' : requests' = {q}
<1>1. ~(Cardinality(requests') > 1)
  BY DEF remember
<1> QED
  BY <1>1, AtMostOne DEF remember

right == percentOf(Cardinality(completed), Cardinality(liveLessons))

\* What the one request in flight is about to write is right.
fresh ==
  /\ requests = {} => percent = right
  /\ \A q \in requests :
       /\ q.at \in {"record", "announce"} => percent = right
       /\ q.at \in {"readCurriculum", "readRow", "write"} => q.done = completed

FreshInv ==
  "requests" \notin overlapped /\ mishaps = 0 /\ ~edited =>
    /\ \A q \in requests : requests = {q}
    /\ strayed = {} => fresh

LEMMA ProgressFresh ==
  ASSUME HonestInv, FreshInv, "requests" \notin overlapped, mishaps = 0, ~edited,
         ProgressRequest \/ ProgressStep, UNCHANGED catalogVars,
         \A q \in requests' : requests' = {q}, strayed = {}, strayed' = {}
  PROVE  fresh'
<1>0. /\ \A q \in requests : q \in Request /\ honest(q) /\ requests = {q}
      /\ requests = {} => percent = right
      /\ \A q \in requests :
           /\ q.at \in {"record", "announce"} => percent = right
           /\ q.at \in {"readCurriculum", "readRow", "write"} => q.done = completed
  BY DEF HonestInv, ProgressShape, FreshInv, fresh
<1>live. liveLessons' = liveLessons
  BY DEF catalogVars, liveLessons
<1>right. ASSUME completed' = completed PROVE right' = right
  BY <1>live, <1>right DEF right
<1>same. ASSUME UNCHANGED <<percent, requests>>, completed' = completed PROVE fresh'
  BY <1>0, <1>right, <1>same DEF fresh
<1>1. ASSUME NEW l \in Ids, completeLesson(l) PROVE fresh'
  <2> PICK r : r = [lesson |-> l, at |-> "record", done |-> {}, size |-> 0, was |-> FALSE]
    OBVIOUS
  <2>1. r.at = "record" /\ r.lesson = l /\ requests' = requests \cup {r}
    BY <1>1 DEF completeLesson
  <2>2. requests = {}
    <3> SUFFICES ASSUME NEW q \in requests PROVE FALSE
      OBVIOUS
    <3>1. requests' = {q} /\ r \in requests'
      BY <2>1
    <3> QED BY <1>1, <2>1, <3>1 DEF completeLesson
  <2>3. completed' = completed /\ percent' = percent
    BY <1>1, CompletedSame DEF completeLesson
  <2> QED BY <1>0, <1>right, <2>1, <2>2, <2>3 DEF fresh
<1>2. ASSUME NEW l, savePosition(l) PROVE fresh'
  BY <1>2, <1>same, CompletedSame DEF savePosition
<1>3. CASE openAccess \/ closeAccess
  BY <1>3, <1>same, CompletedSame DEF openAccess, closeAccess
<1>4. ASSUME NEW q \in requests, recordLesson(q) PROVE fresh'
  <2> PICK r : r = [q EXCEPT !.at = "read"]
    OBVIOUS
  <2>1. r.at = "read" /\ requests' = {r}
    BY <1>0, <1>4 DEF recordLesson, becomes, Request
  <2> QED BY <2>1 DEF fresh
<1>5. ASSUME NEW q \in requests, readRecords(q) PROVE fresh'
  <2> PICK r : r = [q EXCEPT !.done = completed,
                             !.at = IF @ = "read" THEN "readCurriculum" ELSE "readRow"]
    OBVIOUS
  <2>1. r.done = completed /\ r.at \in {"readCurriculum", "readRow"} /\ requests' = {r}
    BY <1>0, <1>5 DEF readRecords, becomes, Request
  <2>2. completed' = completed
    BY <1>5, CompletedSame DEF readRecords
  <2> QED BY <2>1, <2>2 DEF fresh
<1>6. ASSUME NEW q \in requests, readCurriculum(q) PROVE fresh'
  <2> PICK r : r = [q EXCEPT !.size = Cardinality(liveLessons),
                             !.at = IF @ = "read" THEN "readRecords" ELSE "readRow"]
    OBVIOUS
  <2>1. /\ requests' = {r} /\ r.done = q.done
        /\ r.at = "readRecords" \/ (r.at = "readRow" /\ q.at = "readCurriculum")
    BY <1>0, <1>6 DEF readCurriculum, becomes, Request
  <2>2. completed' = completed
    BY <1>6, CompletedSame DEF readCurriculum
  <2> QED BY <1>0, <2>1, <2>2 DEF fresh
<1>7. ASSUME NEW q \in requests, readRow(q) PROVE fresh'
  <2> PICK r : r = [q EXCEPT !.was = completedAt, !.at = "write"]
    OBVIOUS
  <2>1. requests' = {r} /\ r.done = q.done /\ r.at = "write" /\ q.at = "readRow"
    BY <1>0, <1>7 DEF readRow, becomes, Request
  <2>2. completed' = completed
    BY <1>7, CompletedSame DEF readRow
  <2> QED BY <1>0, <2>1, <2>2 DEF fresh
<1>8. ASSUME NEW q \in requests, writeRow(q) PROVE fresh'
  <2> PICK r : r = [q EXCEPT !.at = "announce"]
    OBVIOUS
  <2>1. r.at = "announce" /\ requests' \subseteq {r} /\ completed' = completed
    BY <1>0, <1>8, CompletedSame DEF writeRow, becomes, Request
  <2>2. q.done = completed /\ q.size = Cardinality(liveLessons)
    BY <1>0, <1>8, Unedited DEF writeRow, honest, HonestInv
  <2>3. percent' = right'
    BY <1>8, <1>right, <2>1, <2>2 DEF writeRow, percentFor, right
  <2> QED BY <2>1, <2>3 DEF fresh
<1>9. ASSUME NEW q \in requests, publishCompleted(q) PROVE fresh'
  <2>1. /\ requests' = {} /\ percent' = percent /\ percent = right /\ completed' = completed
    BY <1>0, <1>9, CompletedSame DEF publishCompleted
  <2> QED BY <1>right, <2>1 DEF fresh
<1>10. ASSUME NEW l \in heartbeats, upsertPosition(l) PROVE fresh'
  <2>1. record \in [Ids -> {"none", "STARTED", "COMPLETED", "away"}] /\ l \in Ids
    BY DEF HonestInv, ProgressShape
  <2>2. completed' = completed
    BY <1>10, <2>1 DEF upsertPosition, completed
  <2> QED BY <1>10, <1>same, <2>2 DEF upsertPosition
<1>11. ASSUME NEW l \in Ids, fileElsewhere(l) PROVE fresh'
  <2>1. record \in [Ids -> {"none", "STARTED", "COMPLETED", "away"}]
    BY DEF HonestInv, ProgressShape
  <2>2. completed' = completed
    BY <1>11, <2>1 DEF fileElsewhere, completed
  <2> QED BY <1>11, <1>same, <2>2 DEF fileElsewhere
<1>12. ASSUME NEW l \in Ids PROVE ~completeElsewhere(l)
  BY DEF completeElsewhere
<1> QED
  BY <1>1, <1>2, <1>3, <1>4, <1>5, <1>6, <1>7, <1>8, <1>9, <1>10, <1>11, <1>12
    DEF ProgressRequest, ProgressStep, requestSteps

LEMMA NextFresh ==
  LearnInv /\ IsFiniteSet(requests) /\ FreshInv /\ [Next]_vars
    => FreshInv' /\ IsFiniteSet(requests')
<1> SUFFICES ASSUME LearnInv, IsFiniteSet(requests), FreshInv, [Next]_vars
             PROVE  FreshInv' /\ IsFiniteSet(requests')
  OBVIOUS
<1>0. /\ HonestInv /\ CatalogShape /\ CatalogShape' /\ kept
  BY NextLearnInv DEF LearnInv, HonestInv
<1>finite. IsFiniteSet(requests')
  <2>1. UNCHANGED progressVars => requests' = requests
    BY DEF progressVars
  <2> QED BY <2>1, ProgressFinite, Moves
    DEF LearnInv, InCatalog, InProgress, InCertificates, InGateway, ProgressActs
<1> SUFFICES ASSUME "requests" \notin overlapped', mishaps' = 0, ~edited' PROVE FreshInv'
  BY <1>finite DEF FreshInv
<1>1. /\ mishaps = 0 /\ (remember \/ UNCHANGED vars)
      /\ \/ InProgress(ProgressRequest \/ ProgressStep)
         \/ UNCHANGED progressVars
  BY Orderly DEF LearnInv, InCatalog
<1>2. ~edited /\ liveLessons' = liveLessons
  <2>1. ~edited
    BY <1>0, EditedForGood DEF kept
  <2> QED BY <1>0, <2>1, Unedited DEF edited, liveLessons, InitialLessons, CatalogShape
<1>3. ASSUME UNCHANGED progressVars, "requests" \notin overlapped,
             \A q \in requests' : requests' = {q}
      PROVE  FreshInv'
  <2>1. completed' = completed /\ UNCHANGED <<requests, percent, strayed>>
    BY <1>3, CompletedSame DEF progressVars
  <2>2. fresh => fresh'
    BY <1>2, <2>1 DEF fresh, right
  <2> QED BY <1>1, <1>2, <1>3, <2>1, <2>2 DEF FreshInv
<1>4. CASE UNCHANGED vars
  <2>1. UNCHANGED progressVars /\ overlapped' = overlapped
    BY <1>4 DEF vars
  <2>2. requests' = requests
    BY <2>1 DEF progressVars
  <2> QED BY <1>1, <1>2, <1>3, <2>1, <2>2 DEF FreshInv
<1>5. CASE remember
  <2>1. "requests" \notin overlapped /\ \A q \in requests' : requests' = {q}
    BY <1>5, <1>finite, RequestsAlone
  <2>2. CASE InProgress(ProgressRequest \/ ProgressStep)
    <3>1. strayed' = {} => strayed = {}
      BY <2>2 DEF InProgress, ProgressRequest, ProgressStep, requestSteps, completeLesson,
        savePosition, fileElsewhere, completeElsewhere, openAccess, closeAccess,
        recordLesson, readRecords, readCurriculum, readRow, writeRow, publishCompleted,
        upsertPosition
    <3>2. strayed' = {} => fresh'
      BY <1>0, <1>1, <1>2, <2>1, <2>2, <3>1, ProgressFresh DEF InProgress
    <3> QED BY <2>1, <3>2 DEF FreshInv
  <2> QED BY <1>1, <1>3, <2>1, <2>2
<1> QED
  BY <1>1, <1>4, <1>5

LEMMA FreshAlways == Spec => [](FreshInv /\ IsFiniteSet(requests))
<1> DEFINE I == FreshInv /\ IsFiniteSet(requests)
<1>1. Init => I
  <2> SUFFICES ASSUME Init PROVE I
    OBVIOUS
  <2>1. completed = {} /\ requests = {} /\ percent = 0
    BY DEF Init, ProgressInit, completed
  <2>2. Cardinality(completed) = 0 /\ Cardinality(liveLessons) \in Nat
    BY <2>1, FS_EmptySet, FS_Subset, FS_CardinalityType, CatalogAssumption DEF liveLessons
  <2>3. \A n \in Nat : n > 0 => (200 * 0 + n) \div (2 * n) = 0
    OBVIOUS
  <2>4. right = 0
    BY <2>2, <2>3 DEF right, percentOf
  <2> QED BY <2>1, <2>4, FS_EmptySet DEF FreshInv, fresh
<1>2. LearnInv /\ I /\ [Next]_vars => I'
  BY NextFresh
<1> QED
  BY <1>1, <1>2, LearnInvHolds, PTL DEF Spec

\* The percentage on the enrollment is that of the records once the requests
\* are through, if no two overlapped, none failed, nothing was edited and no
\* record of the course was completed under another.
THEOREM PercentIsAlwaysFresh == Spec => []PercentIsFresh
<1>1. FreshInv => PercentIsFresh
  BY DEF FreshInv, fresh, PercentIsFresh, right
<1> QED
  BY <1>1, FreshAlways, PTL
-----------------------------------------------------------------------------
(* Reordering                                                              *)

\* A request that names every row of a group, each once.
LEMMA Named ==
  ASSUME NEW group, IsFiniteSet(group), NEW ids \in SetToSeqs(group)
  PROVE  LET n == Cardinality(group) IN
         /\ n \in Nat /\ Len(ids) = n
         /\ ids \in [1..n -> group]
         /\ \A i, j \in 1..n : ids[i] = ids[j] => i = j
         /\ \A r \in group : \E i \in 1..n : ids[i] = r
<1> PICK n : n = Cardinality(group)
  OBVIOUS
<1>1. n \in Nat
  BY FS_CardinalityType
<1>2. ids \in [1..n -> group] /\ \A i, j \in 1..n : ids[i] = ids[j] => i = j
  BY DEF SetToSeqs
<1>3. Len(ids) = n
  <2>1. ids \in Seq(group)
    BY <1>1, <1>2, SeqDef
  <2>2. 1..Len(ids) = 1..n /\ Len(ids) \in Nat
    BY <1>2, <2>1, LenProperties
  <2> QED BY <1>1, <2>2
<1>4. ids \in Surjection(1..n, group)
  <2>1. ids \in Injection(1..n, group)
    BY <1>2 DEF Injection, IsInjective
  <2>2. IsFiniteSet(1..n) /\ Cardinality(1..n) = n
    BY <1>1, FS_Interval
  <2> QED BY <2>1, <2>2, FS_Injection
<1> QED
  BY <1>1, <1>2, <1>3, <1>4 DEF Surjection

\* What k updates do to a row: it takes its offset when its turn has come.
LEMMA AfterUpdates ==
  ASSUME NEW order, NEW offsets, NEW ids, NEW k \in Nat,
         \A i \in 1..k : ids[i] \in Rows,
         \A i, j \in 1..k : ids[i] = ids[j] => i = j,
         NEW o, o = after(order, ids, offsets, k)
  PROVE  /\ DOMAIN o = Rows
         /\ \A i \in 1..k : o[ids[i]] = offsets[i]
         /\ \A r \in Rows : (\A i \in 1..k : ids[i] # r) => o[r] = order[r]
<1>1. ASSUME NEW i \in 1..k PROVE o[ids[i]] = offsets[i]
  <2>1. (CHOOSE j \in 1..k : ids[j] = ids[i]) = i
    OBVIOUS
  <2> QED BY <2>1 DEF after
<1> QED
  BY <1>1 DEF after

LEMMA GroupsAreFinite ==
  ASSUME NEW r \in Rows
  PROVE  IsFiniteSet(siblingRows(r)) /\ siblingRows(r) \subseteq Rows
<1>1. siblingRows(r) \subseteq Lessons \/ siblingRows(r) \subseteq Modules
  BY DEF siblingRows, siblings
<1> QED
  BY <1>1, FS_Subset, CatalogAssumption DEF Rows

\* The siblings of a row have the same siblings.
LEMMA OneGroup ==
  ASSUME NEW r \in Rows, NEW s \in siblingRows(r)
  PROVE  siblingRows(s) = siblingRows(r)
BY CatalogAssumption DEF siblingRows, siblings, Rows

\* A reorder of a whole group, from any sort orders.
LEMMA ReorderOfAll ==
  ASSUME rows \subseteq Rows, NEW order \in [Rows -> Nat], NEW r \in rows,
         NEW ids \in SetToSeqs(siblingRows(r))
  PROVE  LET new == reordered(order, ids) IN
         /\ new # Aborted
         /\ \A i \in DOMAIN ids : new[ids[i]] = i - 1
         /\ \A s \in Rows \ siblingRows(r) : new[s] = order[s]
<1> PICK group : group = siblingRows(r)
  OBVIOUS
<1> PICK n : n = Cardinality(group)
  OBVIOUS
<1>0. r \in Rows /\ group \subseteq Rows /\ IsFiniteSet(group)
  BY GroupsAreFinite
<1>1. /\ n \in Nat /\ Len(ids) = n /\ ids \in [1..n -> group] /\ ids \in [1..n -> Rows]
      /\ \A i, j \in 1..n : ids[i] = ids[j] => i = j
      /\ \A s \in group : \E i \in 1..n : ids[i] = s
  BY <1>0, Named
<1>n. /\ n \in Nat /\ \A i \in 1..n : ids[i] \in Rows
      /\ \A i, j \in 1..n : ids[i] = ids[j] => i = j
  BY <1>1
<1>2. \A i \in 1..n : siblingRows(ids[i]) = group
  BY <1>0, <1>1, OneGroup
<1>3. \A o : DOMAIN o = Rows => o # Aborted
  BY <1>0 DEF Aborted
<1> PICK park : park = parking(ids)
  OBVIOUS
<1> PICK fin : fin = final(ids)
  OBVIOUS
<1>4. \A i \in 1..n : park[i] = -i /\ fin[i] = i - 1
  BY <1>1 DEF parking, final
<1> PICK parked : parked = after(order, ids, park, n)
  OBVIOUS
<1>5. placeAll(order, ids, park) = parked
  <2>1. ASSUME NEW i \in 1..n PROVE ~collides(order, ids, park, i)
    <3> SUFFICES ASSUME NEW s \in group \ {ids[i]},
                        after(order, ids, park, i - 1)[s] = park[i]
                 PROVE  FALSE
      BY <1>2 DEF collides
    <3>1. /\ i - 1 \in Nat /\ \A h \in 1..(i - 1) : ids[h] \in Rows
          /\ \A g, h \in 1..(i - 1) : ids[g] = ids[h] => g = h
      <4>1. i - 1 \in Nat /\ 1..(i - 1) \subseteq 1..n
        BY <1>1
      <4> QED BY <1>n, <4>1
    <3>2. PICK j \in 1..n : ids[j] = s
      BY <1>1
    <3> PICK o : o = after(order, ids, park, i - 1)
      OBVIOUS
    <3>3. /\ \A h \in 1..(i - 1) : o[ids[h]] = park[h]
          /\ \A t \in Rows : (\A h \in 1..(i - 1) : ids[h] # t) => o[t] = order[t]
      BY <3>1, AfterUpdates
    <3>4. o[s] = park[i]
      OBVIOUS
    <3>5. CASE j \in 1..(i - 1)
      <4>1. park[j] = park[i]
        BY <3>2, <3>3, <3>4, <3>5
      <4> QED BY <1>1, <1>4, <3>5, <4>1
    <3>6. CASE j \notin 1..(i - 1)
      <4>1. \A h \in 1..(i - 1) : ids[h] # s
        BY <1>1, <3>2, <3>6
      <4>2. order[s] = park[i]
        BY <1>0, <3>3, <3>4, <4>1
      <4> QED BY <1>0, <1>1, <1>4, <4>2
    <3> QED BY <3>5, <3>6
  <2>2. order # Aborted /\ DOMAIN ids = 1..n
    BY <1>1, <1>3
  <2> QED BY <1>1, <2>1, <2>2 DEF placeAll
<1>6. /\ DOMAIN parked = Rows
      /\ \A i \in 1..n : parked[ids[i]] = -i
      /\ \A s \in Rows \ group : parked[s] = order[s]
  <2>1. /\ DOMAIN parked = Rows
        /\ \A i \in 1..n : parked[ids[i]] = park[i]
        /\ \A s \in Rows : (\A i \in 1..n : ids[i] # s) => parked[s] = order[s]
    BY <1>n, AfterUpdates
  <2>2. \A i \in 1..n : parked[ids[i]] = -i
    BY <1>4, <2>1
  <2>3. \A s \in Rows \ group : parked[s] = order[s]
    BY <1>1, <2>1
  <2> QED BY <2>1, <2>2, <2>3
<1> PICK new : new = after(parked, ids, fin, n)
  OBVIOUS
<1>7. placeAll(parked, ids, fin) = new
  <2>1. ASSUME NEW i \in 1..n PROVE ~collides(parked, ids, fin, i)
    <3> SUFFICES ASSUME NEW s \in group \ {ids[i]},
                        after(parked, ids, fin, i - 1)[s] = fin[i]
                 PROVE  FALSE
      BY <1>2 DEF collides
    <3>1. /\ i - 1 \in Nat /\ \A h \in 1..(i - 1) : ids[h] \in Rows
          /\ \A g, h \in 1..(i - 1) : ids[g] = ids[h] => g = h
      <4>1. i - 1 \in Nat /\ 1..(i - 1) \subseteq 1..n
        BY <1>1
      <4> QED BY <1>n, <4>1
    <3>2. PICK j \in 1..n : ids[j] = s
      BY <1>1
    <3> PICK o : o = after(parked, ids, fin, i - 1)
      OBVIOUS
    <3>3. /\ \A h \in 1..(i - 1) : o[ids[h]] = fin[h]
          /\ \A t \in Rows : (\A h \in 1..(i - 1) : ids[h] # t) => o[t] = parked[t]
      BY <3>1, AfterUpdates
    <3>4. o[s] = fin[i]
      OBVIOUS
    <3>5. CASE j \in 1..(i - 1)
      <4>1. fin[j] = fin[i]
        BY <3>2, <3>3, <3>4, <3>5
      <4> QED BY <1>1, <1>4, <3>5, <4>1
    <3>6. CASE j \notin 1..(i - 1)
      <4>1. \A h \in 1..(i - 1) : ids[h] # s
        BY <1>1, <3>2, <3>6
      <4>2. parked[s] = fin[i]
        BY <1>0, <3>3, <3>4, <4>1
      <4> QED BY <1>1, <1>4, <1>6, <3>2, <4>2
    <3> QED BY <3>5, <3>6
  <2>2. parked # Aborted /\ DOMAIN ids = 1..n
    BY <1>1, <1>3, <1>6
  <2> QED BY <1>1, <2>1, <2>2 DEF placeAll
<1>8. /\ DOMAIN new = Rows
      /\ \A i \in 1..n : new[ids[i]] = i - 1
      /\ \A s \in Rows \ group : new[s] = order[s]
  <2>1. /\ DOMAIN new = Rows
        /\ \A i \in 1..n : new[ids[i]] = fin[i]
        /\ \A s \in Rows : (\A i \in 1..n : ids[i] # s) => new[s] = parked[s]
    BY <1>n, AfterUpdates
  <2> QED BY <1>1, <1>4, <1>6, <2>1
<1>9. reordered(order, ids) = new
  BY <1>5, <1>7 DEF reordered
<1> QED
  BY <1>1, <1>3, <1>8, <1>9

\* A reorder of what is left of a group, where it succeeds.
LEMMA ReorderType ==
  ASSUME NEW order \in [Rows -> Nat], NEW group, group \subseteq Rows, IsFiniteSet(group),
         NEW ids \in SetToSeqs(group), reordered(order, ids) # Aborted
  PROVE  reordered(order, ids) \in [Rows -> Nat]
<1> PICK n : n = Cardinality(group)
  OBVIOUS
<1>1. /\ n \in Nat /\ Len(ids) = n /\ ids \in [1..n -> group] /\ ids \in [1..n -> Rows]
      /\ \A i, j \in 1..n : ids[i] = ids[j] => i = j
  BY Named
<1> PICK fin : fin = final(ids)
  OBVIOUS
<1> PICK park : park = parking(ids)
  OBVIOUS
<1> PICK parked : parked = after(order, ids, park, n)
  OBVIOUS
<1> PICK new : new = after(parked, ids, fin, n)
  OBVIOUS
<1>2. reordered(order, ids) = new
  <2>1. placeAll(order, ids, park) = parked
    BY <1>1 DEF reordered, placeAll
  <2> QED BY <1>1, <2>1 DEF reordered, placeAll
<1>3. \A i \in 1..n : fin[i] \in Nat
  BY <1>1 DEF final
<1>n. /\ n \in Nat /\ \A i \in 1..n : ids[i] \in Rows
      /\ \A i, j \in 1..n : ids[i] = ids[j] => i = j
  BY <1>1
<1>park. \A s \in Rows : (\A i \in 1..n : ids[i] # s) => parked[s] = order[s]
  BY <1>n, AfterUpdates
<1>new. /\ DOMAIN new = Rows
        /\ \A i \in 1..n : new[ids[i]] = fin[i]
        /\ \A s \in Rows : (\A i \in 1..n : ids[i] # s) => new[s] = parked[s]
  BY <1>n, AfterUpdates
<1>4. ASSUME NEW s \in Rows PROVE new[s] \in Nat
  <2>1. CASE \E i \in 1..n : ids[i] = s
    BY <1>3, <1>new, <2>1
  <2>2. CASE \A i \in 1..n : ids[i] # s
    BY <1>park, <1>new, <2>2
  <2> QED BY <2>1, <2>2
<1>5. new = [s \in Rows |-> new[s]]
  BY DEF after
<1> QED
  BY <1>2, <1>4, <1>5

-----------------------------------------------------------------------------
(* Types                                                                   *)

NewOrder == sortOrder' = sortOrder \/ sortOrder' \in [Rows -> Nat]

LEMMA CatalogTypes ==
  ASSUME CatalogShape, CatalogTypeOK, CatalogActs
  PROVE  CatalogTypeOK'
<1>0. /\ rows' \subseteq Rows /\ removed' \subseteq rows'
      /\ rows \subseteq Rows /\ edits \subseteq Edit /\ GivenOrders \subseteq Nat
      /\ sortOrder \in [Rows -> Nat]
  BY CatalogKeeps, CatalogAssumption DEF CatalogShape, CatalogTypeOK
<1>row. ASSUME NewOrder, edits' \subseteq Edit, UNCHANGED courseVars PROVE CatalogTypeOK'
  BY <1>0, <1>row DEF CatalogTypeOK, courseVars, NewOrder
<1>new. ASSUME NEW r \in Rows, NEW at \in {"create", "count", "write"}, NEW n \in Nat
        PROVE  [row |-> r, at |-> at, n |-> n] \in Edit
  BY DEF Edit
<1>1. ASSUME NEW r \in Rows, beginAdd(r) PROVE CatalogTypeOK'
  <2>1. nextOrders(r) \subseteq Nat
    BY <1>0 DEF nextOrders, siblingRows
  <2> QED BY <1>0, <1>1, <1>row, <1>new, <2>1 DEF beginAdd, rowVars, NewOrder
<1>2. ASSUME NEW r \in Rows, changeRow(r), edits' \subseteq Edit PROVE CatalogTypeOK'
  BY <1>0, <1>2, <1>row DEF changeRow, courseVars, NewOrder
<1>3. ASSUME NEW l \in Lessons, updateLesson(l) \/ removeLesson(l) PROVE CatalogTypeOK'
  <2>1. l \in Rows /\ edits' = edits \cup {[row |-> l, at |-> "count", n |-> 0]}
    BY <1>3 DEF updateLesson, removeLesson, Rows
  <2>2. edits' \subseteq Edit
    BY <1>0, <1>new, <2>1
  <2> QED BY <1>2, <1>3, <1>row, <2>1, <2>2 DEF updateLesson, removeLesson, NewOrder
<1>4. ASSUME NEW m \in Modules, updateModule(m) \/ removeModule(m) PROVE CatalogTypeOK'
  <2>1. m \in Rows /\ edits' = edits
    BY <1>4 DEF updateModule, removeModule, Rows
  <2> QED BY <1>0, <1>2, <1>4, <1>row, <2>1 DEF updateModule, removeModule, NewOrder
<1>5. ASSUME NEW r \in rows, reorder(siblingRows(r)) PROVE CatalogTypeOK'
  <2> DEFINE left == siblingRows(r) \ removed
  <2>1. left \subseteq Rows /\ IsFiniteSet(left)
    BY <1>0, GroupsAreFinite, FS_Subset
  <2>2. PICK ids \in SetToSeqs(left) :
          reordered(sortOrder, ids) # Aborted /\ sortOrder' = reordered(sortOrder, ids)
    BY <1>5 DEF reorder
  <2> HIDE DEF left
  <2>3. sortOrder' \in [Rows -> Nat]
    BY <1>0, <2>1, <2>2, ReorderType
  <2> QED BY <1>0, <1>5, <1>row, <2>3 DEF reorder, NewOrder
<1>6. ASSUME NEW to \in CourseStatus \cup {"deleted"}, beginCourseWrite(to) PROVE CatalogTypeOK'
  BY <1>0, <1>6 DEF beginCourseWrite, CatalogTypeOK, rowVars
<1>7. CASE CatalogRequest
  BY <1>1, <1>3, <1>4, <1>5, <1>6, <1>7
    DEF CatalogRequest, addLesson, addModule, publish, unpublish, update, remove, Rows,
      CourseStatus
<1>8. ASSUME NEW e \in edits, createRow(e) PROVE CatalogTypeOK'
  <2>1. e \in Edit
    BY <1>0
  <2>2. [e EXCEPT !.at = "count"] \in Edit
    BY <2>1 DEF Edit
  <2>3. edits' \subseteq Edit
    BY <1>0, <1>8, <2>2 DEF createRow, goesOn
  <2>4. NewOrder
    BY <1>0, <1>8, <2>1 DEF createRow, Edit, NewOrder
  <2> QED BY <1>8, <1>row, <2>3, <2>4 DEF createRow
<1>9. ASSUME NEW e \in edits, countLessons(e) PROVE CatalogTypeOK'
  <2>1. Cardinality(liveLessons) \in Nat
    BY CatalogAssumption, FS_Subset, FS_CardinalityType DEF liveLessons
  <2>2. [e EXCEPT !.at = "write", !.n = Cardinality(liveLessons)] \in Edit
    BY <1>0, <2>1 DEF Edit
  <2> QED BY <1>0, <1>9, <1>row, <2>2 DEF countLessons, rowVars, NewOrder
<1>10. ASSUME NEW e \in edits, writeCounters(e) PROVE CatalogTypeOK'
  BY <1>0, <1>10 DEF writeCounters, CatalogTypeOK, rowVars, Edit
<1>11. ASSUME NEW to, writeCourse(to) PROVE CatalogTypeOK'
  <2>1. to \in CourseStatus \cup {"deleted"}
    BY <1>11 DEF writeCourse, CatalogTypeOK
  <2>2. courseStatus' \in CourseStatus
    BY <1>11, <2>1 DEF writeCourse, CourseStatus
  <2>3. courseDeleted' \in BOOLEAN
    BY <1>11 DEF writeCourse
  <2> QED BY <1>0, <1>11, <2>2, <2>3 DEF writeCourse, CatalogTypeOK, rowVars
<1>12. CASE loseEdits
  BY <1>0, <1>12, <1>row DEF loseEdits, rowVars, NewOrder
<1> QED
  BY <1>7, <1>8, <1>9, <1>10, <1>11, <1>12 DEF CatalogActs, CatalogStep, editSteps

LEMMA CertTypes ==
  ASSUME CertTypeOK, IssuesInv', CertActs
  PROVE  CertTypeOK'
<1>1. issues' \subseteq Issue
  BY DEF IssuesInv
<1>2. cert' \in Cert /\ minted' \in Nat
  BY DEF CertTypeOK, CertActs, CertRequest, CertStep, issueSteps, claim, revoke,
    deliverCompleted, issue, fetchProgress, fetchUserAndCourse, createCertificate,
    loseIssues, Cert
<1>3. delivered' \in 0..MaxDeliveries
  BY DeliveriesAssumption DEF CertTypeOK, CertActs, CertRequest, CertStep, issueSteps, claim,
    revoke, deliverCompleted, fetchProgress, fetchUserAndCourse, createCertificate, loseIssues
<1> QED
  BY <1>1, <1>2, <1>3 DEF CertTypeOK

Statuses == {"none", "ACTIVE", "REVOKED", "COMPLETED"}

LEMMA StatusType ==
  ASSUME status \in Statuses, ProgressActs
  PROVE  status' \in Statuses
BY DEF Statuses, ProgressActs, ProgressRequest, ProgressStep, loseRequests, completeLesson,
  savePosition, fileElsewhere, completeElsewhere, openAccess, closeAccess, requestSteps,
  recordLesson, readRecords, readCurriculum, readRow, writeRow, publishCompleted,
  upsertPosition

CountersOK ==
  /\ calls \in 0..MaxCalls /\ mishaps \in 0..MaxMishaps
  /\ overlapped \subseteq {"edits", "requests"}

LEMMA CountersStep ==
  ASSUME CountersOK, [Next]_vars
  PROVE  CountersOK'
<1> USE LearnBoundsAssumption DEF CountersOK
<1>1. CASE Call
  <2>1. calls \in Nat /\ calls + 1 <= MaxCalls /\ calls' = calls + 1
    BY <1>1 DEF Call
  <2>2. mishaps' = mishaps /\ overlapped' \subseteq overlapped \cup {"edits", "requests"}
    BY <1>1 DEF Call, remember
  <2> QED BY <2>1, <2>2
<1>2. CASE GoOn
  BY <1>2 DEF GoOn, remember
<1>3. CASE Mishap
  <2>1. mishaps \in Nat /\ mishaps + 1 <= MaxMishaps /\ mishaps' = mishaps + 1
    BY <1>3 DEF Mishap
  <2>2. calls' = calls /\ overlapped' \subseteq overlapped \cup {"edits", "requests"}
    BY <1>3 DEF Mishap, remember
  <2> QED BY <2>1, <2>2
<1>4. CASE UNCHANGED vars
  BY <1>4 DEF vars
<1> QED
  BY <1>1, <1>2, <1>3, <1>4 DEF Next

LEMMA NextTypes == LearnInv /\ LearnTypeOK /\ [Next]_vars => LearnTypeOK'
<1> SUFFICES ASSUME LearnInv, LearnTypeOK, [Next]_vars PROVE LearnTypeOK'
  OBVIOUS
<1>0. /\ CatalogShape /\ IssuesInv' /\ ProgressShape'
      /\ CatalogTypeOK /\ CertTypeOK /\ status \in Statuses /\ CountersOK
  BY NextLearnInv DEF LearnInv, HonestInv, LearnTypeOK, ProgressTypeOK, Statuses, CountersOK
<1>1. CatalogTypeOK'
  <2>1. CASE UNCHANGED catalogVars
    BY <1>0, <2>1 DEF catalogVars, CatalogTypeOK
  <2> QED BY <1>0, <2>1, CatalogTypes, Moves
    DEF LearnInv, InCatalog, InProgress, InCertificates, InGateway
<1>2. status' \in Statuses
  <2>1. CASE UNCHANGED progressVars
    BY <1>0, <2>1 DEF progressVars
  <2> QED BY <1>0, <2>1, StatusType, Moves
    DEF LearnInv, InCatalog, InProgress, InCertificates, InGateway, ProgressActs
<1>3. CertTypeOK'
  <2>1. CASE UNCHANGED certVars
    BY <1>0, <2>1 DEF certVars, CertTypeOK
  <2> QED BY <1>0, <2>1, CertTypes, Moves
    DEF LearnInv, InCatalog, InProgress, InCertificates, InGateway
<1>4. GatewayTypeOK'
  BY GatewayTypes DEF LearnTypeOK
<1>5. CountersOK'
  BY <1>0, CountersStep
<1> QED
  BY <1>0, <1>1, <1>2, <1>3, <1>4, <1>5
    DEF LearnTypeOK, ProgressTypeOK, ProgressShape, Statuses, CountersOK

\* Every variable of a course and its learner keeps its type, the sort orders
\* after any reorder included.
THEOREM LearnTypes == Spec => []LearnTypeOK
<1>1. Init => LearnTypeOK
  <2> SUFFICES ASSUME Init PROVE LearnTypeOK
    OBVIOUS
  <2> USE DEF Init
  <2>1. CatalogTypeOK
    <3>1. Cardinality(InitialRows \cap Lessons) \in Nat
      BY CatalogAssumption, FS_Subset, FS_CardinalityType
    <3> QED BY <3>1, CatalogAssumption DEF CatalogInit, CatalogTypeOK, Rows, CourseStatus
  <2>2. ProgressTypeOK
    BY DEF ProgressInit, ProgressTypeOK
  <2>3. CertTypeOK
    BY DeliveriesAssumption DEF CertInit, CertTypeOK, NoCert, Cert
  <2>4. GatewayTypeOK
    BY DEF GatewayInit, GatewayTypeOK
  <2> QED BY <2>1, <2>2, <2>3, <2>4, LearnBoundsAssumption DEF LearnTypeOK
<1> QED
  BY <1>1, NextTypes, LearnInvHolds, PTL DEF Spec

\* Whatever was added, moved and deleted before, a reorder that names every
\* row under a parent takes effect.
THEOREM ReordersAlwaysTakeEffect == Spec => []ReordersTakeEffect
<1>1. LearnTypeOK => ReordersTakeEffect
  BY ReorderOfAll DEF LearnTypeOK, CatalogTypeOK, ReordersTakeEffect
<1> QED
  BY <1>1, LearnTypes, PTL
-----------------------------------------------------------------------------
(* What overlapping completions leave in the percentage                    *)

LEMMA PercentGrows ==
  ASSUME NEW k \in Nat, NEW j \in Nat, NEW n \in Nat, k <= j
  PROVE  percentOf(k, n) <= percentOf(j, n)
<1>1. ASSUME NEW a \in Nat, NEW c \in Nat, NEW b \in Nat, b > 0, a <= c
      PROVE  a \div b <= c \div b
  BY <1>1
<1>2. CASE n = 0
  BY <1>2 DEF percentOf
<1>3. CASE n > 0
  <2>1. /\ 200 * k + n \in Nat /\ 200 * j + n \in Nat /\ 2 * n \in Nat
        /\ 2 * n > 0 /\ 200 * k + n <= 200 * j + n
    BY <1>3
  <2>2. (200 * k + n) \div (2 * n) <= (200 * j + n) \div (2 * n)
    BY <1>1, <2>1
  <2> QED BY <1>3, <2>2 DEF percentOf
<1> QED
  BY <1>2, <1>3

\* The cached percentage is not ahead of the records.
NeverAhead == edited \/ percent <= right

LEMMA NeverAheadStep ==
  ASSUME LearnInv, NeverAhead, [Next]_vars
  PROVE  NeverAhead'
<1> SUFFICES ASSUME ~edited' PROVE percent' <= right'
  BY DEF NeverAhead
<1>0. LearnInv' /\ kept
  BY NextLearnInv
<1>1. ~edited
  BY <1>0, EditedForGood DEF LearnInv, HonestInv, kept
<1>2. liveLessons' = liveLessons /\ liveLessons = InitialLessons /\ InitialLessons \subseteq Lessons
  BY <1>0, <1>1, Unedited
     DEF LearnInv, HonestInv, CatalogShape, edited, liveLessons, InitialLessons
<1>3. ASSUME NEW lessons, lessons \subseteq completed'
      PROVE  percentOf(Cardinality(lessons), Cardinality(liveLessons)) <= right'
  <2>1. IsFiniteSet(completed') /\ IsFiniteSet(InitialLessons)
    BY <1>2, CatalogAssumption, IdsAreFinite, FS_Subset DEF completed
  <2>2. IsFiniteSet(lessons) /\ Cardinality(lessons) <= Cardinality(completed')
    BY <1>3, <2>1, FS_Subset
  <2>3. /\ Cardinality(lessons) \in Nat /\ Cardinality(completed') \in Nat
        /\ Cardinality(liveLessons) \in Nat
    BY <1>2, <2>1, <2>2, FS_CardinalityType
  <2> QED BY <1>2, <2>2, <2>3, PercentGrows DEF right
<1>4. CASE percent' = percent
  <2>1. right <= right'
    BY <1>0, <1>3 DEF kept, right
  <2>2. IsFiniteSet(completed) /\ IsFiniteSet(completed') /\ IsFiniteSet(liveLessons)
    BY <1>2, CatalogAssumption, IdsAreFinite, FS_Subset DEF completed
  <2>3. right \in Nat /\ right' \in Nat
    BY <1>2, <2>2, FS_CardinalityType, PercentType DEF right
  <2>4. percent \in Nat /\ percent <= right
    BY <1>1 DEF NeverAhead, LearnInv, HonestInv, ProgressShape
  <2> QED BY <1>4, <2>1, <2>3, <2>4
<1>5. ASSUME NEW q \in requests, writeRow(q) PROVE percent' <= right'
  <2>1. q.done \subseteq completed'
    BY <1>0, <1>5 DEF LearnInv, HonestInv, honest, kept
  <2>2. q.size = Cardinality(liveLessons)
    BY <1>1, <1>2, <1>5 DEF LearnInv, HonestInv, honest, writeRow
  <2> QED BY <1>3, <1>5, <2>1, <2>2 DEF writeRow, percentFor
<1>6. percent' = percent \/ \E q \in requests : writeRow(q)
  BY DEF Next, Call, GoOn, Mishap, InCatalog, InProgress, InCertificates, InGateway, vars,
     progressVars, ProgressRequest, ProgressStep, requestSteps, loseRequests, completeLesson,
     savePosition, fileElsewhere, completeElsewhere, openAccess, closeAccess, recordLesson,
     readRecords, readCurriculum, readRow, publishCompleted, upsertPosition
<1> QED
  BY <1>4, <1>5, <1>6

\* Completions may overlap, fail and be repeated in any number, and the last
\* write may be of the oldest read: in a course that was not edited the cached
\* percentage is at most behind the records, never ahead of them, so nobody is
\* told of more than was done.
THEOREM PercentIsNeverAhead == Spec => []NeverAhead
<1>1. Init => NeverAhead
  <2> SUFFICES ASSUME Init PROVE percent <= right
    BY DEF NeverAhead
  <2>1. percent = 0
    BY DEF Init, ProgressInit
  <2>2. IsFiniteSet(completed) /\ IsFiniteSet(liveLessons)
    BY CatalogAssumption, IdsAreFinite, FS_Subset DEF completed, liveLessons
  <2>3. right \in Nat
    BY <2>2, FS_CardinalityType, PercentType DEF right
  <2> QED BY <2>1, <2>3
<1> QED
  BY <1>1, NeverAheadStep, LearnInvHolds, PTL DEF Spec
-----------------------------------------------------------------------------
(* Who finishes is certified                                               *)

\* More lessons completed never take the percentage below the whole.
LEMMA WholeStays ==
  ASSUME NEW k \in Nat, NEW j \in Nat, NEW n \in Nat, k <= j, percentOf(k, n) >= 100
  PROVE  percentOf(j, n) >= 100
<1>1. n > 0
  BY DEF percentOf
<1>2. ASSUME NEW a \in Nat, NEW b \in Nat, b > 0
      PROVE  a \div b >= 100 <=> a >= 100 * b
  BY <1>2
<1>3. 200 * k + n >= 100 * (2 * n)
  <2>1. (200 * k + n) \div (2 * n) >= 100
    BY <1>1 DEF percentOf
  <2> QED BY <1>1, <1>2, <2>1
<1>4. 200 * j + n >= 100 * (2 * n)
  BY <1>3
<1>5. (200 * j + n) \div (2 * n) >= 100
  BY <1>1, <1>2, <1>4
<1> QED
  BY <1>1, <1>5 DEF percentOf

\* What a request has read of a finished course is the whole.
wholeRead(q) ==
  q.at \in {"readCurriculum", "readRow", "write"} =>
    percentOf(Cardinality(q.done), Cardinality(InitialLessons)) >= 100

\* A finished course stays finished, in the records, on the row, in what is about
\* to be written there and in what certificate-service is told of it.
FinishedInv ==
  completedAt => /\ right >= 100 /\ percent >= 100 /\ status # "none"
                 /\ \A q \in requests : wholeRead(q)

LEMMA FinishedStep ==
  ASSUME LearnInv, FreshInv, FinishedInv, quiet, quiet', [Next]_vars
  PROVE  FinishedInv'
<1>0. /\ kept /\ CatalogShape /\ CatalogShape' /\ mishaps \in Nat /\ mishaps' = 0
      /\ ~edited /\ ~edited' /\ mishaps = 0 /\ "requests" \notin overlapped
      /\ \A q \in requests : q \in Request /\ honest(q) /\ requests = {q}
  BY NextLearnInv DEF LearnInv, HonestInv, ProgressShape, FreshInv, quiet
<1>1. liveLessons' = liveLessons /\ liveLessons = InitialLessons
  BY <1>0, Unedited DEF edited, liveLessons, InitialLessons, CatalogShape
<1>whole. ASSUME NEW S, NEW C, S \subseteq C, C \subseteq Ids,
                 percentOf(Cardinality(S), Cardinality(InitialLessons)) >= 100
          PROVE  percentOf(Cardinality(C), Cardinality(InitialLessons)) >= 100
  <2>1. IsFiniteSet(C) /\ IsFiniteSet(InitialLessons)
    BY <1>whole, IdsAreFinite, CatalogAssumption, FS_Subset DEF InitialLessons
  <2>2. IsFiniteSet(S) /\ Cardinality(S) <= Cardinality(C)
    BY <1>whole, <2>1, FS_Subset
  <2>3. /\ Cardinality(S) \in Nat /\ Cardinality(C) \in Nat
        /\ Cardinality(InitialLessons) \in Nat
    BY <2>1, <2>2, FS_CardinalityType
  <2> QED BY <1>whole, <2>2, <2>3, WholeStays
<1>2. right >= 100 => right' >= 100
  <2>1. completed \subseteq completed' /\ completed' \subseteq Ids
    BY <1>0 DEF kept, completed
  <2> QED BY <1>1, <1>whole, <2>1 DEF right
<1>3. ASSUME UNCHANGED <<completedAt, percent>>,
             status' \in {status, "ACTIVE", "REVOKED"},
             completedAt => \A q \in requests' : wholeRead(q)
      PROVE  FinishedInv'
  <2>1. completedAt => \A q \in requests' : wholeRead(q)'
    BY <1>3 DEF wholeRead
  <2> QED BY <1>2, <1>3, <2>1 DEF FinishedInv
<1>4. CASE UNCHANGED progressVars
  <2>1. UNCHANGED <<completedAt, percent, status, requests>>
    BY <1>4 DEF progressVars
  <2> QED BY <1>3, <2>1 DEF FinishedInv
<1>5. ASSUME NEW q \in requests, writeRow(q) PROVE FinishedInv'
  <2> PICK r : r = [q EXCEPT !.at = "announce"]
    OBVIOUS
  <2>1. r.at = "announce" /\ requests' \subseteq {r}
    BY <1>0, <1>5 DEF writeRow, becomes, Request
  <2>2. \A p \in requests' : wholeRead(p)'
    BY <2>1 DEF wholeRead
  <2>3. /\ percent' = percentOf(Cardinality(q.done), Cardinality(InitialLessons))
        /\ percent' = percentFor(q)
    BY <1>0, <1>5 DEF writeRow, percentFor, honest
  <2>4. completedAt' => percent' >= 100
    BY <1>5, <2>3 DEF writeRow, finishing, FinishedInv, wholeRead
  <2>5. completedAt' => right' >= 100
    <3>1. q.done \subseteq completed' /\ completed' \subseteq Ids
      BY <1>0 DEF honest, kept, completed
    <3> QED BY <1>1, <1>whole, <2>3, <2>4, <3>1 DEF right
  <2>6. completedAt' => status' # "none"
    BY <1>5 DEF writeRow, FinishedInv
  <2> QED BY <2>2, <2>4, <2>5, <2>6 DEF FinishedInv
<1>6. ASSUME NEW q \in requests, NEW r, becomes(q, r), completedAt => wholeRead(r),
             UNCHANGED <<completedAt, percent, status>>
      PROVE  FinishedInv'
  BY <1>3, <1>6 DEF becomes, FinishedInv
<1>7. ASSUME NEW q \in requests, recordLesson(q) PROVE FinishedInv'
  <2> PICK r : r = [q EXCEPT !.at = "read"]
    OBVIOUS
  <2>1. r.at = "read"
    BY <1>0 DEF Request
  <2> QED BY <1>6, <1>7, <2>1 DEF recordLesson, wholeRead
<1>8. ASSUME NEW q \in requests, readRecords(q) PROVE FinishedInv'
  <2> PICK r : r = [q EXCEPT !.done = completed,
                             !.at = IF @ = "read" THEN "readCurriculum" ELSE "readRow"]
    OBVIOUS
  <2>1. r.done = completed
    BY <1>0 DEF Request
  <2>2. completedAt => wholeRead(r)
    BY <1>1, <2>1 DEF wholeRead, FinishedInv, right
  <2> QED BY <1>6, <1>8, <2>2 DEF readRecords
<1>9. ASSUME NEW q \in requests, readCurriculum(q) PROVE FinishedInv'
  <2> PICK r : r = [q EXCEPT !.size = Cardinality(liveLessons),
                             !.at = IF @ = "read" THEN "readRecords" ELSE "readRow"]
    OBVIOUS
  <2>1. r.done = q.done /\ (r.at = "readRecords" \/ q.at = "readCurriculum")
    BY <1>0, <1>9 DEF Request, readCurriculum
  <2>2. completedAt => wholeRead(r)
    BY <2>1 DEF wholeRead, FinishedInv
  <2> QED BY <1>6, <1>9, <2>2 DEF readCurriculum
<1>10. ASSUME NEW q \in requests, readRow(q) PROVE FinishedInv'
  <2> PICK r : r = [q EXCEPT !.was = completedAt, !.at = "write"]
    OBVIOUS
  <2>1. r.done = q.done /\ q.at = "readRow"
    BY <1>0, <1>10 DEF Request, readRow
  <2>2. completedAt => wholeRead(r)
    BY <2>1 DEF wholeRead, FinishedInv
  <2> QED BY <1>6, <1>10, <2>2 DEF readRow
<1>11. ASSUME NEW l \in Ids, completeLesson(l) PROVE FinishedInv'
  <2> PICK r : r = [lesson |-> l, at |-> "record", done |-> {}, size |-> 0, was |-> FALSE]
    OBVIOUS
  <2>1. r.at = "record" /\ requests' = requests \cup {r}
    BY <1>11 DEF completeLesson
  <2>2. wholeRead(r)
    BY <2>1 DEF wholeRead
  <2> QED BY <1>3, <1>11, <2>1, <2>2 DEF completeLesson, FinishedInv
<1>12. ASSUME UNCHANGED <<completedAt, percent>>, requests' \subseteq requests,
              status' \in {status, "ACTIVE", "REVOKED"}
       PROVE  FinishedInv'
  BY <1>3, <1>12 DEF FinishedInv
<1>13. CASE InProgress(ProgressRequest \/ ProgressStep)
  <2>1. \/ /\ UNCHANGED <<completedAt, percent>> /\ requests' \subseteq requests
           /\ status' \in {status, "ACTIVE", "REVOKED"}
        \/ \E q \in requests : \/ writeRow(q) \/ recordLesson(q) \/ readRecords(q)
                               \/ readCurriculum(q) \/ readRow(q)
        \/ \E l \in Ids : completeLesson(l)
    BY <1>13 DEF InProgress, ProgressRequest, ProgressStep, requestSteps, savePosition,
      fileElsewhere, completeElsewhere, openAccess, closeAccess, publishCompleted,
      upsertPosition
  <2> QED BY <1>5, <1>7, <1>8, <1>9, <1>10, <1>11, <1>12, <2>1
<1>14. InProgress(ProgressRequest \/ ProgressStep) \/ UNCHANGED progressVars
  BY <1>0, Orderly DEF InCatalog
<1> QED
  BY <1>4, <1>13, <1>14

\* A completion that arrived found a finished course, and its handler is still
\* at work or there is a certificate.
CompletionsAreCertified ==
  delivered > 0 => completedAt /\ (hasCert \/ \E i \in issues : i.via = "event")

LEMMA CertifiedStep ==
  ASSUME LearnInv, LearnTypeOK, FinishedInv, CompletionsAreCertified, quiet, quiet', [Next]_vars
  PROVE  CompletionsAreCertified'
<1>0. /\ kept /\ mishaps' = 0 /\ mishaps \in Nat /\ cert \in Cert /\ delivered \in Nat
      /\ \A i \in issues : i \in Issue
      /\ announced > 0 => completedAt
  BY NextLearnInv DEF LearnInv, IssuesInv, LearnTypeOK, CertTypeOK, quiet, CompletionsAreAnnounced
<1>1. InCertificates(CertRequest \/ CertStep) \/ UNCHANGED certVars
  <2>1. ~Mishap
    BY <1>0 DEF Mishap
  <2> QED BY <2>1 DEF Next, Call, GoOn, InCatalog, InProgress, InCertificates, InGateway, vars
<1>2. completedAt => completedAt'
  BY <1>0 DEF kept
<1>3. CASE UNCHANGED certVars
  BY <1>2, <1>3 DEF certVars, CompletionsAreCertified, hasCert
<1>4. ASSUME hasCert', delivered' = delivered PROVE CompletionsAreCertified'
  BY <1>2, <1>4 DEF CompletionsAreCertified
<1>5. CASE claim
  BY <1>2, <1>5 DEF claim, issue, hasCert, CompletionsAreCertified
<1>6. CASE revoke
  <2>1. hasCert'
    BY <1>0, <1>6 DEF revoke, hasCert, Cert
  <2> QED BY <1>4, <1>6, <2>1 DEF revoke
<1>7. CASE deliverCompleted
  <2>1. completedAt'
    BY <1>0, <1>2, <1>7 DEF deliverCompleted
  <2>2. CASE hasCert
    BY <1>7, <2>1, <2>2 DEF deliverCompleted, issue, hasCert, CompletionsAreCertified
  <2>3. CASE ~hasCert
    <3>1. [via |-> "event", at |-> "progress"] \in issues'
      BY <1>7, <2>3 DEF deliverCompleted, issue
    <3>2. [via |-> "event", at |-> "progress"].via = "event"
      OBVIOUS
    <3> QED BY <2>1, <3>1, <3>2 DEF CompletionsAreCertified
  <2> QED BY <2>2, <2>3
<1>8. ASSUME NEW i \in issues, NEW at, moves(i, at), UNCHANGED <<cert, delivered>>
      PROVE  CompletionsAreCertified'
  <2>1. [i EXCEPT !.at = at].via = i.via /\ [i EXCEPT !.at = at] \in issues'
    BY <1>0, <1>8 DEF moves, Issue
  <2>2. \A j \in issues : j = i \/ j \in issues'
    BY <1>8 DEF moves
  <2>3. (\E j \in issues : j.via = "event") => \E j \in issues' : j.via = "event"
    BY <2>1, <2>2
  <2> QED BY <1>2, <1>8, <2>3 DEF CompletionsAreCertified, hasCert
<1>9. ASSUME NEW i \in issues, fetchProgress(i) PROVE CompletionsAreCertified'
  <2>1. CASE moves(i, "profile")
    BY <1>8, <1>9, <2>1 DEF fetchProgress
  <2>2. CASE ~(isEntitled /\ percent >= 100)
    <3>1. ~completedAt
      BY <2>2 DEF FinishedInv, quiet, isEntitled
    <3> QED BY <1>0, <1>9, <3>1 DEF fetchProgress, CompletionsAreCertified
  <2> QED BY <1>9, <2>1, <2>2 DEF fetchProgress
<1>10. ASSUME NEW i \in issues, fetchUserAndCourse(i) PROVE CompletionsAreCertified'
  BY <1>8, <1>10 DEF fetchUserAndCourse
<1>11. ASSUME NEW i \in issues, createCertificate(i) PROVE CompletionsAreCertified'
  <2>1. hasCert'
    BY <1>11 DEF createCertificate, hasCert
  <2> QED BY <1>4, <1>11, <2>1 DEF createCertificate
<1> QED
  BY <1>1, <1>3, <1>5, <1>6, <1>7, <1>9, <1>10, <1>11
    DEF InCertificates, CertRequest, CertStep, issueSteps

\* Where nothing fails or overlaps, the course is not edited and access is not
\* withdrawn, a completion that was delivered is not refused: it finds the
\* course at 100 % and the learner entitled, for any number of lessons, further
\* completions, claims and deliveries.  With the fairness of the handlers it is
\* why FinishersAreCertified holds.
THEOREM DeliveredCompletionsAreCertified == Spec /\ []quiet => []CompletionsAreCertified
<1>1. Init => FinishedInv /\ CompletionsAreCertified
  BY DEF Init, ProgressInit, CertInit, FinishedInv, CompletionsAreCertified
<1>2. LearnInv /\ FreshInv /\ FinishedInv /\ quiet /\ quiet' /\ [Next]_vars => FinishedInv'
  BY FinishedStep
<1>3. /\ LearnInv /\ LearnTypeOK /\ FinishedInv /\ CompletionsAreCertified
      /\ quiet /\ quiet' /\ [Next]_vars
      => CompletionsAreCertified'
  BY CertifiedStep
<1> QED
  BY <1>1, <1>2, <1>3, LearnInvHolds, LearnTypes, FreshAlways, PTL DEF Spec
-----------------------------------------------------------------------------
(* The services together keep the promise of Diploma                       *)

\* What a learner sees, as Learning maps it.
seen == <<completed, liveLessons, edited, completedAt, announced > 0, cert>>

LEMMA SeenStays == ASSUME UNCHANGED seen PROVE UNCHANGED Promise!vars
BY DEF seen, Promise!vars

\* An edit of the course is an Edit, or changes no lesson.
LEMMA CatalogPromise ==
  ASSUME CatalogShape, CatalogShape', kept,
         UNCHANGED <<completed, completedAt, announced, cert>>
  PROVE  [Promise!Next]_(Promise!vars)
<1>1. CASE edited'
  <2>1. liveLessons' \in SUBSET Lessons
    BY DEF liveLessons
  <2>2. Promise!Edit
    BY <1>1, <2>1 DEF Promise!Edit
  <2> QED BY <2>2 DEF Promise!Next
<1>2. CASE ~edited'
  <2>1. ~edited
    BY <1>2, EditedForGood DEF kept
  <2>2. liveLessons = InitialLessons
    BY <2>1, Unedited
  <2>3. liveLessons' = InitialLessons
    BY <1>2 DEF edited, liveLessons, InitialLessons, CatalogShape
  <2>4. edited' = edited
    BY <1>2, <2>1 DEF edited
  <2>5. UNCHANGED seen
    BY <2>2, <2>3, <2>4 DEF seen
  <2> QED BY <2>5, SeenStays
<1> QED BY <1>1, <1>2

\* Diploma counts as FiniteSets does.
LEMMA SameCount == ASSUME NEW S PROVE Promise!Cardinality(S) = Cardinality(S)
BY DEF Promise!Cardinality, Cardinality

LEMMA ProgressPromise ==
  ASSUME LearnInv, earned', ProgressActs, UNCHANGED catalogVars, UNCHANGED cert
  PROVE  [Promise!Next]_(Promise!vars)
<1>0. /\ liveLessons' = liveLessons /\ edited' = edited
      /\ requests \subseteq Request /\ heartbeats \subseteq Ids
      /\ record \in [Ids -> {"none", "STARTED", "COMPLETED", "away"}]
      /\ announced \in Nat /\ completedAt \in BOOLEAN
  BY DEF liveLessons, edited, catalogVars, LearnInv, HonestInv, ProgressShape
<1>1. ASSUME UNCHANGED <<completed, completedAt, announced>>
      PROVE  [Promise!Next]_(Promise!vars)
  <2>1. UNCHANGED seen
    BY <1>0, <1>1 DEF seen
  <2> QED BY <2>1, SeenStays
<1>2. ASSUME NEW q \in requests, recordLesson(q) PROVE [Promise!Next]_(Promise!vars)
  <2>1. q.lesson \in Ids
    BY <1>0 DEF Request
  <2>3. UNCHANGED <<completedAt, announced>>
    BY <1>2 DEF recordLesson
  <2>4. CASE record[q.lesson] = "away"
    <3>1. completed' = completed
      BY <1>0, <1>2, <2>1, <2>4 DEF recordLesson, completed
    <3> QED BY <1>1, <2>3, <3>1
  <2>5. CASE record[q.lesson] # "away"
    <3>1. completed' = completed \cup {q.lesson}
      BY <1>0, <1>2, <2>1, <2>5 DEF recordLesson, completed
    <3>2. Promise!Do(q.lesson)
      BY <1>0, <2>3, <3>1 DEF Promise!Do
    <3> QED BY <2>1, <3>2 DEF Promise!Next
  <2> QED BY <2>4, <2>5
<1>3. ASSUME NEW q \in requests, writeRow(q) PROVE [Promise!Next]_(Promise!vars)
  <2>1. completed' = completed /\ announced' = announced
    BY <1>3, CompletedSame DEF writeRow
  <2>2. CASE completedAt'
    <3>1. completedAt' = TRUE
      BY <1>0, <1>3, <2>2 DEF writeRow
    <3>2. edited \/ Cardinality(completed) >= Cardinality(liveLessons)
      <4>1. edited' \/ Cardinality(completed') >= Cardinality(liveLessons')
        BY <2>2 DEF earned
      <4> QED BY <1>0, <2>1, <4>1
    <3>3. Promise!Finish
      BY <1>0, <2>1, <3>1, <3>2, SameCount DEF Promise!Finish
    <3> QED BY <3>3 DEF Promise!Next
  <2>3. CASE ~completedAt'
    <3>1. completedAt' = completedAt
      BY <1>0, <1>3, <2>3 DEF writeRow
    <3> QED BY <1>1, <2>1, <3>1
  <2> QED BY <2>2, <2>3
<1>4. ASSUME NEW q \in requests, publishCompleted(q) PROVE Promise!Next
  <2>1. completedAt
    BY <1>4 DEF LearnInv, HonestInv, honest, publishCompleted
  <2>2. (announced' > 0) = TRUE
    BY <1>0, <1>4 DEF publishCompleted
  <2>3. completed' = completed /\ completedAt' = completedAt
    BY <1>4, CompletedSame DEF publishCompleted
  <2>4. Promise!Tell
    BY <1>0, <2>1, <2>2, <2>3 DEF Promise!Tell
  <2> QED BY <2>4 DEF Promise!Next
<1>5. ASSUME NEW l \in heartbeats, upsertPosition(l) PROVE [Promise!Next]_(Promise!vars)
  <2>1. completed' = completed
    BY <1>0, <1>5 DEF upsertPosition, completed
  <2> QED BY <1>1, <1>5, <2>1 DEF upsertPosition
<1>6. ASSUME UNCHANGED <<record, completedAt, announced>>
      PROVE  [Promise!Next]_(Promise!vars)
  BY <1>1, <1>6, CompletedSame
<1>8. ASSUME NEW l \in Ids, fileElsewhere(l) PROVE [Promise!Next]_(Promise!vars)
  <2>1. completed' = completed
    BY <1>0, <1>8 DEF fileElsewhere, completed
  <2> QED BY <1>1, <1>8, <2>1 DEF fileElsewhere
<1>9. ASSUME NEW l \in Ids, completeElsewhere(l) PROVE Promise!Next
  <2>1. completed' = completed \cup {l}
    BY <1>0, <1>9 DEF completeElsewhere, completed
  <2>2. UNCHANGED <<completedAt, announced>>
    BY <1>9 DEF completeElsewhere
  <2>3. Promise!Do(l)
    BY <1>0, <2>1, <2>2 DEF Promise!Do
  <2> QED BY <2>3 DEF Promise!Next
<1>7. \/ \E q \in requests : recordLesson(q) \/ writeRow(q) \/ publishCompleted(q)
      \/ \E l \in heartbeats : upsertPosition(l)
      \/ \E l \in Ids : fileElsewhere(l) \/ completeElsewhere(l)
      \/ UNCHANGED <<record, completedAt, announced>>
  BY DEF ProgressActs, ProgressRequest, ProgressStep, requestSteps, loseRequests,
    completeLesson, savePosition, openAccess, closeAccess, readRecords, readCurriculum,
    readRow
<1> QED BY <1>2, <1>3, <1>4, <1>5, <1>6, <1>7, <1>8, <1>9

LEMMA CertPromise ==
  ASSUME LearnInv, cert \in Cert, minted \in Nat, CertActs,
         UNCHANGED <<catalogVars, progressVars>>
  PROVE  [Promise!Next]_(Promise!vars)
<1>0. UNCHANGED <<completed, liveLessons, edited, completedAt, announced>>
  BY CompletedSame DEF catalogVars, progressVars, liveLessons, edited
<1>1. CASE UNCHANGED cert
  <2>1. UNCHANGED seen
    BY <1>0, <1>1 DEF seen
  <2> QED BY <2>1, SeenStays
<1>2. ASSUME NEW i \in issues, createCertificate(i), ~hasCert PROVE Promise!Next
  <2>1. completedAt
    BY <1>2 DEF LearnInv, IssuesInv, createCertificate
  <2>2. cert.status = "none"
    BY <1>2 DEF hasCert
  <2>3. cert' = [status |-> "ISSUED", serial |-> minted + 1]
    BY <1>2 DEF createCertificate
  <2>4. cert' \in [status : {"ISSUED"}, serial : Nat]
    BY <2>3
  <2>5. Promise!Issue
    BY <1>0, <2>1, <2>2, <2>4 DEF Promise!Issue
  <2> QED BY <2>5 DEF Promise!Next
<1>3. ASSUME revoke, cert' # cert PROVE Promise!Next
  <2>1. cert.status = "ISSUED"
    BY <1>3 DEF revoke, hasCert, Cert
  <2>2. cert' = [cert EXCEPT !.status = "REVOKED"]
    BY <1>3 DEF revoke
  <2>3. Promise!Revoke
    BY <1>0, <2>1, <2>2 DEF Promise!Revoke
  <2> QED BY <2>3 DEF Promise!Next
<1>4. \/ UNCHANGED cert
      \/ \E i \in issues : createCertificate(i) /\ ~hasCert
      \/ revoke
  BY DEF CertActs, CertRequest, CertStep, issueSteps, loseIssues, claim, issue,
    deliverCompleted, fetchProgress, fetchUserAndCourse, createCertificate
<1> QED BY <1>1, <1>2, <1>3, <1>4

\* Every step of the four services does one thing of the promise, or nothing a
\* learner could see: certificates, completions, announcements and the record of
\* what was done agree with each other for any number of lessons, edits,
\* requests, failures and deliveries, in courses that begin with fewer than 200
\* lessons, where nothing less is rounded to 100 %.
THEOREM DiplomasAreAlwaysHonest == Few => (Spec => DiplomasAreHonest)
<1> SUFFICES ASSUME Few PROVE Spec => DiplomasAreHonest
  OBVIOUS
<1> DEFINE T == cert \in Cert /\ minted \in Nat
<1>1. Init => Promise!Init
  BY DEF Init, ProgressInit, CatalogInit, CertInit, NoCert, Promise!Init, completed,
    liveLessons, edited
<1>2. LearnInv /\ earned /\ T /\ [Next]_vars => [Promise!Next]_(Promise!vars)
  <2> SUFFICES ASSUME LearnInv, earned, T, [Next]_vars
               PROVE  [Promise!Next]_(Promise!vars)
    OBVIOUS
  <2>0. earned' /\ LearnInv' /\ kept
    BY EarnedStep, NextLearnInv
  <2>1. CASE InCatalog(CatalogActs)
    <3>1. UNCHANGED <<completed, completedAt, announced, cert>>
      BY <2>1, CompletedSame DEF InCatalog, progressVars, certVars
    <3>2. CatalogShape /\ CatalogShape'
      BY <2>0 DEF LearnInv, HonestInv
    <3> QED BY <2>0, <3>1, <3>2, CatalogPromise
  <2>2. CASE InProgress(ProgressActs)
    <3>1. ProgressActs /\ UNCHANGED catalogVars /\ UNCHANGED cert
      BY <2>2 DEF InProgress, certVars
    <3> QED BY <2>0, <3>1, ProgressPromise
  <2>3. CASE InCertificates(CertActs)
    <3>1. CertActs /\ UNCHANGED <<catalogVars, progressVars>>
      BY <2>3 DEF InCertificates
    <3> QED BY <3>1, CertPromise
  <2>4. CASE UNCHANGED <<catalogVars, progressVars, certVars>>
    <3>1. UNCHANGED seen
      BY <2>4, CompletedSame DEF seen, catalogVars, progressVars, certVars, liveLessons, edited
    <3> QED BY <3>1, SeenStays
  <2>5. \/ InCatalog(CatalogActs) \/ InProgress(ProgressActs)
        \/ InCertificates(CertActs)
        \/ UNCHANGED <<catalogVars, progressVars, certVars>>
    BY Moves DEF LearnInv, InProgress, InGateway, ProgressActs
  <2> QED BY <2>1, <2>2, <2>3, <2>4, <2>5
<1>3. Init => T /\ earned
  BY DEF Init, CertInit, NoCert, Cert, ProgressInit, earned
<1>4. LearnInv /\ T /\ [Next]_vars => T'
  BY CertsStep
<1>5. LearnInv /\ earned /\ [Next]_vars => earned'
  BY EarnedStep
<1> QED
  BY <1>1, <1>2, <1>3, <1>4, <1>5, LearnInvHolds, PTL
  DEF Spec, DiplomasAreHonest, Promise!Spec
=============================================================================
