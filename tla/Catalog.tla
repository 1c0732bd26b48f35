------------------------------- MODULE Catalog -------------------------------
(***************************************************************************)
(* course-service/src/courses: one course, its modules and lessons, and    *)
(* the edits of its instructors.                                           *)
(*                                                                         *)
(* A row that was deleted stays, with its sort order and its slug; only    *)
(* reads leave it out.  The counters of the course are recomputed after    *)
(* every edit of a lesson by two statements, an aggregate and an update,   *)
(* which are not in one transaction.                                       *)
(*                                                                         *)
(* Left out: texts, prices and media keys; resources; slugs, which are     *)
(* chosen like sort orders (read, then create against a unique index); the *)
(* duration of the course, written together with the number of lessons.    *)
(***************************************************************************)
EXTENDS Integers, FiniteSets, SequencesExt

CONSTANTS Lessons, Modules,   \* ids there may ever be
          ModuleOf,           \* the module a lesson is made in
          InitialRows,        \* those the course starts with
          InitialOrder,       \* and their order
          GivenOrders         \* the sort orders a request may ask for

ASSUME CatalogAssumption ==
  /\ IsFiniteSet(Lessons) /\ IsFiniteSet(Modules)
  /\ Lessons \cap Modules = {}
  /\ ModuleOf \in [Lessons -> Modules]
  /\ InitialRows \subseteq Lessons \cup Modules
  /\ \A l \in InitialRows \cap Lessons : ModuleOf[l] \in InitialRows
  /\ InitialOrder \in [Lessons \cup Modules -> Nat]
  /\ \A r, s \in InitialRows :
       r # s /\ InitialOrder[r] = InitialOrder[s] =>
         IF r \in Modules THEN s \in Lessons
         ELSE s \in Modules \/ ModuleOf[r] # ModuleOf[s]
  /\ GivenOrders \subseteq Nat

VARIABLES rows,          \* modules and lessons that have a row
          removed,       \* those with a deletedAt
          sortOrder,     \* the order of a row among its siblings
          lessonCount,   \* courses.lesson_count
          courseStatus,
          courseDeleted, \* courses.deleted_at is set
          edits,         \* edits in flight: [row, at, n]
          courseWrites   \* updates of the course row in flight

catalogVars == <<rows, removed, sortOrder, lessonCount, courseStatus,
                 courseDeleted, edits, courseWrites>>
rowVars == <<rows, removed, sortOrder>>
courseVars == <<lessonCount, courseStatus, courseDeleted, courseWrites>>

CourseStatus == {"DRAFT", "PUBLISHED", "ARCHIVED"}
Rows == Lessons \cup Modules
Edit == [row : Rows, at : {"create", "count", "write"}, n : Nat]

siblings(r) == IF r \in Modules THEN Modules
               ELSE {l \in Lessons : ModuleOf[l] = ModuleOf[r]}

siblingRows(r) == siblings(r) \cap rows

\* getCurriculum: what progress-service gets.  A lesson of a deleted module
\* is still one of them.
liveLessons == (rows \cap Lessons) \ removed

CatalogInit ==
  /\ rows = InitialRows
  /\ removed = {}
  /\ sortOrder = InitialOrder
  /\ lessonCount = Cardinality(InitialRows \cap Lessons)
  /\ courseStatus \in {"DRAFT", "PUBLISHED"}
  /\ courseDeleted = FALSE
  /\ edits = {}
  /\ courseWrites = {}

\* One edit of a row at a time (a bound).
untouched(r) == \A e \in edits : e.row # r

goesOn(e, at) == edits' = (edits \ {e}) \cup {[e EXCEPT !.at = at]}

-----------------------------------------------------------------------------
(* Rows that come and go                                                   *)

\* nextModuleOrder and nextLessonOrder; deleted rows count.
nextOrders(r) ==
  IF siblingRows(r) = {} THEN {0}
  ELSE {sortOrder[s] + 1 : s \in {t \in siblingRows(r) :
          \A u \in siblingRows(r) : sortOrder[u] <= sortOrder[t]}}

\* The order is read here, the row made later.
beginAdd(r) ==
  /\ r \notin rows /\ untouched(r)
  /\ \E n \in GivenOrders \cup nextOrders(r) :
       edits' = edits \cup {[row |-> r, at |-> "create", n |-> n]}
  /\ UNCHANGED <<rowVars, courseVars>>

addModule(m) == ~courseDeleted /\ beginAdd(m)

\* The module must have a row; neither it nor the course is asked whether
\* it was deleted.
addLesson(l) == ModuleOf[l] \in rows /\ beginAdd(l)

\* The unique index on the parent and the sort order.
orderIsFree(e) == \A s \in siblingRows(e.row) : sortOrder[s] # e.n

\* create: fails when the order was taken meanwhile.
createRow(e) ==
  /\ e.at = "create"
  /\ IF orderIsFree(e)
     THEN /\ rows' = rows \cup {e.row}
          /\ sortOrder' = [sortOrder EXCEPT ![e.row] = e.n]
          /\ IF e.row \in Lessons THEN goesOn(e, "count") ELSE edits' = edits \ {e}
     ELSE edits' = edits \ {e} /\ UNCHANGED <<rows, sortOrder>>
  /\ UNCHANGED <<removed, courseVars>>

\* The request may name another order; a taken one fails.
changeRow(r) ==
  /\ r \in rows
  /\ \E n \in GivenOrders \cup {sortOrder[r]} :
       /\ \A s \in siblingRows(r) \ {r} : sortOrder[s] # n
       /\ sortOrder' = [sortOrder EXCEPT ![r] = n]
  /\ UNCHANGED <<rows, removed, courseVars>>

updateModule(m) == changeRow(m) /\ UNCHANGED edits

\* A deleted lesson as well.
updateLesson(l) ==
  /\ untouched(l)
  /\ changeRow(l)
  /\ edits' = edits \cup {[row |-> l, at |-> "count", n |-> 0]}

\* Mutation: the counters are not recomputed.
removeLessonUncounted(l) ==
  /\ l \in rows /\ untouched(l)
  /\ removed' = removed \cup {l}
  /\ UNCHANGED <<rows, sortOrder, edits, courseVars>>

removeLesson(l) ==
  /\ l \in rows /\ untouched(l)
  /\ removed' = removed \cup {l}
  /\ edits' = edits \cup {[row |-> l, at |-> "count", n |-> 0]}
  /\ UNCHANGED <<rows, sortOrder, courseVars>>

removeModule(m) ==
  /\ m \in rows
  /\ removed' = removed \cup {m}
  /\ UNCHANGED <<rows, sortOrder, edits, courseVars>>

\* refreshCourseCounters: the aggregate.
countLessons(e) ==
  /\ e.at = "count"
  /\ edits' = (edits \ {e}) \cup {[e EXCEPT !.at = "write", !.n = Cardinality(liveLessons)]}
  /\ UNCHANGED <<rowVars, courseVars>>

\* refreshCourseCounters: the update.
writeCounters(e) ==
  /\ e.at = "write"
  /\ lessonCount' = e.n
  /\ edits' = edits \ {e}
  /\ UNCHANGED <<rowVars, courseStatus, courseDeleted, courseWrites>>

-----------------------------------------------------------------------------
(* Reordering                                                              *)

Aborted == [r \in {} |-> 0]

\* The order after the first k updates; no row is named twice.
after(order, ids, offsets, k) ==
  [r \in Rows |-> IF \E j \in 1..k : ids[j] = r
                  THEN offsets[CHOOSE j \in 1..k : ids[j] = r]
                  ELSE order[r]]

\* The i-th update trips over the unique index.
collides(order, ids, offsets, i) ==
  \E s \in siblingRows(ids[i]) \ {ids[i]} :
    after(order, ids, offsets, i - 1)[s] = offsets[i]

\* The rows "ids", one after the other, each to its offset: all or nothing.
placeAll(order, ids, offsets) ==
  IF order = Aborted \/ \E i \in DOMAIN ids : collides(order, ids, offsets, i)
  THEN Aborted
  ELSE after(order, ids, offsets, Len(ids))

parking(ids) == [i \in DOMAIN ids |-> -i]
final(ids) == [i \in DOMAIN ids |-> i - 1]

\* Mutation: straight to the new offsets.
reorderedInOnePhase(order, ids) == placeAll(order, ids, final(ids))

\* Mutation: the rows stay parked.
reorderedHalfway(order, ids) == placeAll(order, ids, parking(ids))

\* reorderModules and reorderLessons: park at negative offsets, then place.
reordered(order, ids) == placeAll(placeAll(order, ids, parking(ids)), ids, final(ids))

\* The page offers the siblings that are not deleted.
reorder(group) ==
  /\ \E ids \in SetToSeqs(group \ removed) :
       LET order == reordered(sortOrder, ids) IN
       order # Aborted /\ sortOrder' = order
  /\ UNCHANGED <<rows, removed, edits, courseVars>>

-----------------------------------------------------------------------------
(* The course row                                                          *)

\* mustExist, and what else is looked at before the update.
beginCourseWrite(to) ==
  /\ ~courseDeleted
  /\ courseWrites' = courseWrites \cup {to}
  /\ UNCHANGED <<rowVars, edits, lessonCount, courseStatus, courseDeleted>>

publish == liveLessons # {} /\ beginCourseWrite("PUBLISHED")
unpublish == beginCourseWrite("DRAFT")
update == \E status \in CourseStatus : beginCourseWrite(status)
remove == beginCourseWrite("deleted")

\* The update, by then perhaps of a course that was deleted.
writeCourse(to) ==
  /\ to \in courseWrites
  /\ courseWrites' = courseWrites \ {to}
  /\ courseStatus' = IF to = "deleted" THEN "ARCHIVED" ELSE to
  /\ courseDeleted' = (courseDeleted \/ to = "deleted")
  /\ UNCHANGED <<rowVars, edits, lessonCount>>

-----------------------------------------------------------------------------

CatalogRequest ==
  \/ \E l \in Lessons : addLesson(l) \/ updateLesson(l) \/ removeLesson(l)
  \/ \E m \in Modules : addModule(m) \/ updateModule(m) \/ removeModule(m)
  \/ \E group \in {siblingRows(r) : r \in rows} : reorder(group)
  \/ publish \/ unpublish \/ update \/ remove

editSteps(e) == createRow(e) \/ countLessons(e) \/ writeCounters(e)

CatalogStep ==
  \/ \E e \in edits : editSteps(e)
  \/ \E to \in courseWrites : writeCourse(to)

\* A statement fails, or the process stops: handlers end where they are.
loseEdits ==
  /\ edits # {}
  /\ edits' \in SUBSET edits \ {edits}
  /\ UNCHANGED <<rowVars, courseVars>>

-----------------------------------------------------------------------------
(* Properties                                                              *)

CatalogTypeOK ==
  /\ rows \subseteq Rows
  /\ removed \subseteq rows
  /\ sortOrder \in [Rows -> Nat]
  /\ lessonCount \in Nat
  /\ courseStatus \in CourseStatus
  /\ courseDeleted \in BOOLEAN
  /\ edits \subseteq Edit
  /\ courseWrites \subseteq CourseStatus \cup {"deleted"}

\* "we first park rows at negative offsets" (courses.service.ts:392-395):
\* whatever the sort orders have become, a reorder that names every row under
\* a parent never trips over the unique index, and gives the order asked for.
\* (One that names only the rows that are left trips over a deleted row whose
\* offset it needs.)
ReordersTakeEffect ==
  \A group \in {siblingRows(r) : r \in rows} : \A ids \in SetToSeqs(group) :
    LET order == reordered(sortOrder, ids) IN
    /\ order # Aborted
    /\ \A i \in DOMAIN ids : order[ids[i]] = i - 1
    /\ \A s \in Rows \ group : order[s] = sortOrder[s]
=============================================================================
