---------------------------- MODULE LessonGateway ----------------------------
(***************************************************************************)
(* The way of one lesson read: api-gateway finds out which course a slug   *)
(* names (course-service) and whether the learner is entitled to it        *)
(* (enrollment-service), and forwards the answer to course-service, which  *)
(* decides how much of the lesson it gives out.  Access may close, and the *)
(* course may change, between these calls.  A call that fails counts as a  *)
(* no.                                                                     *)
(*                                                                         *)
(* Only a path the gateway's pattern matches goes this way.  The pattern   *)
(* minds the case of its letters and the routes of course-service do not,  *)
(* so some reads are forwarded as they came, "entitled" included.          *)
(***************************************************************************)
EXTENDS Certificates

CONSTANT Previews   \* lessons anybody may read

ASSUME PreviewsAssumption == Previews \subseteq Lessons

VARIABLES reads,    \* in flight: [lesson, matched, at, entitled]
          opened    \* [lesson, matched]: whose content the learner was given

gatewayVars == <<reads, opened>>

Read == [lesson : Lessons, matched : BOOLEAN,
         at : {"resolve", "check", "forward"}, entitled : BOOLEAN]
Opened == [lesson : Lessons, matched : BOOLEAN]

GatewayInit == reads = {} /\ opened = {}

answers(r, at, entitled) ==
  reads' = (reads \ {r}) \cup {[r EXCEPT !.at = at, !.entitled = entitled]}

\* Without a valid token nobody is asked; where the path does not match, the
\* query of the request stands.  One read of a lesson at a time (a bound).
readLesson(l) ==
  /\ l \in rows
  /\ \A r \in reads : r.lesson # l
  /\ \E r \in Read :
       /\ r.lesson = l
       /\ IF r.matched THEN r.at \in {"resolve", "forward"} /\ ~r.entitled
          ELSE r.at = "forward"
       /\ reads' = reads \cup {r}
  /\ UNCHANGED opened

\* GET /courses/:slug finds published courses only.
courseIdForSlug(r) ==
  /\ r.at = "resolve"
  /\ answers(r, IF courseStatus = "PUBLISHED" /\ ~courseDeleted THEN "check" ELSE "forward",
             FALSE)
  /\ UNCHANGED opened

checkEntitled(r) ==
  /\ r.at = "check"
  /\ answers(r, "forward", isEntitled)
  /\ UNCHANGED opened

\* Mutation: the catch of isEntitled lets the learner in.
callFailsOpen(r) ==
  /\ r.at \in {"resolve", "check"}
  /\ answers(r, "forward", r.at = "check")
  /\ UNCHANGED opened

\* A time-out or an error of either call.
callFails(r) ==
  /\ r.at \in {"resolve", "check"}
  /\ answers(r, "forward", FALSE)
  /\ UNCHANGED opened

\* Found unless it or the course was deleted, of whatever status the course is.
getLesson(r) ==
  /\ r.at = "forward"
  /\ LET found == ~courseDeleted /\ r.lesson \notin removed
         unlocked == r.entitled \/ r.lesson \in Previews
     IN opened' = IF found /\ unlocked
                  THEN opened \cup {[lesson |-> r.lesson, matched |-> r.matched]}
                  ELSE opened
  /\ reads' = reads \ {r}

GatewayRequest == \E l \in Lessons : readLesson(l)

GatewayStep == \E r \in reads : courseIdForSlug(r) \/ checkEntitled(r) \/ getLesson(r)

loseReads == \E r \in reads : callFails(r)

GatewayTypeOK == reads \subseteq Read /\ opened \subseteq Opened
=============================================================================
