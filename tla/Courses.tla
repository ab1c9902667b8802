------------------------------ MODULE Courses ------------------------------
(***************************************************************************)
(* The courses the server plots: paths to walk and lines to see along.     *)
(*                                                                         *)
(* A behaviour takes a question of one kind and answers it.  The path      *)
(* search turns its loop once a step; a line of sight is answered in one.  *)
(* Algorithms asks about the other algorithms in the same way; here their  *)
(* questions are Elsewhere.                                                *)
(***************************************************************************)
EXTENDS Search, Sight

CONSTANTS
    Paths,          \* searches (see Search)
    Views           \* lines of sight: [t, from, to]

\* Searches and lines start and end on the map; a view is of a terrain.
ASSUME CoursesAssumption ==
    /\ \A s \in Paths : s.start \in Plane /\ s.target \in Plane /\ s.free \subseteq Plane
    /\ \A v \in Views :
           /\ v.from \in Position /\ v.to \in Position
           /\ v.t = [held |-> v.t.held, ground |-> v.t.ground, blocked |-> v.t.blocked,
                     opaque |-> v.t.opaque, zone |-> v.t.zone,
                     change |-> v.t.change, height |-> v.t.height]
           /\ v.t.opaque \subseteq Position

VARIABLES kind, question, nodes, answer
vars == <<kind, question, nodes, answer>>

Unanswered == << >>

PathAsked == kind = "path" /\ question \in Paths
SightAsked == kind = "sight" /\ question \in Views
Fresh == answer = Unanswered /\ nodes = IF kind = "path" THEN FirstNode(question) ELSE << >>

Answer(k, value) ==
    /\ kind = k /\ answer = Unanswered
    /\ answer' = <<value>>
    /\ UNCHANGED <<kind, question, nodes>>

SearchStep ==
    /\ kind = "path" /\ answer = Unanswered
    /\ \E turn \in Expand(question, nodes) :
           /\ nodes' = turn.nodes
           /\ answer' = IF turn.over THEN <<turn.path>> ELSE Unanswered
    /\ UNCHANGED <<kind, question>>

LookAlong ==
    Answer("sight", [level |-> IsSightClear(question.t, question.from, question.to, TRUE),
                     thrown |-> CanThrowObjectTo(question.t, question.from, question.to)])

\* A question of another kind: whatever it is answered.
Other == kind \notin {"path", "sight"}
Elsewhere == Other /\ UNCHANGED <<kind, question, nodes>>

\* Every behaviour of Algorithms is one of these: its other actions Answer
\* a question of another kind.
CourseSpec ==
    /\ Fresh /\ (PathAsked \/ SightAsked \/ Other)
    /\ [][SearchStep \/ LookAlong \/ Elsewhere]_vars

(***************************************************************************)
(* Properties.                                                             *)
(***************************************************************************)
Answered(k) == kind = k /\ answer # Unanswered
Got == answer[1]

\* get_path_matching: a path the search gives leads over walkable tiles
\* from the start to the first tile that will do, and enters none twice.
PathsLead == Answered("path") => Got = << >> \/ Leads(question, Got)

\* The loop of get_path_matching ends: nodes are opened again only for a
\* path that costs no more, in a table that is bounded.
SearchEnds == (kind = "path") ~> (answer # Unanswered)

\* is_sight_clear, can_throw_object_to: on one floor each end sees the other
\* or neither does (the code turns a line round to walk it in one direction
\* only); a straight line is clear when nothing opaque that is loaded is on
\* it, and a tile outside the rectangle of a line never matters.
Inside(a, b, p) ==
    /\ Lesser(a[1], b[1]) <= p[1] /\ p[1] <= Greater(a[1], b[1])
    /\ Lesser(a[2], b[2]) <= p[2] /\ p[2] <= Greater(a[2], b[2])
Straight(a, b) == a[1] = b[1] \/ a[2] = b[2] \/ Abs(a[1] - b[1]) = Abs(a[2] - b[2])
OnLine(a, b, p) ==
    /\ Inside(a, b, p) /\ p[3] = a[3] /\ p \notin {a, b}
    /\ (p[1] - a[1]) * (b[2] - a[2]) = (p[2] - a[2]) * (b[1] - a[1])
SightIsMutual ==
    Answered("sight") =>
        LET t == question.t
            a == question.from
            b == question.to
        IN  /\ a[3] = b[3] =>
                /\ Got.level = IsSightClear(t, b, a, TRUE)
                /\ Got.thrown = CanThrowObjectTo(t, b, a)
                /\ Straight(a, b) => (Got.level <=> ~ \E p \in t.opaque : Holds(t, p) /\ OnLine(a, b, p))
                /\ Got.level = IsSightClear([t EXCEPT !.opaque = {p \in @ : Inside(a, b, p)}], a, b, TRUE)
            /\ a[3] # b[3] => ~ Got.level
            /\ Got.thrown => a[3] - b[3] <= 1 /\ (a[3] > Surface <=> b[3] > Surface)

=============================================================================
