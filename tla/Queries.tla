------------------------------ MODULE Queries ------------------------------
(***************************************************************************)
(* The read-side queries q1 to q7 (queries.rs).  They run on a log that       *)
(* replays, so they are defined over any state of Evolution: what is not in   *)
(* it (an unknown or a rejected record, one of another kind) is not in the    *)
(* domain of a query here and an error of it there.                           *)
(*                                                                          *)
(* Ids order the neighbours of a record; here they are ordered as the log is.  *)
(***************************************************************************)
EXTENDS Evolution

-----------------------------------------------------------------------------
(* Shared helpers *)

\* node: how every query reports a record.
Node(i) ==
  [id |-> i, kind |-> log[i].kind,
   standing |-> CASE i \in Accepted("Candidate") -> IF Stands[i] THEN "sound" ELSE "compromised"
                  [] i \in Accepted("Selection") -> IF i \in Unsound THEN "unsound" ELSE "sound"
                  [] OTHER -> "n/a",
   tainted |-> i \in tainted_records,
   retracted |-> i \in retracted_records,
   artifacts |-> CASE i \in Accepted("Candidate") \union Accepted("Result") -> log[i].body.artifacts
                   [] i \in Accepted("Evaluation") -> log[i].body.evidence
                   [] OTHER -> {},
   requirements |-> IF i \in Accepted("Evaluation") THEN log[i].body.requirements ELSE {}]

\* The n-th of S is the member up to which there are n.
Ascending(S) == [n \in 1..Cardinality(S) |-> CHOOSE i \in S : Cardinality({j \in S : j <= i}) = n]

Via(S, via) == LET s == Ascending(S) IN [n \in 1..Len(s) |-> <<s[n], via>>]

\* Mutant of BackEdges: a derivation has no ancestors.
BackEdgesContinued(c) ==
  LET b == log[c].body
      causes == Targets(log[c].refs, "Cause")
  IN  IF b.basis = "Continuation"
        THEN Via(causes, "continuation-anchor") \o << <<b.parent, "parent">> >> ELSE <<>>

\* back_edges: the ancestors of candidate c, each with the edge that leads there.
\* An evaluation that motivates a derivation is none.
BackEdges(c) ==
  LET b == log[c].body
      causes == Targets(log[c].refs, "Cause")
  IN  CASE b.basis = "Root" -> <<>>
        [] b.basis = "Continuation" ->
             Via(causes, "continuation-anchor") \o << <<b.parent, "parent">> >>
        [] b.basis = "Derivation" ->
             Via({t \in causes : log[t].kind = "Candidate"}, "derivation")

\* selection_evidence: the evaluations that selection s used.  Whether they were
\* accepted is not asked.
SelectionEvidence(s) == {Node(e) : e \in {t \in Targets(log[s].refs, "Use") : log[t].kind = "Evaluation"}}

-----------------------------------------------------------------------------
(* q1 and q2: descent *)

\* Mutants of Visit: an ancestor is reported each time it is reached; the newest
\* entry of the queue first.
VisitAgain(w) ==
  LET id == Head(w.queue)[1]
  IN  [line |-> Append(w.line, Head(w.queue)), seen |-> w.seen \union {id},
       queue |-> IF log[id].kind = "Candidate" THEN Tail(w.queue) \o BackEdges(id) ELSE Tail(w.queue)]
VisitDepthFirst(w) ==
  LET n == Len(w.queue)
      id == w.queue[n][1]
      rest == SubSeq(w.queue, 1, n - 1)
  IN  IF id \in w.seen THEN [w EXCEPT !.queue = rest]
      ELSE [line |-> Append(w.line, w.queue[n]),
            seen |-> w.seen \union {id},
            queue |-> IF log[id].kind = "Candidate" THEN rest \o BackEdges(id) ELSE rest]

\* One turn of the loop of descent: the head of the queue is skipped if it was
\* seen, and else reported and expanded.
Visit(w) ==
  LET id == Head(w.queue)[1]
  IN  IF id \in w.seen THEN [w EXCEPT !.queue = Tail(@)]
      ELSE [line |-> Append(w.line, Head(w.queue)),
            seen |-> w.seen \union {id},
            queue |-> IF log[id].kind = "Candidate" THEN Tail(w.queue) \o BackEdges(id)
                                                    ELSE Tail(w.queue)]

\* A candidate is expanded once and its edges lead to different records.
MaxVisits == Cardinality(Accepted("Candidate")) * Len(log)

\* q1: the steps <<ancestor, via>> of the line of candidate c.
Descent(c) ==
  LET walk[n \in 0..MaxVisits] ==
        IF n = 0 THEN [line |-> <<>>, seen |-> {c}, queue |-> BackEdges(c)]
        ELSE LET w == walk[n - 1] IN IF w.queue = <<>> THEN w ELSE Visit(w)
  IN  walk[MaxVisits].line

AncestorsOf(line) == {line[n][1] : n \in 1..Len(line)}

\* q2: the candidates whose descent passes through record i.
Descendants(i) == {c \in Accepted("Candidate") \ {i} : i \in AncestorsOf(Descent(c))}

-----------------------------------------------------------------------------
(* q3 and q4: generations and the frontier *)

\* Mutant of Siblings: continuations of one parent, whatever their anchor.
SiblingsOfParent(c) ==
  {d \in Accepted("Candidate") \ {c} :
     /\ log[c].body.basis = "Continuation" /\ log[d].body.basis = "Continuation"
     /\ log[d].body.parent = log[c].body.parent}

\* q3: the candidates with the same basis, not Root, and the same causes.
Siblings(c) ==
  {d \in Accepted("Candidate") \ {c} :
     /\ log[c].body.basis # "Root" /\ log[d].body.basis = log[c].body.basis
     /\ Targets(log[d].refs, "Cause") = Targets(log[c].refs, "Cause")}

\* Mutant of Considered: an unsound decision considered nothing.
ConsideredSoundly == UNION {log[s].body.considered : s \in Accepted("Selection") \ Unsound}

\* The candidates that an accepted selection considered, retracted or not.
Considered == UNION {log[s].body.considered : s \in Accepted("Selection")}

\* Those that it chose, and those that a continuation extends.
Chosen == UNION {log[s].body.selected : s \in Accepted("Selection")}
Continued == {log[c].body.parent : c \in {d \in Accepted("Candidate") : log[d].body.basis = "Continuation"}}

\* q4: why candidate c is on the frontier.
FrontierReason(c) ==
  CASE c \notin Considered -> "unconsidered"
    [] c \in Considered /\ c \in Chosen \ Continued -> "selected-no-continuation"
    [] c \in Considered /\ c \notin Chosen \ Continued -> "none"

-----------------------------------------------------------------------------
(* q5, q6 and q7: standing, evidence and decisions *)

\* q5: a record and what restores it.
Standing(i) ==
  [node |-> Node(i), restorations |-> IF i \in DOMAIN Restorations THEN Restorations[i] ELSE {}]

\* q6: what selection or candidate i rests on.
Evidence(i) ==
  LET selections == IF log[i].kind = "Selection" THEN {i}
                    ELSE {a \in AncestorsOf(Descent(i)) : log[a].kind = "Selection"}
  IN  {[selection |-> Node(s), evidence |-> SelectionEvidence(s)] : s \in selections}

\* q7: the decisions for an objective that chose something.
Selected(objective) ==
  {[selection |-> Node(s), chosen |-> {Node(c) : c \in log[s].body.selected},
    evidence |-> SelectionEvidence(s)] :
     s \in {t \in Accepted("Selection") : log[t].body.objective = objective
                                            /\ log[t].body.selected # {}}}

-----------------------------------------------------------------------------
(* Properties *)

\* candidate |-> its ancestors, each with its least distance.
Distances ==
  LET dist[c \in 1..Len(log)] ==
        IF c \notin Accepted("Candidate") THEN {}
        ELSE LET direct == StandingDeps(c) \union
                             (IF log[c].body.basis = "Continuation" THEN log[c].body.causes ELSE {})
                 far == {<<d, 1>> : d \in direct} \union
                          UNION {{<<x[1], x[2] + 1>> : x \in dist[d]} : d \in direct}
             IN  {x \in far : \A y \in far : y[1] = x[1] => x[2] <= y[2]}
  IN  dist

\* A line of descent has every ancestor of a candidate exactly once, the nearer
\* ones first, however often the lines of its ancestors meet ("every reachable
\* ancestor appears exactly once").
DescentExact ==
  LET dist == Distances
  IN  \A c \in Accepted("Candidate") :
        LET line == Descent(c)
            far(n) == (CHOOSE x \in dist[c] : x[1] = line[n][1])[2]
        IN  /\ AncestorsOf(line) = {x[1] : x \in dist[c]}
            /\ Cardinality(AncestorsOf(line)) = Len(line)
            /\ \A n \in 1..(Len(line) - 1) : far(n) <= far(n + 1)

\* What the queries report explains itself: a candidate is reported compromised
\* if and only if it, or a candidate on its reported line, is retracted, or has
\* an anchor there that is reported unsound and that none of the restorations
\* reported for it decided for the same parent.  So a retracted candidate takes
\* all its reported descendants with it, whatever was decided since.
StandingExplained ==
  /\ \A c \in Accepted("Candidate") :
       LET line == {c} \union (AncestorsOf(Descent(c)) \intersect Accepted("Candidate"))
           lost(d) == log[d].body.basis = "Continuation" /\
             \E s \in log[d].body.causes :
               LET report == Standing(s)
               IN  /\ report.node.standing = "unsound"
                   /\ \A t \in report.restorations : log[d].body.parent \notin log[t].body.selected
       IN  (Node(c).standing = "compromised") <=> \E d \in line : Node(d).retracted \/ lost(d)
  /\ \A c \in Accepted("Candidate") \intersect retracted_records :
       \A d \in Descendants(c) : Node(d).standing = "compromised"

\* Siblings share their fate: of two candidates of one generation and one
\* parent, none of them retracted itself, both stand or none does.
SiblingsShareFate ==
  \A c \in Accepted("Candidate") : \A d \in Siblings(c) :
    /\ c \in Siblings(d)
    /\ ({c, d} \intersect retracted_records = {} /\ log[c].body.parent = log[d].body.parent)
         => Stands[c] = Stands[d]

\* What is reported of a decision that stands, along any line, still counts:
\* evidence that was accepted is neither retracted nor tainted, and neither are
\* the requirements it lists; and what q7 says it chose is not either.
EvidenceSound ==
  /\ \A i \in Accepted("Candidate") \union Accepted("Selection") : \A entry \in Evidence(i) :
       entry.selection.standing = "sound" =>
         \A e \in {x \in entry.evidence : x.id \in accepted_records} :
           /\ ~e.retracted /\ ~e.tainted
           /\ \A q \in e.requirements : ~Node(q).retracted
  /\ \A o \in Objectives : \A entry \in Selected(o) :
       entry.selection.standing = "sound" => \A c \in entry.chosen : ~c.retracted /\ ~c.tainted

\* The frontier moves only when work does: a candidate changes its place on it
\* only by a decision that considers it or a continuation of it, never by a
\* retraction; once considered it is never unconsidered again, and once
\* continued it never returns.
FrontierForward ==
  [][\A c \in Accepted("Candidate") :
       FrontierReason(c)' # FrontierReason(c) =>
         LET new == log'[NextId]
         IN  \/ new.kind = "Selection" /\ c \in new.body.considered
                /\ FrontierReason(c)' # "unconsidered" /\ c \notin Continued
             \/ new.kind = "Candidate" /\ new.body.parent = c
                /\ FrontierReason(c)' = "none"]_evolution

\* Lines run through decisions and are reported whole.
LinesExact == ChosenLine /\ DescentExact

\* The standing that is reported follows from the lines that are reported.
StandingReported == StandingExplained /\ SiblingsShareFate

\* A decision that stands rests, and is reported to rest, on nothing withdrawn.
DecisionSound == SoundDecision /\ EvidenceSound
=============================================================================
