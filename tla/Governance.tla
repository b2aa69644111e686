----------------------------- MODULE Governance -----------------------------
(***************************************************************************)
(* The kinds through which work is asked for, authorized, done and closed:   *)
(* the per-kind checks of verify/verifier/{activity,lifecycle,plans}.rs and  *)
(* the per-kind folds of state/incremental.rs.  One action per kind commits  *)
(* a record that the verifier accepts; Reject of Ledger commits any other.   *)
(*                                                                          *)
(* What a retraction does to requirements and to approvals of selections is   *)
(* in Evolution, with those kinds.                                           *)
(*                                                                          *)
(* The tasks of a Plan are left out (their checks read the plan and the      *)
(* results it cites), and so are signatures and the free-text parts of the   *)
(* payloads.  An exact approval names the hash of an author and an           *)
(* ActionData: here, that pair itself.                                       *)
(***************************************************************************)
EXTENDS Ledger, FiniteSetsExt

CONSTANTS
  Threads,
  Classes,     \* action classes
  Scopes,
  ExecModes,   \* where an action may run: "Internal", "External"
  MaxTurns,    \* u32::MAX, the ceiling of the turn counter
  Grantees     \* bound: the actors that grants name

ASSUME GovernanceConstants ==
  MaxTurns \in Nat /\ \A s \in Settings : s.bounds.execs \subseteq ExecModes

VARIABLES
  active_requests,
  active_plans,          \* request |-> plan
  response_turns,        \* request |-> accepted responses
  open_actions,
  action_to_request,
  request_open_action_count,
  active_capabilities,   \* (actor, class, scope) |-> capability
  valid_approvals,       \* action hash |-> exact approval
  class_approvals,       \* (class, scope, actor or any) |-> class approval
  capability_index, exact_approval_index, class_approval_index,  \* id |-> key
  active_summaries,      \* scope |-> summary
  usage_counts           \* id |-> reports of its use

requests == <<active_requests, active_plans, response_turns>>
actions == <<open_actions, action_to_request, request_open_action_count>>
grants == <<active_capabilities, valid_approvals, class_approvals,
            capability_index, exact_approval_index, class_approval_index>>
claims == <<active_summaries, usage_counts>>
vars == <<epistemic, requests, actions, grants, claims>>

\* Bounds: the expiry times and modes of grants, where actions run, the kinds
\* whose records name a parent or a record they replace, the artifacts of
\* results, the number of optional Use references of a record, and that of
\* rejected records.
Expiries == bounds.expiries
Modes == bounds.modes
Execs == bounds.execs
Linked == bounds.linked
Results == bounds.results
MaxUse == bounds.uses
MaxRejected == bounds.rejected

NoKey == <<>>
AnyActor == "any"

CapKeys == Grantees \X Classes \X Scopes
ClassKeys == Classes \X Scopes \X (Grantees \union {AnyActor})
Hashes == Grantees \X Ids \X Classes \X Scopes \X ExecModes

\* The optional references of a record: what its author says it used.
Uses == {{Ref("Use", i) : i \in U} : U \in {V \in SUBSET (1..Len(log)) : Cardinality(V) <= MaxUse}}

Linkable(kind) == IF kind \in Linked THEN Accepted(kind) ELSE {}
Replacing(kind) == {{}} \union {{Ref("Replace", i)} : i \in Linkable(kind)}

Init ==
  /\ LedgerInit
  /\ active_requests = {}
  /\ active_plans = [i \in Ids |-> None]
  /\ response_turns = [i \in Ids |-> 0]
  /\ open_actions = {}
  /\ action_to_request = [i \in Ids |-> None]
  /\ request_open_action_count = [i \in Ids |-> 0]
  /\ active_capabilities = [k \in CapKeys |-> None]
  /\ valid_approvals = [h \in Hashes |-> None]
  /\ class_approvals = [k \in ClassKeys |-> None]
  /\ capability_index = [i \in Ids |-> NoKey]
  /\ exact_approval_index = [i \in Ids |-> NoKey]
  /\ class_approval_index = [i \in Ids |-> NoKey]
  /\ active_summaries = [s \in Scopes |-> None]
  /\ usage_counts = [i \in Ids |-> 0]

-----------------------------------------------------------------------------
(* Requests, plans and responses *)

\* A delegated request names one parent, an accepted request of its thread,
\* by its payload and by its one Cause reference.
CommitRequest(a, th, sc, parent, uses) ==
  LET refs == uses \union (IF parent = None THEN {} ELSE {Ref("Cause", parent)})
  IN  /\ parent # None => parent \in Accepted("Request") /\ log[parent].body.thread = th
      /\ Accept("Request", a, [thread |-> th, scope |-> sc, parent |-> parent], refs)
      /\ Claims(refs)
      /\ active_requests' = active_requests \union {NextId}
      /\ UNCHANGED <<active_plans, response_turns, actions, grants, claims>>

\* Mutant of Serves: a request that is over still takes work.
ServesAccepted(req, th) == req \in Accepted("Request") /\ log[req].body.thread = th

\* An active request of thread th.
Serves(req, th) == req \in active_requests /\ log[req].body.thread = th

\* A plan takes the slot of its request while it runs, and frees it otherwise.
CommitPlan(a, th, req, status, repl) ==
  LET refs == repl \union {Ref("Cause", req)}
  IN  /\ Serves(req, th)
      /\ Accept("Plan", a, [thread |-> th, request |-> req, status |-> status], refs)
      /\ Claims(refs)
      /\ active_plans' = [active_plans EXCEPT ![req] = IF status = "Running" THEN NextId ELSE None]
      /\ UNCHANGED <<active_requests, response_turns, actions, grants, claims>>

\* Mutant of EndRequest: the plan of a request that is over stays.
EndRequestOnly(req) == active_requests' = active_requests \ {req} /\ UNCHANGED active_plans

\* A request is over, and its plan with it.
EndRequest(req) ==
  /\ active_requests' = active_requests \ {req}
  /\ active_plans' = [active_plans EXCEPT ![req] = None]

\* Mutant of Closable: a running plan does not hold its request open.
ClosablePlanned(req) == request_open_action_count[req] = 0

\* A closing response strands neither an open action nor a running plan.
Closable(req) == request_open_action_count[req] = 0 /\ active_plans[req] = None

\* Mutant of TurnOf: a turn already taken is accepted again.
TurnOfAny(req, turn) == turn <= response_turns[req] /\ turn # MaxTurns

\* The turn is the next one, below the ceiling of the counter.
TurnOf(req, turn) == turn = response_turns[req] /\ response_turns[req] # MaxTurns

\* Responses come in turns without a gap; a closing one ends the request.
CommitResponse(a, th, req, turn, closes, uses) ==
  /\ Serves(req, th)
  /\ TurnOf(req, turn)
  /\ closes => Closable(req)
  /\ Accept("Response", a, [thread |-> th, request |-> req, turn |-> turn, closes |-> closes], uses)
  /\ Claims(uses)
  /\ response_turns' = [response_turns EXCEPT ![req] = @ + 1]
  /\ IF closes
       THEN EndRequest(req)
       ELSE UNCHANGED <<active_requests, active_plans>>
  /\ UNCHANGED <<actions, grants, claims>>

-----------------------------------------------------------------------------
(* Capabilities and approvals *)

\* The latest grant for a key takes its slot.
CommitCapability(a, th, key, mode, expiry, uses, repl) ==
  LET refs == uses \union repl
  IN  /\ Accept("Capability", a, [thread |-> th, key |-> key, mode |-> mode, expiry |-> expiry], refs)
      /\ Claims(refs)
      /\ capability_index' = [capability_index EXCEPT ![NextId] = key]
      /\ active_capabilities' = [active_capabilities EXCEPT ![key] = NextId]
      /\ UNCHANGED <<requests, actions, valid_approvals, class_approvals, exact_approval_index,
                     class_approval_index, claims>>

\* Exactly one form: of one action by one actor, or of a class of actions.
CommitExactApproval(a, th, hash, actor, sc, expiry, uses, repl) ==
  /\ Accept("Approval", a, [form |-> "exact", thread |-> th, key |-> hash, actor |-> actor,
                            scope |-> sc, expiry |-> expiry], uses \union repl)
  /\ Claims(uses \union repl)
  /\ exact_approval_index' = [exact_approval_index EXCEPT ![NextId] = hash]
  /\ valid_approvals' = [valid_approvals EXCEPT ![hash] = NextId]
  /\ UNCHANGED <<requests, actions, active_capabilities, class_approvals, capability_index,
                 class_approval_index, claims>>

CommitClassApproval(a, th, key, expiry, uses, repl) ==
  /\ Accept("Approval", a, [form |-> "class", thread |-> th, key |-> key, expiry |-> expiry],
            uses \union repl)
  /\ Claims(uses \union repl)
  /\ class_approval_index' = [class_approval_index EXCEPT ![NextId] = key]
  /\ class_approvals' = [class_approvals EXCEPT ![key] = NextId]
  /\ UNCHANGED <<requests, actions, active_capabilities, valid_approvals, capability_index,
                 exact_approval_index, claims>>

-----------------------------------------------------------------------------
(* Actions and what closes them *)

Unexpired(i) == TimeOf(NextId) < log[i].body.expiry

\* The exact approval of the action with this hash, if it is usable: sound,
\* declared for this actor and scope, not expired.
ExactUsable(hash, actor, sc) ==
  LET i == valid_approvals[hash]
  IN  /\ i # None /\ Sound(i)
      /\ log[i].body.actor = actor /\ log[i].body.scope = sc
      /\ Unexpired(i)

ClassUsable(key) == class_approvals[key] # None /\ Sound(class_approvals[key])

\* check_approval_for_action: an exact approval, then one for the class and
\* the actor, then one for the class.  The first sound class approval decides,
\* even by having expired.
ApprovalFor(hash, actor, cls, sc) ==
  LET own == <<cls, sc, actor>>
      any == <<cls, sc, AnyActor>>
      live(i) == IF Unexpired(i) THEN i ELSE None
  IN  CASE ExactUsable(hash, actor, sc) -> valid_approvals[hash]
        [] ~ExactUsable(hash, actor, sc) /\ ClassUsable(own) -> live(class_approvals[own])
        [] ~ExactUsable(hash, actor, sc) /\ ~ClassUsable(own) /\ ClassUsable(any)
             -> live(class_approvals[any])
        [] OTHER -> None

\* Mutant of Authorizes: an expired capability still authorizes.
AuthorizesExpired(cap) ==
  /\ cap # None /\ cap \notin retracted_records \union tainted_records
  /\ log[cap].body.mode # "Deny"

\* The capability of the slot authorizes: it is there, neither retracted nor
\* tainted, not expired, and not a denial.
Authorizes(cap) ==
  /\ cap # None /\ cap \notin retracted_records \union tainted_records
  /\ Unexpired(cap)
  /\ log[cap].body.mode # "Deny"

\* An action that names the exact approval of its hash consumes it.
Consumed(hash, refs) ==
  valid_approvals[hash] # None /\ valid_approvals[hash] \in Targets(refs, "Require")

\* The references name the capability and, if it asks, the approval; extra
\* stands for any further Require.
CommitAction(a, th, req, cls, sc, exec, extra, uses) ==
  LET cap == active_capabilities[<<a, cls, sc>>]
      hash == <<a, req, cls, sc, exec>>
      asks == cap # None /\ log[cap].body.mode = "Ask"
      approval == IF asks THEN ApprovalFor(hash, a, cls, sc) ELSE None
      refs == uses \union {Ref("Require", i) : i \in ({cap, approval} \union extra) \ {None}}
  IN  /\ Serves(req, th) /\ log[req].body.scope = sc
      /\ Authorizes(cap)
      /\ asks => approval # None
      /\ Accept("Action", a, [thread |-> th, request |-> req, class |-> cls, scope |-> sc,
                              exec |-> exec], refs)
      /\ Claims(refs)
      /\ IF Consumed(hash, refs)
           THEN /\ valid_approvals' = [valid_approvals EXCEPT ![hash] = None]
                /\ exact_approval_index' =
                     [exact_approval_index EXCEPT ![valid_approvals[hash]] = NoKey]
           ELSE UNCHANGED <<valid_approvals, exact_approval_index>>
      /\ open_actions' = open_actions \union {NextId}
      /\ action_to_request' = [action_to_request EXCEPT ![NextId] = req]
      /\ request_open_action_count' = [request_open_action_count EXCEPT ![req] = @ + 1]
      /\ UNCHANGED <<requests, active_capabilities, class_approvals, capability_index,
                     class_approval_index, claims>>

\* Mutant of CloseAction: the count of the request is not taken down.
CloseActionOnly(act) ==
  /\ open_actions' = open_actions \ {act}
  /\ UNCHANGED <<action_to_request, request_open_action_count>>

\* An action leaves open_actions and its request's count.
CloseAction(act) ==
  /\ open_actions' = open_actions \ {act}
  /\ request_open_action_count' =
       IF action_to_request[act] = None THEN request_open_action_count
       ELSE [request_open_action_count EXCEPT ![action_to_request[act]] = @ - 1]
  /\ UNCHANGED action_to_request

\* Mutant of OpenIn: an action may be closed again.
OpenInAny(act, th) == act \in Accepted("Action") /\ log[act].body.thread = th

\* An open action of thread th.
OpenIn(act, th) == act \in open_actions /\ log[act].body.thread = th

\* The schema of a result follows from where its action ran; it may carry
\* artifacts.
CommitResult(a, th, act, schema, artifacts, uses) ==
  LET refs == uses \union {Ref("Cause", act)}
  IN  /\ OpenIn(act, th)
      /\ log[act].body.exec = "External" <=> schema = "external_receipt"
      /\ Accept("Result", a, [thread |-> th, action |-> act, schema |-> schema, artifacts |-> artifacts,
                              external |-> schema = "external_receipt"], refs)
      /\ Claims(refs)
      /\ CloseAction(act)
      /\ UNCHANGED <<requests, grants, claims>>

RefuseAction(a, th, act) ==
  /\ OpenIn(act, th)
  /\ Accept("Refusal", a, [thread |-> th, of |-> "Action", target |-> act], {Ref("Cause", act)})
  /\ Claims({Ref("Cause", act)})
  /\ CloseAction(act)
  /\ UNCHANGED <<requests, grants, claims>>

\* A refused request is over, with its plan; its open actions are not.
RefuseRequest(a, th, req) ==
  /\ Serves(req, th)
  /\ Accept("Refusal", a, [thread |-> th, of |-> "Request", target |-> req], {Ref("Cause", req)})
  /\ Claims({Ref("Cause", req)})
  /\ EndRequest(req)
  /\ UNCHANGED <<response_turns, actions, grants, claims>>

RefuseEffect(a, th, res) ==
  /\ res \in Accepted("Result") /\ log[res].body.schema = "effect_confirmation"
  /\ log[res].body.thread = th
  /\ Accept("Refusal", a, [thread |-> th, of |-> "VerifiedEffect", target |-> res],
            {Ref("Cause", res)})
  /\ Claims({Ref("Cause", res)})
  /\ UNCHANGED <<requests, actions, grants, claims>>

-----------------------------------------------------------------------------
(* Claims and their withdrawal *)

CommitSummary(a, th, sc, uses, repl) ==
  LET refs == uses \union repl
  IN  /\ uses # {}
      /\ Accept("Summary", a, [thread |-> th, scope |-> sc], refs)
      /\ Claims(refs)
      /\ active_summaries' = [active_summaries EXCEPT ![sc] = NextId]
      /\ UNCHANGED <<requests, actions, grants, usage_counts>>

\* A report that a finished step of the thread used a record.
CommitUsage(a, th, used, consuming) ==
  LET refs == {Ref("Use", used)}
  IN  /\ consuming \in Accepted("Result") \union Accepted("Refusal")
      /\ log[consuming].body.thread = th
      /\ Accept("Usage", a, [thread |-> th, used |-> used, consuming |-> consuming], refs)
      /\ Claims(refs)
      /\ usage_counts' = [usage_counts EXCEPT ![used] = @ + 1]
      /\ UNCHANGED <<requests, actions, grants, active_summaries>>

\* The slot of key k is freed if record i still has it.
Freed(slots, k, i) == IF k # NoKey /\ slots[k] = i THEN [slots EXCEPT ![k] = None] ELSE slots

\* Mutant of Deactivate: a withdrawn capability keeps its slot.
DeactivateApprovals(i) ==
  /\ valid_approvals' = Freed(valid_approvals, exact_approval_index[i], i)
  /\ class_approvals' = Freed(class_approvals, class_approval_index[i], i)
  /\ UNCHANGED active_capabilities

\* Withdrawn authority stops authorizing.
Deactivate(i) ==
  /\ active_capabilities' = Freed(active_capabilities, capability_index[i], i)
  /\ valid_approvals' = Freed(valid_approvals, exact_approval_index[i], i)
  /\ class_approvals' = Freed(class_approvals, class_approval_index[i], i)

\* An accepted record that is no Retraction is withdrawn by its author or by
\* an administrator.
CommitRetraction(a, th, target, uses) ==
  LET refs == uses \union {Ref("Cause", target)}
  IN  /\ target \in accepted_records /\ log[target].kind # "Retraction"
      /\ a = log[target].author \/ a \in Admins
      /\ Accept("Retraction", a, [thread |-> th, target |-> target], refs)
      /\ Withdraws(target, refs)
      /\ Deactivate(target)
      /\ UNCHANGED <<requests, actions, capability_index, exact_approval_index,
                     class_approval_index, claims>>

-----------------------------------------------------------------------------

CommitRejected ==
  /\ Cardinality(1..Len(log) \ accepted_records) < MaxRejected
  /\ Reject
  /\ UNCHANGED <<requests, actions, grants, claims>>

\* The records that set the stage for work, and the work itself.
Grant(a, th, uses) ==
  \/ \E sc \in Scopes, p \in {None} \union Linkable("Request") : CommitRequest(a, th, sc, p, uses)
  \/ \E key \in CapKeys, mode \in Modes, e \in Expiries,
        repl \in Replacing("Capability") : CommitCapability(a, th, key, mode, e, uses, repl)
  \/ \E h \in Hashes, actor \in Grantees, sc \in Scopes, e \in Expiries,
        repl \in Replacing("Approval") :
        h[2] \in Accepted("Request") /\ h[5] \in Execs /\ CommitExactApproval(a, th, h, actor, sc, e, uses, repl)
  \/ \E key \in ClassKeys, e \in Expiries, repl \in Replacing("Approval") :
        CommitClassApproval(a, th, key, e, uses, repl)

Work(a, th, uses) ==
  \/ \E req \in Accepted("Request"), cls \in Classes, sc \in Scopes, x \in Execs :
       \E extra \in IF a \in Grantees THEN {{}, {valid_approvals[<<a, req, cls, sc, x>>]}} ELSE {} :
         CommitAction(a, th, req, cls, sc, x, extra, uses)
  \/ \E act \in Accepted("Action"), s \in {"result", "external_receipt", "effect_confirmation"},
        artifacts \in Results : CommitResult(a, th, act, s, artifacts, uses)
  \/ \E req \in Accepted("Request"), t \in 0..MaxTurns, c \in BOOLEAN :
       CommitResponse(a, th, req, t, c, uses)
  \/ \E sc \in Scopes, repl \in Replacing("Summary") : CommitSummary(a, th, sc, uses, repl)
  \/ \E target \in accepted_records : CommitRetraction(a, th, target, uses)

Settle(a, th) ==
  \/ \E req \in Accepted("Request"), s \in {"Running", "Completed", "Abandoned"},
        repl \in Replacing("Plan") : CommitPlan(a, th, req, s, repl)
  \/ \E act \in Accepted("Action") : RefuseAction(a, th, act)
  \/ \E req \in Accepted("Request") : RefuseRequest(a, th, req)
  \/ \E res \in Accepted("Result") : RefuseEffect(a, th, res)
  \/ \E used \in 1..Len(log), c \in accepted_records : CommitUsage(a, th, used, c)

Next ==
  /\ Room
  /\ \/ \E a \in Actors, th \in Threads :
          \/ \E uses \in Uses : Grant(a, th, uses) \/ Work(a, th, uses)
          \/ Settle(a, th)
     \/ CommitRejected

Spec == Init /\ [][Next]_vars

-----------------------------------------------------------------------------
(* Properties.  All but TypeOK compare the folded state with the log, or     *)
(* are about the log alone: what an auditor who has no State can see in it.  *)

\* The fold keeps its indexes in range; no count of open actions goes below zero.
TypeOK ==
  /\ Len(log) \in 0..MaxRecords
  /\ accepted_records \subseteq 1..Len(log)
  /\ active_requests \subseteq Accepted("Request")
  /\ open_actions \subseteq Accepted("Action")
  /\ \A i \in Ids : /\ active_plans[i] \in Accepted("Plan") \union {None}
                   /\ response_turns[i] \in 0..MaxTurns
                   /\ action_to_request[i] \in Accepted("Request") \union {None}
                   /\ request_open_action_count[i] \in Nat
                   /\ usage_counts[i] \in Nat
  /\ \A s \in Scopes : active_summaries[s] \in Accepted("Summary") \union {None}

Latest(S) == Max(S \union {None})

\* What the log of before time i says.
Withdrawn(t, i) == \E j \in Accepted("Retraction") : j < i /\ log[j].body.target = t
Capabilities(key, i) == {c \in Accepted("Capability") : c < i /\ log[c].body.key = key}
Approvals(form, key, i) ==
  {p \in Accepted("Approval") : p < i /\ log[p].body.form = form /\ log[p].body.key = key}

HashOf(i) ==
  <<log[i].author, log[i].body.request, log[i].body.class, log[i].body.scope, log[i].body.exec>>

\* Actions of before i that spent exact approval p.
Spent(p, i) ==
  {j \in Accepted("Action") : j < i /\ HashOf(j) = log[p].body.key /\ Ref("Require", p) \in log[j].refs}

\* Grant g, named by action i, was in force when i was committed.
InForce(g, i) ==
  g # None /\ Ref("Require", g) \in log[i].refs /\ ~Withdrawn(g, i) /\ TimeOf(i) < log[g].body.expiry

\* Every accepted action is backed, in the log alone, by the authority of its
\* moment: the newest capability for its author, class and scope, in force and
\* no denial; and, if that one asks, the newest approval of some form for it, in
\* force and, if exact, declared for this author and scope and never spent before.
AuditAuthority ==
  \A i \in Accepted("Action") :
    LET b == log[i].body
        me == log[i].author
        cap == Latest(Capabilities(<<me, b.class, b.scope>>, i))
        exact == Latest(Approvals("exact", HashOf(i), i))
        classes == {Latest(Approvals("class", <<b.class, b.scope, who>>, i)) : who \in {me, AnyActor}}
    IN  /\ InForce(cap, i)
        /\ log[cap].body.mode # "Deny"
        /\ log[cap].body.mode = "Ask" =>
             \/ /\ InForce(exact, i) /\ Spent(exact, i) = {}
                /\ log[exact].body.actor = me /\ log[exact].body.scope = b.scope
             \/ \E p \in classes : InForce(p, i)

\* Each authority slot holds the newest grant for its key, and nothing once that
\* one is retracted or, if it is an exact approval, spent: an older grant never
\* comes back, and retracting an older one never takes the newer one away.
SlotsAreLatest ==
  LET live(g) == IF g = None \/ Withdrawn(g, NextId) THEN None ELSE g
      unspent(p) == IF p = None \/ Spent(p, NextId) # {} THEN None ELSE p
  IN  /\ \A k \in CapKeys : active_capabilities[k] = live(Latest(Capabilities(k, NextId)))
      /\ \A h \in Hashes :
           valid_approvals[h] = unspent(live(Latest(Approvals("exact", h, NextId))))
      /\ \A k \in ClassKeys : class_approvals[k] = live(Latest(Approvals("class", k, NextId)))

\* Records that end request r, and the work done for it.
Terminals(r) ==
  {t \in Accepted("Response") : log[t].body.request = r /\ log[t].body.closes}
    \union {t \in Accepted("Refusal") : log[t].body.of = "Request" /\ log[t].body.target = r}
WorkFor(r, kind) == {i \in Accepted(kind) : log[i].body.request = r}

\* A request ends once, nothing is accepted for it afterwards, and it is active
\* exactly until then.
TerminalIsLast ==
  /\ \A r \in Accepted("Request") : \A t \in Terminals(r) :
       \A i \in Terminals(r) \union WorkFor(r, "Action") \union WorkFor(r, "Plan")
                 \union WorkFor(r, "Response") : i <= t
  /\ active_requests = {r \in Accepted("Request") : Terminals(r) = {}}

\* Records that close action act.
Closers(act) ==
  {i \in Accepted("Result") : log[i].body.action = act}
    \union {i \in Accepted("Refusal") : log[i].body.of = "Action" /\ log[i].body.target = act}

\* An action has one outcome at most, is open exactly until it has it, and each
\* request counts its open actions, those of a refused request included.
OpenExact ==
  /\ \A act \in Accepted("Action") : Cardinality(Closers(act)) <= 1
  /\ open_actions = {act \in Accepted("Action") : Closers(act) = {}}
  /\ \A r \in Accepted("Request") :
       request_open_action_count[r] = Cardinality(WorkFor(r, "Action") \intersect open_actions)

\* A response that closes a request strands nothing: before it, every action of
\* the request had its outcome and its last plan had finished.
ClosedClean ==
  \A t \in Accepted("Response") : log[t].body.closes =>
    LET r == log[t].body.request
        plan == Latest({p \in WorkFor(r, "Plan") : p < t})
    IN  /\ \A act \in WorkFor(r, "Action") : \E c \in Closers(act) : c < t
        /\ plan # None => log[plan].body.status # "Running"

\* The plan slot of a request holds its newest plan while that one runs and the
\* request is active.
PlansExact ==
  \A r \in Accepted("Request") :
    LET plan == Latest(WorkFor(r, "Plan"))
    IN  active_plans[r] = IF r \in active_requests /\ plan # None /\ log[plan].body.status = "Running"
                            THEN plan ELSE None

\* The conversation of a request has no gap, no repeated turn and no reordering,
\* up to the ceiling of the turn counter.
TurnsGapFree ==
  \A r \in Accepted("Request") : \A t \in WorkFor(r, "Response") :
    log[t].body.turn = Cardinality({u \in WorkFor(r, "Response") : u < t})

\* A request ends once, last and clean.
RequestsEnd == TerminalIsLast /\ ClosedClean

\* The indexes that closing is checked against, open actions, running plans and
\* turns, say what the log says, whichever kinds of records moved them.
WorkExact == OpenExact /\ PlansExact /\ TurnsGapFree
=============================================================================
