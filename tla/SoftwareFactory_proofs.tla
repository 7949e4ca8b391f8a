----------------------- MODULE SoftwareFactory_proofs -----------------------
(***************************************************************************)
(* The factory, for every set of runs, agents, caps and costs, every       *)
(* number of iterations and every configuration: what a capped build can   *)
(* cost, the turns of a review and the task of a plan.                     *)
(* First, what the code between two awaits makes of one execution; then    *)
(* the steps.  Nothing is needed of who the agents are.                    *)
(***************************************************************************)
EXTENDS SoftwareFactory, TLAPS

Fields == {"pc", "kind", "cap", "steps", "reviewer", "at", "iter", "piped", "total", "flying",
           "saved", "said", "ok"}

Looping == {"step", "testing", "reviewing"}
Reviewing == {"diffing", "gather", "fanout"}
Builds(w) == w.kind \in BuildKinds

\* Of the turns there can be, one costs the most.
HasDearest == \E c \in Costs : \A d \in Costs : d <= c

Amounts(w) == /\ DOMAIN w = Fields
              /\ w.cap \in Nat /\ w.total \in Nat /\ w.piped \in Nat

\* The phases of an execution, and whose turns may be under way in each.
Phases(w) ==
  /\ w.pc \in {"idle", "planning"} \cup Looping \cup Reviewing \cup {"done", "raised"}
  /\ w.pc = "idle" => w = NewRun
  /\ w.pc = "planning" => w.kind \in {"plan", "build"} /\ w.total = 0 /\ w.piped = 0
  /\ w.pc \in Looping => Builds(w)
  /\ w.pc \in Reviewing => w.kind = "review"
  /\ w.pc \notin {"fanout", "raised"} \/ w.kind # "review" => w.flying = {}
  /\ w.saved # None => w.kind = "shim" /\ ~Over(w)

\* What a capped build has spent: less than its cap when a step or a review
\* begins, in the pipeline under way and in the rounds before it.
Spent(w) ==
  Builds(w) =>
    /\ ~Over(w) => ~w.ok
    /\ w.pc \in {"testing", "reviewing", "done", "raised"} => w.piped = 0
    /\ w.cap > 0 /\ w.pc \in Looping => w.total < w.cap /\ w.piped < w.cap
    /\ HasDearest /\ w.cap > 0 =>
         /\ Over(w) => w.total <= 2 * (w.cap - 1) + Dearest
         /\ w.ok => w.total <= w.cap - 1 + Dearest

Good(w) == Amounts(w) /\ Phases(w) /\ Spent(w)

\* Amid the loop, between two awaits
Going(w) ==
  /\ Amounts(w) /\ Builds(w) /\ w.flying = {} /\ ~w.ok
  /\ w.saved # None => w.kind = "shim"
  /\ HasDearest /\ w.cap > 0 => w.total + w.piped <= 2 * (w.cap - 1) + Dearest

BelowCap(w) == w.cap > 0 => w.total < w.cap

\* v is what has become of w: in the loop, or over.
Leads(w, v) == /\ Good(v)
               /\ v.pc \in Looping \cup {"done", "raised"}
               /\ v.kind = w.kind
               /\ v.saved = IF Over(v) THEN None ELSE w.saved

-----------------------------------------------------------------------------
(***************************************************************************)
(* The code between two awaits.                                            *)
(***************************************************************************)
\* The dearest turn is one of the turns, and none is dearer.
LEMMA DearestIs ==
  ASSUME HasDearest
  PROVE  Dearest \in Nat /\ \A c \in Costs : c <= Dearest
BY WorkflowAssumption DEF HasDearest, Dearest

\* The fields of an execution that has not begun.
LEMMA NewRunIs ==
  /\ DOMAIN NewRun = Fields /\ NewRun.pc = "idle" /\ NewRun.kind = "none"
  /\ NewRun.cap = 0 /\ NewRun.piped = 0 /\ NewRun.total = 0
  /\ NewRun.flying = {} /\ NewRun.saved = None /\ ~NewRun.ok
BY DEF NewRun, Fields

\* The fields that are left when the coroutine is gone.
LEMMA GoneIs ==
  ASSUME NEW w, NEW how, NEW success \in BOOLEAN
  PROVE  LET v == Gone(w, how, success) IN
         /\ DOMAIN v = Fields /\ v.pc = how /\ v.kind = w.kind /\ v.cap = w.cap
         /\ v.total = w.total /\ v.piped = 0 /\ v.flying = w.flying /\ v.saved = None
         /\ v.ok = success
<1>1. {"pc", "kind", "cap", "total", "flying", "ok", "said", "piped", "saved"} \subseteq Fields
  BY DEF Fields
<1>. QED BY <1>1, NewRunIs DEF Gone

\* A run that ends is done.
LEMMA EndIsDone ==
  ASSUME NEW w, NEW success \in BOOLEAN
  PROVE  End(w, success).pc = "done"
<1>. DEFINE v == Gone(w, "done", success)
<1>1. DOMAIN v = Fields /\ v.pc = "done" /\ v.ok = success
  BY GoneIs
<1>. QED BY <1>1 DEF End

\* The fields of one that an exception went through.
LEMMA RaiseIs ==
  ASSUME NEW w
  PROVE  LET v == Raise(w) IN
         /\ DOMAIN v = Fields /\ v.pc = "raised" /\ v.kind = w.kind /\ v.cap = w.cap
         /\ v.total = w.total /\ v.piped = 0 /\ v.flying = w.flying /\ v.saved = None
         /\ v.ok = FALSE
BY GoneIs DEF Raise

\* The fields of an execution whose pipeline has been collected.
LEMMA CollectedIs ==
  ASSUME NEW w, Amounts(w)
  PROVE  LET v == Collected(w) IN
         /\ Amounts(v) /\ v.total = w.total + w.piped /\ v.piped = 0
         /\ v.pc = w.pc /\ v.kind = w.kind /\ v.cap = w.cap /\ v.flying = w.flying
         /\ v.saved = w.saved /\ v.ok = w.ok
BY DEF Collected, Amounts, Fields

\* A build that fails has spent what it had.
LEMMA FailsLeads ==
  ASSUME NEW w, Going(w)
  PROVE  Leads(w, Fails(w))
<1>. DEFINE c == Collected(w)
            v == Fails(w)
<1>1. /\ Amounts(c) /\ c.total = w.total + w.piped /\ c.kind = w.kind /\ c.cap = w.cap
      /\ c.flying = w.flying
  BY CollectedIs DEF Going
<1>2. /\ DOMAIN v = Fields /\ v.pc = "done" /\ v.kind = c.kind /\ v.cap = c.cap
      /\ v.total = c.total /\ v.piped = 0 /\ v.flying = c.flying /\ v.saved = None
      /\ v.ok = FALSE
  BY GoneIs DEF Fails, End
<1>. HIDE DEF c, v
<1>3. Amounts(v)
  BY <1>1, <1>2 DEF Amounts, Going
<1>4. Phases(v)
  BY <1>1, <1>2 DEF Phases, Going, Over, Looping, Reviewing
<1>5. Spent(v)
  BY <1>1, <1>2 DEF Spent, Going, Builds, Over, Looping
<1>. QED BY <1>1, <1>2, <1>3, <1>4, <1>5 DEF Leads, Good, Over, v

\* So has one that finds no planner.
LEMMA EndLeads ==
  ASSUME NEW w, Going(w)
  PROVE  Leads(w, End(w, FALSE))
<1>. DEFINE v == End(w, FALSE)
<1>1. /\ DOMAIN v = Fields /\ v.pc = "done" /\ v.kind = w.kind /\ v.cap = w.cap
      /\ v.total = w.total /\ v.piped = 0 /\ v.flying = w.flying /\ v.saved = None
      /\ v.ok = FALSE
  BY GoneIs DEF End
<1>. HIDE DEF v
<1>2. Amounts(v)
  BY <1>1 DEF Amounts, Going
<1>3. Phases(v)
  BY <1>1 DEF Phases, Going, Over, Looping, Reviewing
<1>4. Spent(v)
  BY <1>1, DearestIs DEF Spent, Going, Builds, Amounts, Over, Looping
<1>. QED BY <1>1, <1>2, <1>3, <1>4 DEF Leads, Good, Over, v

\* An execution that waits again has kept the rest.
LEMMA WaitsLeads ==
  ASSUME NEW w, Going(w), BelowCap(w), NEW v, NEW at \in Looping,
         DOMAIN v = Fields, v.pc = at, v.kind = w.kind, v.cap = w.cap, v.total = w.total,
         v.piped = w.piped, v.flying = w.flying, v.saved = w.saved, v.ok = w.ok,
         at = "step" /\ w.cap > 0 => w.piped < w.cap,
         at # "step" => w.piped = 0
  PROVE  Leads(w, v)
<1>1. Amounts(v)
  BY DEF Amounts, Going
<1>2. Phases(v)
  BY DEF Phases, Going, Builds, Over, Looping, Reviewing
<1>3. Spent(v)
  BY DEF Spent, Going, Builds, BelowCap, Over, Looping, Amounts
<1>. QED BY <1>1, <1>2, <1>3 DEF Leads, Good, Over, Looping

\* The review begins, or its reviewer has left.
LEMMA BeginReviewLeads ==
  ASSUME NEW w, Going(w), BelowCap(w), w.piped = 0
  PROVE  Leads(w, BeginReview(w))
<1>1. CASE w.reviewer \in Registered
  <2>. DEFINE v == [w EXCEPT !.pc = "reviewing"]
  <2>1. /\ DOMAIN v = Fields /\ v.pc = "reviewing" /\ v.kind = w.kind /\ v.cap = w.cap
        /\ v.total = w.total /\ v.piped = w.piped /\ v.flying = w.flying
        /\ v.saved = w.saved /\ v.ok = w.ok
    BY DEF Going, Amounts, Fields
  <2>2. BeginReview(w) = v
    BY <1>1 DEF BeginReview
  <2>. HIDE DEF v
  <2>3. "reviewing" \in Looping
    BY DEF Looping
  <2>. QED BY <2>1, <2>2, <2>3, WaitsLeads
<1>2. CASE w.reviewer \notin Registered
  BY <1>2, FailsLeads DEF BeginReview
<1>. QED BY <1>1, <1>2

\* The pipeline is collected; past the cap the build fails.
LEMMA PipelineLeads ==
  ASSUME NEW w, Going(w)
  PROVE  Leads(w, PipelineSucceeds(w))
<1>. DEFINE c == Collected(w)
<1>1. /\ Amounts(c) /\ c.total = w.total + w.piped /\ c.piped = 0 /\ c.kind = w.kind
      /\ c.cap = w.cap /\ c.flying = w.flying /\ c.saved = w.saved /\ c.ok = w.ok
  BY CollectedIs DEF Going
<1>2. PipelineSucceeds(w) = IF IsOverBudget(w, c.total) THEN Fails(c)
                            ELSE IF HasTests THEN [c EXCEPT !.pc = "testing"]
                            ELSE BeginReview(c)
  BY DEF PipelineSucceeds
<1>. HIDE DEF c
<1>3. Going(c)
  BY <1>1 DEF Going, Builds, Amounts
<1>4. ASSUME NEW v, Leads(c, v)
      PROVE  Leads(w, v)
  BY <1>1, <1>4 DEF Leads
<1>5. CASE IsOverBudget(w, c.total)
  BY <1>2, <1>3, <1>4, <1>5, FailsLeads
<1>6. CASE ~IsOverBudget(w, c.total)
  <2>1. BelowCap(c)
    BY <1>1, <1>6 DEF IsOverBudget, BelowCap, Amounts
  <2>2. CASE HasTests
    <3>. DEFINE v == [c EXCEPT !.pc = "testing"]
    <3>1. /\ DOMAIN v = Fields /\ v.pc = "testing" /\ v.kind = c.kind /\ v.cap = c.cap
          /\ v.total = c.total /\ v.piped = c.piped /\ v.flying = c.flying
          /\ v.saved = c.saved /\ v.ok = c.ok
      BY <1>1 DEF Amounts, Fields
    <3>. HIDE DEF v
    <3>2. "testing" \in Looping
      BY DEF Looping
    <3>3. Leads(c, v)
      BY <1>1, <1>3, <2>1, <3>1, <3>2, WaitsLeads
    <3>. QED BY <1>2, <1>4, <1>6, <2>2, <3>3 DEF v
  <2>3. CASE ~HasTests
    BY <1>1, <1>2, <1>3, <1>4, <1>6, <2>1, <2>3, BeginReviewLeads
  <2>. QED BY <2>2, <2>3
<1>. QED BY <1>5, <1>6

\* The next step begins, if the pipeline is below the cap.
LEMMA BeginStepLeads ==
  ASSUME NEW w, Going(w), BelowCap(w), NEW i
  PROVE  Leads(w, BeginStep(w, i))
<1>1. CASE i > Len(w.steps)
  BY <1>1, PipelineLeads DEF BeginStep
<1>2. CASE ~(i > Len(w.steps)) /\ (IsOverBudget(w, w.piped) \/ w.steps[i] \notin Registered)
  BY <1>2, FailsLeads DEF BeginStep
<1>3. CASE ~(i > Len(w.steps)) /\ ~(IsOverBudget(w, w.piped) \/ w.steps[i] \notin Registered)
  <2>. DEFINE v == [w EXCEPT !.pc = "step", !.at = i]
  <2>1. /\ DOMAIN v = Fields /\ v.pc = "step" /\ v.kind = w.kind /\ v.cap = w.cap
        /\ v.total = w.total /\ v.piped = w.piped /\ v.flying = w.flying
        /\ v.saved = w.saved /\ v.ok = w.ok
    BY DEF Going, Amounts, Fields
  <2>2. BeginStep(w, i) = v
    BY <1>3 DEF BeginStep
  <2>. HIDE DEF v
  <2>3. "step" \in Looping
    BY DEF Looping
  <2>4. w.cap > 0 => w.piped < w.cap
    BY <1>3 DEF IsOverBudget, Going, Amounts
  <2>. QED BY <2>1, <2>2, <2>3, <2>4, WaitsLeads
<1>. QED BY <1>1, <1>2, <1>3

\* A round begins, if what was spent is below the cap.
LEMMA BeginRoundLeads ==
  ASSUME NEW w, Going(w), w.piped = 0, NEW n
  PROVE  Leads(w, BeginRound(w, n))
<1>1. CASE n > MaxIterations \/ IsOverBudget(w, w.total)
  BY <1>1, FailsLeads DEF BeginRound
<1>2. CASE ~(n > MaxIterations \/ IsOverBudget(w, w.total))
  <2>. DEFINE v == [w EXCEPT !.iter = n]
  <2>1. /\ DOMAIN v = Fields /\ v.kind = w.kind /\ v.cap = w.cap
        /\ v.total = w.total /\ v.piped = w.piped /\ v.flying = w.flying
        /\ v.saved = w.saved /\ v.ok = w.ok
    BY DEF Going, Amounts, Fields
  <2>2. BeginRound(w, n) = BeginStep(v, 1)
    BY <1>2 DEF BeginRound
  <2>. HIDE DEF v
  <2>3. Going(v) /\ BelowCap(v)
    BY <1>2, <2>1 DEF Going, Builds, Amounts, BelowCap, IsOverBudget
  <2>4. Leads(v, BeginRound(w, n))
    BY <2>2, <2>3, BeginStepLeads
  <2>. QED BY <2>1, <2>4 DEF Leads
<1>. QED BY <1>1, <1>2

\* An execution in the loop is one of those above, with what has been spent.
LEMMA LoopingGoes ==
  ASSUME NEW w, Good(w), w.pc \in Looping
  PROVE  Going(w) /\ BelowCap(w)
<1>1. ~Over(w) /\ w.pc \notin {"fanout", "raised"}
  BY DEF Over, Looping
<1>2. Amounts(w) /\ Builds(w) /\ w.flying = {} /\ ~w.ok /\ (w.saved # None => w.kind = "shim")
      /\ BelowCap(w) /\ (w.cap > 0 => w.piped < w.cap)
  BY <1>1 DEF Good, Phases, Spent, BelowCap
<1>3. HasDearest /\ w.cap > 0 => w.total + w.piped <= 2 * (w.cap - 1) + Dearest
  BY <1>2, DearestIs DEF Amounts, BelowCap
<1>. QED BY <1>2, <1>3 DEF Going

\* The answer to a step.
LEMMA AfterStepLeads ==
  ASSUME NEW w, Good(w), w.pc = "step", NEW cost \in Costs, NEW error \in BOOLEAN
  PROVE  Leads(w, AfterStep(w, cost, error))
<1>. DEFINE v == [w EXCEPT !.piped = w.piped + cost]
<1>1. Going(w) /\ BelowCap(w) /\ (w.cap > 0 => w.piped < w.cap)
  BY LoopingGoes DEF Looping, Good, Phases, Spent
<1>2. cost \in Nat /\ (HasDearest => cost <= Dearest /\ Dearest \in Nat)
  BY DearestIs, WorkflowAssumption
<1>3. /\ DOMAIN v = Fields /\ v.kind = w.kind /\ v.cap = w.cap
      /\ v.total = w.total /\ v.piped = w.piped + cost /\ v.flying = w.flying
      /\ v.saved = w.saved /\ v.ok = w.ok
  BY <1>1 DEF Going, Amounts, Fields
<1>4. AfterStep(w, cost, error) = IF error THEN Fails(v) ELSE BeginStep(v, w.at + 1)
  BY DEF AfterStep
<1>. HIDE DEF v
<1>5. Going(v) /\ BelowCap(v)
  <2>1. Amounts(v) /\ BelowCap(v)
    BY <1>1, <1>2, <1>3 DEF Going, Amounts, BelowCap
  <2>2. HasDearest /\ v.cap > 0 => v.total + v.piped <= 2 * (v.cap - 1) + Dearest
    BY <1>1, <1>2, <1>3 DEF Going, Amounts, BelowCap
  <2>. QED BY <1>1, <1>3, <2>1, <2>2 DEF Going, Builds
<1>6. Leads(v, AfterStep(w, cost, error))
  <2>1. CASE error
    BY <1>4, <1>5, <2>1, FailsLeads
  <2>2. CASE ~error
    BY <1>4, <1>5, <2>2, BeginStepLeads
  <2>. QED BY <2>1, <2>2
<1>. QED BY <1>3, <1>6 DEF Leads

\* The answer of the reviewer: a build that succeeds was below its cap before
\* the review.
LEMMA AfterReviewLeads ==
  ASSUME NEW w, Good(w), w.pc = "reviewing", NEW cost \in Costs, NEW error \in BOOLEAN,
         NEW verdict, NEW found \in BOOLEAN
  PROVE  Leads(w, AfterReview(w, cost, error, verdict, found))
<1>. DEFINE v == [w EXCEPT !.total = w.total + cost, !.said = verdict]
<1>1. Going(w) /\ BelowCap(w) /\ w.piped = 0
  BY LoopingGoes DEF Looping, Good, Phases, Spent
<1>2. cost \in Nat /\ (HasDearest => cost <= Dearest /\ Dearest \in Nat)
  BY DearestIs, WorkflowAssumption
<1>3. /\ DOMAIN v = Fields /\ v.kind = w.kind /\ v.cap = w.cap
      /\ v.total = w.total + cost /\ v.piped = 0 /\ v.flying = w.flying
      /\ v.saved = w.saved /\ v.ok = w.ok
  BY <1>1 DEF Going, Amounts, Fields
<1>4. AfterReview(w, cost, error, verdict, found)
        = IF error THEN Fails(v) ELSE IF found THEN End(v, TRUE) ELSE BeginRound(v, w.iter + 1)
  BY DEF AfterReview
<1>. HIDE DEF v
<1>5. Going(v)
  <2>1. Amounts(v)
    BY <1>1, <1>2, <1>3 DEF Going, Amounts
  <2>2. HasDearest /\ v.cap > 0 => v.total + v.piped <= 2 * (v.cap - 1) + Dearest
    BY <1>1, <1>2, <1>3 DEF Going, Amounts, BelowCap
  <2>. QED BY <1>1, <1>3, <2>1, <2>2 DEF Going, Builds
<1>6. CASE error
  BY <1>3, <1>4, <1>5, <1>6, FailsLeads DEF Leads
<1>7. CASE ~error /\ ~found
  BY <1>3, <1>4, <1>5, <1>7, BeginRoundLeads DEF Leads
<1>8. CASE ~error /\ found
  <2>. DEFINE e == End(v, TRUE)
  <2>1. /\ DOMAIN e = Fields /\ e.pc = "done" /\ e.kind = v.kind /\ e.cap = v.cap
        /\ e.total = v.total /\ e.piped = 0 /\ e.flying = v.flying /\ e.saved = None
        /\ e.ok = TRUE
    BY GoneIs DEF End
  <2>. HIDE DEF e
  <2>2. Amounts(e) /\ Phases(e)
    BY <1>3, <1>5, <2>1 DEF Going, Amounts, Phases, Over, Looping, Reviewing
  <2>3. HasDearest /\ e.cap > 0 => /\ e.total <= e.cap - 1 + Dearest
                                  /\ e.total <= 2 * (e.cap - 1) + Dearest
    BY <1>1, <1>2, <1>3, <2>1 DEF Going, Amounts, BelowCap
  <2>4. Spent(e)
    BY <2>1, <2>3 DEF Spent, Over, Looping
  <2>. QED BY <1>3, <1>4, <1>8, <2>1, <2>2, <2>4 DEF Leads, Good, Over, e
<1>. QED BY <1>6, <1>7, <1>8

\* A build begins: its roles are filled, or it is over.
LEMMA BeginBuildLeads ==
  ASSUME NEW w, Going(w), w.piped = 0, NEW names, NEW reviewer
  PROVE  Leads(w, BeginBuild(w, names, reviewer))
<1>. DEFINE x == ResolveExecutors(names)
            v == [w EXCEPT !.steps = x, !.reviewer = ResolveReviewer(x, reviewer)]
<1>1. /\ DOMAIN v = Fields /\ v.kind = w.kind /\ v.cap = w.cap
      /\ v.total = w.total /\ v.piped = w.piped /\ v.flying = w.flying
      /\ v.saved = w.saved /\ v.ok = w.ok
  <2>. HIDE DEF x
  <2>. QED BY DEF Going, Amounts, Fields
<1>2. BeginBuild(w, names, reviewer)
        = IF ResolvePlanner = None THEN End(w, FALSE) ELSE BeginRound(v, 1)
  BY DEF BeginBuild
<1>. HIDE DEF v
<1>3. Going(v)
  BY <1>1 DEF Going, Builds, Amounts
<1>4. CASE ResolvePlanner = None
  BY <1>2, <1>4, EndLeads
<1>5. CASE ResolvePlanner # None
  BY <1>1, <1>2, <1>3, <1>5, BeginRoundLeads DEF Leads
<1>. QED BY <1>4, <1>5

-----------------------------------------------------------------------------
(***************************************************************************)
(* The runs.                                                               *)
(***************************************************************************)
Recorded ==
  /\ DOMAIN wf = Runs /\ \A r \in Runs : Good(wf[r])
  /\ DOMAIN taskRow = Runs

\* A plan file that plan() wrote has its task, and its run is over.
Planned ==
  /\ planFile \subseteq Runs
  /\ \A r \in planFile :
       /\ wf[r].kind # "none"
       /\ wf[r].kind = "plan" =>
            Over(wf[r]) /\ (RequireApproval => taskRow[r] = "pending_approval")

IInv == Recorded /\ Planned

\* What a step that begins no build workflow makes of the execution w of a
\* run: one that began keeps its kind, stays over, and then has no reviewer to give back.
Becomes(w, v) ==
  /\ Good(v) /\ v.kind # "none"
  /\ w.kind = "none" => v.kind # "shim"
  /\ w.kind # "none" => v.kind = w.kind
  /\ Over(w) => Over(v)
  /\ v.saved = IF Over(v) THEN None ELSE w.saved

\* The execution of a run goes on or begins.
Moves(r) == \E v : Becomes(wf[r], v) /\ Advance(r, v)

\* In the loop, what Leads says is enough.
LEMMA LeadsBecomes ==
  ASSUME NEW w, NEW v, Leads(w, v), Builds(w), w.pc \notin {"done", "raised"}
  PROVE  Becomes(w, v)
BY DEF Leads, Becomes, Builds, BuildKinds, Over

\* An execution whose coroutine is gone, with no turn of a panel left.
LEMMA EndsWell ==
  ASSUME NEW w, Amounts(w), w.kind # "none", w.flying = {}, NEW how \in {"done", "raised"},
         NEW success \in BOOLEAN,
         Builds(w) => /\ success = FALSE
                      /\ HasDearest /\ w.cap > 0 => w.total <= 2 * (w.cap - 1) + Dearest
  PROVE  LET v == Gone(w, how, success) IN
         Good(v) /\ v.kind = w.kind /\ Over(v) /\ v.saved = None
<1>. DEFINE v == Gone(w, how, success)
<1>1. /\ DOMAIN v = Fields /\ v.pc = how /\ v.kind = w.kind /\ v.cap = w.cap
      /\ v.total = w.total /\ v.piped = 0 /\ v.flying = {} /\ v.saved = None
      /\ v.ok = success
  BY GoneIs
<1>. HIDE DEF v
<1>2. Amounts(v)
  BY <1>1 DEF Amounts
<1>3. Phases(v)
  BY <1>1 DEF Phases, Over, Looping, Reviewing
<1>4. Spent(v)
  BY <1>1 DEF Spent, Builds, Over, Looping
<1>5. Good(v) /\ v.kind = w.kind /\ Over(v) /\ v.saved = None
  BY <1>1, <1>2, <1>3, <1>4 DEF Good, Over
<1>. QED BY <1>5 DEF v

\* The fields of a request.
LEMMA RequestedIs ==
  ASSUME Recorded, NEW r \in Runs, wf[r].pc = "idle", NEW kind, NEW cap \in Caps
  PROVE  LET w == Requested(r, kind, cap) IN
         /\ wf[r] = NewRun
         /\ Amounts(w) /\ w.pc = "idle" /\ w.kind = kind /\ w.cap = cap /\ w.total = 0
         /\ w.piped = 0 /\ w.flying = {} /\ w.saved = None /\ ~w.ok
<1>1. wf[r] = NewRun
  BY DEF Recorded, Good, Phases
<1>2. cap \in Nat
  BY WorkflowAssumption
<1>. QED BY <1>1, <1>2, NewRunIs DEF Requested, Amounts, Fields

\* A build that is requested is one that can go on.
LEMMA RequestedGoes ==
  ASSUME NEW w, Amounts(w), Builds(w), w.total = 0, w.piped = 0, w.flying = {}, ~w.ok,
         w.saved # None => w.kind = "shim"
  PROVE  Going(w)
BY DearestIs DEF Going, Amounts

\* What an execution that has just begun becomes.
LEMMA FromNew ==
  ASSUME NEW w, NEW v, w = NewRun, Good(v), v.kind \notin {"none", "shim"}, v.saved = None
  PROVE  Becomes(w, v)
BY NewRunIs DEF Becomes, Over

\* The planner is asked.
LEMMA StartPlannerMoves ==
  ASSUME Recorded, NEW r \in Runs, StartPlanner(r)
  PROVE  Moves(r)
<1>1. PICK kind \in {"plan", "build"}, cap \in Caps :
        LET w == Requested(r, kind, cap) IN
        Advance(r, IF ResolvePlanner = None THEN End(w, FALSE)
                   ELSE [w EXCEPT !.pc = "planning", !.steps = <<ResolvePlanner>>])
  BY DEF StartPlanner
<1>. DEFINE w == Requested(r, kind, cap)
            p == [w EXCEPT !.pc = "planning", !.steps = <<ResolvePlanner>>]
<1>2. /\ wf[r] = NewRun
      /\ Amounts(w) /\ w.pc = "idle" /\ w.kind = kind /\ w.cap = cap /\ w.total = 0
      /\ w.piped = 0 /\ w.flying = {} /\ w.saved = None /\ ~w.ok
  BY RequestedIs DEF StartPlanner
<1>3. Advance(r, IF ResolvePlanner = None THEN End(w, FALSE) ELSE p)
  BY <1>1
<1>. HIDE DEF w
<1>4. Becomes(wf[r], End(w, FALSE))
  <2>1. HasDearest /\ w.cap > 0 => w.total <= 2 * (w.cap - 1) + Dearest
    BY <1>2, DearestIs DEF Amounts
  <2>2. LET v == Gone(w, "done", FALSE) IN
        Good(v) /\ v.kind = w.kind /\ Over(v) /\ v.saved = None
    BY <1>2, <2>1, EndsWell
  <2>. QED BY <1>2, <2>2, FromNew DEF End
<1>5. Becomes(wf[r], p)
  <2>1. /\ DOMAIN p = Fields /\ p.pc = "planning" /\ p.kind = kind /\ p.cap = cap
        /\ p.total = 0 /\ p.piped = 0 /\ p.flying = {} /\ p.saved = None /\ ~p.ok
    BY <1>2 DEF Amounts, Fields
  <2>. HIDE DEF p
  <2>2. Amounts(p) /\ Phases(p)
    BY <1>2, <2>1 DEF Amounts, Phases, Over, Looping, Reviewing
  <2>3. Spent(p)
    BY <2>1 DEF Spent, Over, Looping
  <2>. QED BY <1>2, <2>1, <2>2, <2>3, FromNew DEF Good
<1>. QED BY <1>3, <1>4, <1>5 DEF Moves

\* A build is asked for, with a plan or without.
LEMMA StartBuildMoves ==
  ASSUME Recorded, NEW r \in Runs, StartBuild(r)
  PROVE  Moves(r)
<1>1. ASSUME NEW kind \in {"skip", "given"}, NEW cap \in Caps
      PROVE  LET w == Requested(r, kind, cap) IN
             /\ Becomes(wf[r], BeginBuild(w, ExecutorNames, reviewerAgent))
             /\ Becomes(wf[r], End(w, FALSE))
  <2>. DEFINE w == Requested(r, kind, cap)
  <2>1. /\ wf[r] = NewRun
        /\ Amounts(w) /\ w.pc = "idle" /\ w.kind = kind /\ w.cap = cap /\ w.total = 0
        /\ w.piped = 0 /\ w.flying = {} /\ w.saved = None /\ ~w.ok
    BY RequestedIs DEF StartBuild
  <2>. HIDE DEF w
  <2>2. Going(w)
    BY <2>1, RequestedGoes DEF Builds, BuildKinds
  <2>3. ASSUME NEW v, Leads(w, v)
        PROVE  Becomes(wf[r], v)
    BY <2>1, <2>3, FromNew DEF Leads
  <2>4. Becomes(wf[r], BeginBuild(w, ExecutorNames, reviewerAgent))
    BY <2>1, <2>2, <2>3, BeginBuildLeads
  <2>5. Becomes(wf[r], End(w, FALSE))
    BY <2>2, <2>3, EndLeads
  <2>. QED BY <2>4, <2>5 DEF w
<1>2. PICK cap \in Caps :
        \/ Advance(r, BeginBuild(Requested(r, "skip", cap), ExecutorNames, reviewerAgent))
        \/ \E p \in Runs \ {r} :
             LET w == Requested(r, "given", cap) IN
             Advance(r, IF p \in planFile THEN BeginBuild(w, ExecutorNames, reviewerAgent)
                        ELSE End(w, FALSE))
  BY DEF StartBuild
<1>3. CASE Advance(r, BeginBuild(Requested(r, "skip", cap), ExecutorNames, reviewerAgent))
  BY <1>1, <1>3 DEF Moves
<1>4. ASSUME NEW p \in Runs \ {r},
             Advance(r, IF p \in planFile
                        THEN BeginBuild(Requested(r, "given", cap), ExecutorNames, reviewerAgent)
                        ELSE End(Requested(r, "given", cap), FALSE))
      PROVE  Moves(r)
  BY <1>1, <1>4 DEF Moves
<1>. QED BY <1>2, <1>3, <1>4

\* A planner fails, or its answer is the end of the run.
LEMMA PlannerEnds ==
  ASSUME Recorded, NEW r \in Runs, wf[r].pc = "planning", NEW cost \in Costs,
         NEW success \in BOOLEAN, wf[r].kind = "plan" \/ success = FALSE
  PROVE  Becomes(wf[r], End([wf[r] EXCEPT !.total = cost], success))
<1>. DEFINE w == [wf[r] EXCEPT !.total = cost]
<1>1. Amounts(wf[r]) /\ Phases(wf[r])
  BY DEF Recorded, Good
<1>2. wf[r].kind \in {"plan", "build"} /\ wf[r].flying = {} /\ wf[r].saved = None
  BY <1>1 DEF Phases
<1>3. cost \in Nat /\ (HasDearest => cost <= Dearest /\ Dearest \in Nat)
  BY DearestIs, WorkflowAssumption
<1>4. /\ DOMAIN w = Fields /\ w.total = cost /\ w.kind = wf[r].kind /\ w.cap = wf[r].cap
      /\ w.flying = {} /\ w.piped = wf[r].piped
  BY <1>1, <1>2 DEF Amounts, Fields
<1>. HIDE DEF w
<1>5. Amounts(w) /\ (HasDearest /\ w.cap > 0 => w.total <= 2 * (w.cap - 1) + Dearest)
  BY <1>1, <1>3, <1>4 DEF Amounts
<1>6. Builds(w) => success = FALSE
  BY <1>4 DEF Builds, BuildKinds
<1>7. LET v == Gone(w, "done", success) IN
      Good(v) /\ v.kind = w.kind /\ Over(v) /\ v.saved = None
  BY <1>2, <1>4, <1>5, <1>6, EndsWell
<1>8. Becomes(wf[r], End(w, success))
  BY <1>2, <1>4, <1>7 DEF End, Becomes
<1>. QED BY <1>8 DEF w

\* A step of an execution that keeps what it had.
LEMMA SameRun ==
  ASSUME NEW w, NEW v, Good(v), v.kind = w.kind, w.kind # "none", v.saved = w.saved,
         ~Over(w), ~Over(v)
  PROVE  Becomes(w, v)
BY DEF Becomes

\* A turn raises, and the exception goes through the run.
LEMMA RaiseMoves ==
  ASSUME Recorded, NEW r \in Runs, TurnRaises(r)
  PROVE  Moves(r)
<1>. DEFINE w == wf[r]
<1>1. Amounts(w) /\ Phases(w) /\ Spent(w)
  BY DEF Recorded, Good
<1>2. CASE w.pc \in {"planning", "step", "reviewing"} /\ Advance(r, Raise(w))
  <2>1. w.flying = {} /\ w.kind # "none" /\ ~Over(w)
    BY <1>1, <1>2 DEF Phases, Looping, Builds, BuildKinds, Over
  <2>2. Builds(w) /\ HasDearest /\ w.cap > 0 => w.total <= 2 * (w.cap - 1) + Dearest
    BY <1>1, <1>2, DearestIs DEF Amounts, Phases, Spent, Looping
  <2>3. LET v == Gone(w, "raised", FALSE) IN
        Good(v) /\ v.kind = w.kind /\ Over(v) /\ v.saved = None
    BY <1>1, <2>1, <2>2, EndsWell
  <2>. QED BY <1>2, <2>1, <2>3 DEF Raise, Becomes, Moves
<1>3. ASSUME NEW i \in w.flying, Advance(r, Raise([w EXCEPT !.flying = w.flying \ {i}]))
      PROVE  Moves(r)
  <2>. DEFINE u == [w EXCEPT !.flying = w.flying \ {i}]
              v == Raise(u)
  <2>1. w.kind = "review" /\ w.saved = None
    BY <1>1, <1>3 DEF Phases
  <2>2. u.kind = w.kind /\ u.total = w.total /\ u.cap = w.cap
    BY <1>1 DEF Amounts, Fields
  <2>4. Advance(r, v)
    BY <1>3
  <2>. HIDE DEF u
  <2>3. /\ DOMAIN v = Fields /\ v.pc = "raised" /\ v.kind = "review" /\ v.cap = w.cap
        /\ v.total = w.total /\ v.piped = 0 /\ v.saved = None
    BY <2>1, <2>2, RaiseIs
  <2>. HIDE DEF v
  <2>5. Good(v)
    <3>1. Amounts(v) /\ Phases(v)
      BY <1>1, <2>3 DEF Amounts, Phases, Over, Looping, Reviewing
    <3>. QED BY <2>3, <3>1 DEF Good, Spent, Builds, BuildKinds
  <2>6. Becomes(w, v)
    BY <2>1, <2>3, <2>5 DEF Becomes, Over
  <2>. QED BY <2>4, <2>6 DEF Moves
<1>. QED BY <1>2, <1>3 DEF TurnRaises

\* The inline plan of a build is there, or cannot be written.
LEMMA AutoPlanMoves ==
  ASSUME Recorded, NEW r \in Runs, AutoPlanAnswers(r)
  PROVE  Moves(r) /\ (planFile' = planFile \/ planFile' = planFile \cup {r})
<1>. DEFINE w == wf[r]
<1>1. Good(w) /\ w.pc = "planning" /\ w.kind = "build"
  BY DEF Recorded, AutoPlanAnswers
<1>2. /\ Amounts(w) /\ Builds(w) /\ w.total = 0 /\ w.piped = 0 /\ w.flying = {} /\ ~w.ok
      /\ w.saved = None
  BY <1>1 DEF Good, Phases, Spent, Builds, BuildKinds, Over
<1>3. Becomes(w, BeginBuild(w, ExecutorNames, reviewerAgent))
  BY <1>1, <1>2, RequestedGoes, BeginBuildLeads, LeadsBecomes
<1>4. Becomes(w, Raise(w))
  <2>1. HasDearest /\ w.cap > 0 => w.total <= 2 * (w.cap - 1) + Dearest
    BY <1>2, DearestIs DEF Amounts
  <2>2. LET v == Gone(w, "raised", FALSE) IN
        Good(v) /\ v.kind = w.kind /\ Over(v) /\ v.saved = None
    BY <1>1, <1>2, <2>1, EndsWell
  <2>. QED BY <1>1, <1>2, <2>2 DEF Raise, Becomes, Over
<1>. QED BY <1>3, <1>4 DEF AutoPlanAnswers, Moves

\* The loop goes on.
LEMMA LoopMoves ==
  ASSUME Recorded, NEW r \in Runs, StepAnswers(r) \/ TestsEnd(r) \/ ReviewAnswers(r)
  PROVE  Moves(r)
<1>. DEFINE w == wf[r]
<1>1. Good(w) /\ w.pc \in Looping
  BY DEF Recorded, StepAnswers, TestsEnd, ReviewAnswers, Looping
<1>2. ASSUME NEW v, Leads(w, v)
      PROVE  Becomes(w, v)
  BY <1>1, <1>2, LeadsBecomes DEF Good, Phases, Looping
<1>3. Going(w) /\ BelowCap(w)
  BY <1>1, LoopingGoes
<1>4. CASE StepAnswers(r)
  <2>1. ASSUME NEW cost \in Costs, NEW error \in BOOLEAN, Advance(r, AfterStep(w, cost, error))
        PROVE  Moves(r)
    <3>1. Leads(w, AfterStep(w, cost, error))
      BY <1>1, <1>4, AfterStepLeads DEF StepAnswers
    <3>. QED BY <1>2, <2>1, <3>1 DEF Moves
  <2>2. CASE Advance(r, AfterStepTimeout(w))
    BY <1>2, <1>3, <2>2, FailsLeads DEF AfterStepTimeout, Moves
  <2>. QED BY <1>4, <2>1, <2>2 DEF StepAnswers
<1>5. CASE TestsEnd(r)
  <2>1. w.piped = 0
    BY <1>1, <1>5 DEF TestsEnd, Good, Phases, Spent
  <2>2. Becomes(w, BeginReview(w))
    BY <1>2, <1>3, <2>1, BeginReviewLeads
  <2>. QED BY <1>5, <2>2 DEF TestsEnd, Moves
<1>6. CASE ReviewAnswers(r)
  <2>1. PICK cost \in Costs, error \in BOOLEAN, verdict \in {"PASS", "FAIL"},
             found \in BOOLEAN : Advance(r, AfterReview(w, cost, error, verdict, found))
    BY <1>6 DEF ReviewAnswers
  <2>2. Leads(w, AfterReview(w, cost, error, verdict, found))
    BY <1>1, <1>6, AfterReviewLeads DEF ReviewAnswers
  <2>. QED BY <1>2, <2>1, <2>2 DEF Moves
<1>. QED BY <1>4, <1>5, <1>6

\* A review and its panel.
LEMMA ReviewMoves ==
  ASSUME Recorded, NEW r \in Runs,
         StartReview(r) \/ DiffEnds(r) \/ GatherStarts(r) \/ PanelistAnswers(r)
  PROVE  Moves(r)
<1>. DEFINE w == wf[r]
<1>1. Amounts(w) /\ Phases(w)
  BY DEF Recorded, Good
<1>2. ASSUME NEW v, Amounts(v), Phases(v), v.kind = "review"
      PROVE  Good(v)
  BY <1>2 DEF Good, Spent, Builds, BuildKinds
<1>3. CASE StartReview(r)
  <2>1. PICK cap \in Caps : Advance(r, [Requested(r, "review", cap) EXCEPT !.pc = "diffing"])
    BY <1>3 DEF StartReview
  <2>. DEFINE u == Requested(r, "review", cap)
              v == [u EXCEPT !.pc = "diffing"]
  <2>2. /\ w = NewRun /\ Amounts(u) /\ u.kind = "review" /\ u.flying = {} /\ u.saved = None
    BY <1>3, RequestedIs DEF StartReview
  <2>3. Advance(r, v)
    BY <2>1
  <2>. HIDE DEF u
  <2>4. /\ Amounts(v) /\ v.pc = "diffing" /\ v.kind = "review" /\ v.flying = {}
        /\ v.saved = None
    BY <2>2 DEF Amounts, Fields
  <2>. HIDE DEF v
  <2>5. Phases(v)
    BY <2>4 DEF Phases, Over, Looping, Reviewing
  <2>. QED BY <1>2, <2>2, <2>3, <2>4, <2>5, FromNew DEF Moves
<1>4. ASSUME w.kind = "review", w.flying = {}, ~Over(w), w.saved = None
      PROVE  Becomes(w, End(w, FALSE))
  <2>1. LET v == Gone(w, "done", FALSE) IN
        Good(v) /\ v.kind = w.kind /\ Over(v) /\ v.saved = None
    BY <1>1, <1>4, EndsWell DEF Builds, BuildKinds
  <2>. QED BY <1>4, <2>1 DEF End, Becomes
<1>5. CASE DiffEnds(r)
  <2>. DEFINE v == [w EXCEPT !.pc = "gather", !.steps = AssignReviewAgents]
  <2>1. w.kind = "review" /\ w.flying = {} /\ ~Over(w) /\ w.saved = None
    BY <1>1, <1>5 DEF DiffEnds, Phases, Reviewing, Over
  <2>2. /\ Amounts(v) /\ v.pc = "gather" /\ v.kind = "review" /\ v.flying = {}
        /\ v.saved = None
    BY <1>1, <2>1 DEF Amounts, Fields
  <2>3. Advance(r, End(w, FALSE)) \/ Advance(r, v)
    BY <1>5 DEF DiffEnds
  <2>. HIDE DEF v
  <2>4. Phases(v) /\ ~Over(v)
    BY <2>2 DEF Phases, Over, Looping, Reviewing
  <2>. QED BY <1>2, <1>4, <2>1, <2>2, <2>3, <2>4, SameRun DEF Moves
<1>6. CASE GatherStarts(r)
  <2>. DEFINE flying == {i \in 1..Len(w.steps) : w.steps[i] \in Registered}
              u == [w EXCEPT !.flying = flying, !.ok = (flying = 1..Len(w.steps))]
              v == [u EXCEPT !.pc = "fanout"]
  <2>1. w.kind = "review" /\ w.flying = {} /\ ~Over(w) /\ w.saved = None
    BY <1>1, <1>6 DEF GatherStarts, Phases, Reviewing, Over
  <2>2. Advance(r, IF flying = {} THEN End(u, FALSE) ELSE v)
    BY <1>6 DEF GatherStarts, BeginFanOut
  <2>. HIDE DEF flying
  <2>3. /\ Amounts(u) /\ u.kind = "review" /\ u.flying = flying /\ u.saved = None
    BY <1>1, <2>1 DEF Amounts, Fields
  <2>. HIDE DEF u
  <2>4. CASE flying = {}
    <3>1. LET e == Gone(u, "done", FALSE) IN
          Good(e) /\ e.kind = u.kind /\ Over(e) /\ e.saved = None
      BY <2>3, <2>4, EndsWell DEF Builds, BuildKinds
    <3>2. Becomes(w, End(u, FALSE))
      BY <2>1, <2>3, <3>1 DEF End, Becomes
    <3>. QED BY <2>2, <2>4, <3>2 DEF Moves
  <2>5. CASE flying # {}
    <3>1. /\ Amounts(v) /\ v.pc = "fanout" /\ v.kind = "review" /\ v.saved = None
      BY <2>3 DEF Amounts, Fields
    <3>. HIDE DEF v
    <3>2. Phases(v) /\ ~Over(v)
      BY <3>1 DEF Phases, Over, Looping, Reviewing
    <3>. QED BY <1>2, <2>1, <2>2, <2>5, <3>1, <3>2, SameRun DEF Moves
  <2>. QED BY <2>4, <2>5
<1>7. CASE PanelistAnswers(r)
  <2>1. PICK i \in w.flying, cost \in Costs, error \in BOOLEAN :
          Advance(r, AfterParallelStep(w, i, cost, error))
    BY <1>7 DEF PanelistAnswers
  <2>. DEFINE u == [w EXCEPT !.flying = w.flying \ {i}, !.total = w.total + cost,
                             !.ok = w.ok /\ ~error]
  <2>2. w.kind = "review" /\ w.pc \in {"fanout", "raised"} /\ w.saved = None
    BY <1>1, <2>1 DEF Phases
  <2>3. cost \in Nat
    BY WorkflowAssumption
  <2>4. /\ Amounts(u) /\ u.pc = w.pc /\ u.kind = "review" /\ u.saved = None
        /\ u.ok = (w.ok /\ ~error)
    BY <1>1, <2>2, <2>3 DEF Amounts, Fields
  <2>5. Advance(r, IF u.flying = {} /\ w.pc = "fanout" THEN End(u, u.ok) ELSE u)
    BY <2>1 DEF AfterParallelStep
  <2>. HIDE DEF u
  <2>6. CASE u.flying = {} /\ w.pc = "fanout"
    <3>1. u.ok \in BOOLEAN
      BY <2>4
    <3>2. LET e == Gone(u, "done", u.ok) IN
          Good(e) /\ e.kind = u.kind /\ Over(e) /\ e.saved = None
      BY <2>4, <2>6, <3>1, EndsWell DEF Builds, BuildKinds
    <3>3. Becomes(w, End(u, u.ok))
      BY <2>2, <2>4, <3>2 DEF End, Becomes
    <3>. QED BY <2>5, <2>6, <3>3 DEF Moves
  <2>7. CASE ~(u.flying = {} /\ w.pc = "fanout")
    <3>1. Phases(u)
      BY <2>2, <2>4 DEF Phases, Over, Looping, Reviewing
    <3>2. Becomes(w, u)
      BY <1>2, <2>2, <2>4, <3>1 DEF Becomes, Over
    <3>. QED BY <2>5, <2>7, <3>2 DEF Moves
  <2>. QED BY <2>6, <2>7
<1>. QED BY <1>3, <1>5, <1>6, <1>7

-----------------------------------------------------------------------------
(***************************************************************************)
(* The steps.                                                              *)
(***************************************************************************)
\* Initially every part holds.
LEMMA InitIInv == Init => IInv
<1>. SUFFICES ASSUME Init PROVE IInv
  OBVIOUS
<1>1. ASSUME NEW r \in Runs
      PROVE  wf[r] = NewRun /\ Good(wf[r])
  BY NewRunIs
  DEF Init, Good, Amounts, Phases, Spent, Builds, BuildKinds, Over, Looping, Reviewing
<1>2. Recorded
  BY <1>1 DEF Init, Recorded
<1>3. Planned
  BY DEF Init, Planned
<1>. QED BY <1>2, <1>3 DEF IInv

\* The execution of one run moves: the records stay good.
LEMMA MovesKeeps ==
  ASSUME Recorded, NEW r \in Runs, Moves(r), DOMAIN taskRow' = Runs
  PROVE  /\ Recorded'
         /\ \A q \in Runs : /\ q # r => wf'[q] = wf[q]
                            /\ wf'[q].kind # "none" \/ wf'[q] = wf[q]
                            /\ wf[q].kind # "none" => wf'[q].kind = wf[q].kind
                            /\ Over(wf[q]) => Over(wf'[q])
<1>1. PICK v : Becomes(wf[r], v) /\ Advance(r, v)
  BY DEF Moves
<1>2. /\ DOMAIN wf' = Runs /\ wf'[r] = v /\ \A q \in Runs : q # r => wf'[q] = wf[q]
      /\ reviewerAgent' = IF Over(v) /\ wf[r].saved # None THEN wf[r].saved
                          ELSE reviewerAgent
  BY <1>1 DEF Advance, Recorded
<1>3. /\ \A q \in Runs : Good(wf'[q])
      /\ \A q \in Runs : /\ wf'[q].kind # "none" \/ wf'[q] = wf[q]
                         /\ wf[q].kind # "none" => wf'[q].kind = wf[q].kind
                         /\ Over(wf[q]) => Over(wf'[q])
  BY <1>1, <1>2 DEF Becomes, Recorded
<1>4. Recorded'
  BY <1>2, <1>3 DEF Recorded
<1>. QED BY <1>2, <1>3, <1>4

\* A build workflow begins.
LEMMA StartShimKeeps ==
  ASSUME Recorded, NEW r \in Runs, StartShim(r)
  PROVE  /\ Recorded'
         /\ \A q \in Runs : q # r => wf'[q] = wf[q]
         /\ wf[r] = NewRun /\ wf'[r].kind = "shim"
<1>. DEFINE max == BuildReviewer \in Registered
            saved == IF max THEN reviewerAgent ELSE None
            name == IF max THEN BuildReviewer ELSE reviewerAgent
<1>1. PICK cap \in Caps :
        LET v == [Requested(r, "shim", cap) EXCEPT !.saved = saved]
            w == IF Historical = <<>> THEN End(v, FALSE) ELSE BeginBuild(v, Historical, name)
        IN  /\ wf' = [wf EXCEPT ![r] = w]
            /\ reviewerAgent' = IF max /\ ~Over(w) THEN BuildReviewer ELSE reviewerAgent
  BY DEF StartShim
<1>. DEFINE u == Requested(r, "shim", cap)
            v == [u EXCEPT !.saved = saved]
            w == IF Historical = <<>> THEN End(v, FALSE) ELSE BeginBuild(v, Historical, name)
<1>2. /\ wf[r] = NewRun
      /\ Amounts(u) /\ u.kind = "shim" /\ u.total = 0 /\ u.piped = 0 /\ u.flying = {} /\ ~u.ok
  BY RequestedIs DEF StartShim
<1>3. /\ wf' = [wf EXCEPT ![r] = w]
      /\ reviewerAgent' = IF max /\ ~Over(w) THEN BuildReviewer ELSE reviewerAgent
  BY <1>1
<1>. HIDE DEF u, saved
<1>4. /\ Amounts(v) /\ v.kind = "shim" /\ v.total = 0 /\ v.piped = 0 /\ v.flying = {} /\ ~v.ok
      /\ v.saved = saved
  BY <1>2 DEF Amounts, Fields
<1>. HIDE DEF v, name
<1>5. Going(v)
  BY <1>4, RequestedGoes DEF Builds, BuildKinds
<1>6. Leads(v, w)
  <2>1. CASE Historical = <<>>
    BY <1>5, <2>1, EndLeads
  <2>2. CASE Historical # <<>>
    BY <1>4, <1>5, <2>2, BeginBuildLeads
  <2>. QED BY <2>1, <2>2
<1>. HIDE DEF w
<1>7. Good(w) /\ w.kind = "shim" /\ w.saved = IF Over(w) THEN None ELSE saved
  BY <1>4, <1>6 DEF Leads
<1>8. wf'[r] = w /\ DOMAIN wf' = Runs /\ \A q \in Runs : q # r => wf'[q] = wf[q]
  BY <1>3 DEF Recorded
<1>9. Recorded'
  BY <1>7, <1>8 DEF Recorded, StartShim
<1>. QED BY <1>2, <1>7, <1>8, <1>9

\* The answer of a planner: the task comes before the file.
LEMMA PlannerAnswersKeeps ==
  ASSUME IInv, NEW r \in Runs, PlannerAnswers(r)
  PROVE  IInv'
<1>1. PICK cost \in Costs, written \in BOOLEAN,
           row \in IF RequireApproval THEN SubmitPlan(r) ELSE {"none"} :
        /\ taskRow' = [taskRow EXCEPT ![r] = row]
        /\ planFile' = IF written /\ row \in {"none", "pending_approval"}
                       THEN planFile \union {r} ELSE planFile
        /\ Advance(r, End([wf[r] EXCEPT !.total = cost], r \in planFile'))
  BY DEF PlannerAnswers
<1>2. Becomes(wf[r], End([wf[r] EXCEPT !.total = cost], r \in planFile'))
  <2>1. (r \in planFile') \in BOOLEAN
    OBVIOUS
  <2>. QED BY <2>1, PlannerEnds DEF IInv, PlannerAnswers
<1>3. DOMAIN taskRow' = Runs /\ Moves(r)
  BY <1>1, <1>2 DEF Moves, IInv, Recorded
<1>4. /\ Recorded'
      /\ \A q \in Runs : /\ q # r => wf'[q] = wf[q]
                         /\ wf[q].kind # "none" => wf'[q].kind = wf[q].kind
                         /\ Over(wf[q]) => Over(wf'[q])
  BY <1>3, MovesKeeps DEF IInv
<1>5. wf[r].kind = "plan" /\ ~Over(wf[r])
  BY DEF PlannerAnswers, Over
<1>6. Planned'
  <2>1. r \notin planFile
    BY <1>5 DEF IInv, Planned
  <2>2. planFile' \subseteq planFile \cup {r}
        /\ (r \in planFile' => row \in {"none", "pending_approval"})
    BY <1>1, <2>1
  <2>3. taskRow'[r] = row /\ \A q \in Runs : q # r => taskRow'[q] = taskRow[q]
    BY <1>1 DEF IInv, Recorded
  <2>4. RequireApproval => row \in {"pending_approval", "rejected", "error"}
    BY DEF SubmitPlan
  <2>5. wf'[r].kind = "plan" /\ Over(wf'[r])
    <3>. DEFINE x == [wf[r] EXCEPT !.total = cost]
    <3>1. (r \in planFile') \in BOOLEAN
      OBVIOUS
    <3>2. wf'[r] = End(x, r \in planFile')
      BY <1>1 DEF Advance, IInv, Recorded
    <3>. HIDE DEF x
    <3>3. wf'[r].pc = "done"
      BY <3>1, <3>2, EndIsDone
    <3>. QED BY <1>4, <1>5, <3>3 DEF Over
  <2>6. ASSUME NEW q \in planFile', q # r
        PROVE  /\ wf'[q].kind # "none"
               /\ wf'[q].kind = "plan" => Over(wf'[q])
                                        /\ (RequireApproval => taskRow'[q] = "pending_approval")
    <3>1. q \in planFile /\ q \in Runs
      BY <2>2, <2>6 DEF IInv, Planned
    <3>2. wf'[q] = wf[q] /\ taskRow'[q] = taskRow[q]
      BY <1>4, <2>3, <2>6, <3>1
    <3>. QED BY <3>1, <3>2 DEF IInv, Planned, Over
  <2>7. planFile' \subseteq Runs
    BY <2>2 DEF IInv, Planned
  <2>. QED BY <2>2, <2>3, <2>4, <2>5, <2>6, <2>7 DEF Planned
<1>. QED BY <1>4, <1>6 DEF IInv

\* The invariant is inductive.
LEMMA IInvNext ==
  ASSUME IInv, [Next]_vars
  PROVE  IInv'
<1>r. Recorded
  BY DEF IInv
<1>1. ASSUME NEW r \in Runs, Moves(r), taskRow' = taskRow,
             planFile' = planFile \/ (wf[r].kind = "build" /\ planFile' = planFile \cup {r})
      PROVE  IInv'
  <2>1. /\ Recorded'
        /\ \A q \in Runs : /\ wf'[q].kind # "none" \/ wf'[q] = wf[q]
                           /\ wf[q].kind # "none" => wf'[q].kind = wf[q].kind
                           /\ Over(wf[q]) => Over(wf'[q])
    BY <1>1, MovesKeeps DEF IInv, Recorded
  <2>2. Planned'
    BY <1>1, <2>1 DEF IInv, Planned
  <2>. QED BY <2>1, <2>2 DEF IInv
<1>2. ASSUME UNCHANGED <<wf, reviewerAgent, planFile, taskRow>>
      PROVE  IInv'
  BY <1>2 DEF IInv, Recorded, Planned, Over
<1>3. ASSUME NEW r \in Runs, StartPlanner(r) \/ StartBuild(r)
      PROVE  IInv'
  <2>1. planFile' = planFile /\ taskRow' = taskRow
    BY <1>3 DEF StartPlanner, StartBuild
  <2>. QED BY <1>1, <1>3, <1>r, <2>1, StartPlannerMoves, StartBuildMoves
<1>4. ASSUME NEW r \in Runs, StartShim(r)
      PROVE  IInv'
  <2>1. /\ Recorded'
        /\ \A q \in Runs : q # r => wf'[q] = wf[q]
        /\ wf'[r].kind = "shim"
    BY <1>4, StartShimKeeps DEF IInv
  <2>2. Planned'
    BY <1>4, <2>1 DEF IInv, Planned, StartShim, Over
  <2>. QED BY <2>1, <2>2 DEF IInv
<1>5. ASSUME NEW r \in Runs, PlannerFails(r)
      PROVE  IInv'
  <2>1. PICK cost \in Costs : Advance(r, End([wf[r] EXCEPT !.total = cost], FALSE))
    BY <1>5 DEF PlannerFails
  <2>2. Becomes(wf[r], End([wf[r] EXCEPT !.total = cost], FALSE))
    BY <1>5, PlannerEnds DEF PlannerFails, IInv
  <2>3. planFile' = planFile /\ taskRow' = taskRow
    BY <1>5 DEF PlannerFails
  <2>4. Moves(r)
    BY <2>1, <2>2 DEF Moves
  <2>. QED BY <1>1, <2>3, <2>4
<1>6. ASSUME NEW r \in Runs, PlannerAnswers(r)
      PROVE  IInv'
  BY <1>6, PlannerAnswersKeeps
<1>7. ASSUME NEW r \in Runs, AutoPlanAnswers(r)
      PROVE  IInv'
  <2>1. taskRow' = taskRow /\ wf[r].kind = "build"
    BY <1>7 DEF AutoPlanAnswers
  <2>. QED BY <1>1, <1>7, <2>1, <1>r, AutoPlanMoves
<1>8. ASSUME NEW r \in Runs, StepAnswers(r) \/ TestsEnd(r) \/ ReviewAnswers(r)
      PROVE  IInv'
  <2>1. planFile' = planFile /\ taskRow' = taskRow
    BY <1>8 DEF StepAnswers, TestsEnd, ReviewAnswers
  <2>. QED BY <1>1, <1>8, <2>1, <1>r, LoopMoves
<1>9. ASSUME NEW r \in Runs,
             StartReview(r) \/ DiffEnds(r) \/ GatherStarts(r) \/ PanelistAnswers(r)
      PROVE  IInv'
  <2>1. planFile' = planFile /\ taskRow' = taskRow
    BY <1>9 DEF StartReview, DiffEnds, GatherStarts, PanelistAnswers
  <2>. QED BY <1>1, <1>9, <2>1, <1>r, ReviewMoves
<1>10. ASSUME NEW r \in Runs, TurnRaises(r)
       PROVE  IInv'
  <2>1. planFile' = planFile /\ taskRow' = taskRow
    BY <1>10 DEF TurnRaises
  <2>. QED BY <1>1, <1>10, <2>1, <1>r, RaiseMoves
<1>11. ASSUME NEW a \in Churn, AgentLeaves(a) \/ AgentJoins(a)
       PROVE  IInv'
  BY <1>2, <1>11 DEF AgentLeaves, AgentJoins
<1>. QED
  BY <1>2, <1>3, <1>4, <1>5, <1>6, <1>7, <1>8, <1>9, <1>10, <1>11 DEF Next, RunStep, vars

\* It holds in every reachable state.
LEMMA Invariance == Spec => []IInv
<1>. QED BY InitIInv, IInvNext, PTL DEF Spec

-----------------------------------------------------------------------------
(***************************************************************************)
(* The results.                                                            *)
(***************************************************************************)
\* What a capped build can cost at most (agents/workflow.py:425), for every
\* number of executors and rounds: less than twice the cap, and the turn that
\* passes it.
THEOREM BuildsCost ==
  ASSUME HasDearest
  PROVE  Spec => []CostBounded
<1>1. IInv => CostBounded
  <2>. SUFFICES ASSUME IInv, NEW r \in Runs, wf[r].kind \in BuildKinds, wf[r].cap > 0
                PROVE  wf[r].total + wf[r].piped <= 2 * (wf[r].cap - 1) + Dearest
    BY DEF CostBounded
  <2>1. Amounts(wf[r]) /\ Phases(wf[r]) /\ Spent(wf[r])
    BY DEF IInv, Recorded, Good
  <2>2. wf[r].pc \in {"planning"} \cup Looping \cup {"done", "raised"}
    BY <2>1, NewRunIs DEF Phases, Reviewing, BuildKinds
  <2>. QED BY <2>1, <2>2, DearestIs DEF Amounts, Phases, Spent, Builds, Over, Looping
<1>. QED BY <1>1, Invariance, PTL

\* A build that succeeds has kept its cap but for the turn that passed it
\* (the check before the review, agents/workflow.py:437).
THEOREM SuccessesCost ==
  ASSUME HasDearest
  PROVE  Spec => []SuccessWithinCap
<1>1. IInv => SuccessWithinCap
  BY DEF IInv, Recorded, Good, Spent, Builds, SuccessWithinCap
<1>. QED BY <1>1, Invariance, PTL

\* A review that returned has no turn of its panel still running
\* (agents/workflow.py:392).
THEOREM PanelsAreDone == Spec => []NoStrayTurns
<1>1. IInv => NoStrayTurns
  BY DEF IInv, Recorded, Good, Phases, NoStrayTurns
<1>. QED BY <1>1, Invariance, PTL

\* No plan file of plan() is left without the task that asks for its approval
\* (factory/factory.py:281).
THEOREM PlansAreTasks == Spec => []PlanHasTask
<1>1. IInv => PlanHasTask
  BY DEF IInv, Planned, PlanHasTask
<1>. QED BY <1>1, Invariance, PTL
=============================================================================
