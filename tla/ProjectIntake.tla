--------------------------- MODULE ProjectIntake ---------------------------
(***************************************************************************)
(* From a sales opportunity to a project.  The opportunity is checked for  *)
(* feasibility, edited, moved along its pipeline, closed or rejected, and  *)
(* activated: then its demand becomes the reservation of a project.        *)
(*                                                                         *)
(* Every handler reads the opportunity, decides, and writes in a later     *)
(* statement that looks at nothing but the status.  Only the activation    *)
(* takes a lock, the tenant's, and decides what it read under it.  The     *)
(* projects of all opportunities fall into one period, and their demand is *)
(* for one position; requests refused for lack of a right or of a linked   *)
(* record are left out.                                                    *)
(***************************************************************************)
EXTENDS Integers, FiniteSetsExt

CONSTANTS
    Opportunities,
    Demands,           \* hours an opportunity may ask for
    Capacity,          \* hours of the position in the period
    Pipelines,
    Stages,
    PipelineOf,        \* the pipeline a stage belongs to
    Rules,             \* <<stage, stage>>: moves a pipeline with rules allows
    FeasibleRules,     \* those of them that require a passed feasibility check
    Handlers,          \* requests handled at a time
    Activations,       \* requests to activate handled at a time
    None

ASSUME IntakeAssumption ==
    /\ Demands \subseteq Nat
    /\ Capacity \in Nat
    /\ PipelineOf \in [Stages -> Pipelines]
    /\ FeasibleRules \subseteq Rules
    /\ None \notin Opportunities

VARIABLES
    opp,         \* opportunities
    project,     \* projects by source_opportunity_id
    handler,     \* what a handler has read and is about to write
    activation,  \* activateProjectFromOpportunity, per request
    exempt,      \* (not in the code) projects active at an accepted risk, or taken up again
    activated    \* (not in the code) opportunities whose activation has committed

vars == <<opp, project, handler, activation, exempt, activated>>

Open == {"new", "feasibility", "ready_to_activate"}

Final == {"won_closed", "lost_rejected"}

Feasibilities == {"unknown", "ok", "warning", "conflict", "blocked"}

Opps == [status: Open \cup Final, feasibility: Feasibilities, demand: Demands,
         stage: Stages, pipeline: Pipelines]

Projects == [status: {"absent", "active", "released"}, demand: Demands \cup {0}]

Kinds == {"idle", "check", "edit", "move"}

HandlerStates == [kind: Kinds, on: Opportunities \cup {None}, new: Opps \cup {None}]

Steps == {"idle", "locked", "assessed"}

ActivationStates == [step: Steps, on: Opportunities \cup {None}, demand: Demands \cup {0},
                     risk: BOOLEAN]

Idle == [kind |-> "idle", on |-> None, new |-> None]

Inactive == [step |-> "idle", on |-> None, demand |-> 0, risk |-> FALSE]

\* createOpportunity: the pipeline is that of the stage.
Init ==
    /\ opp \in [Opportunities -> {x \in Opps : /\ x.status = "new"
                                               /\ x.feasibility = "unknown"
                                               /\ x.pipeline = PipelineOf[x.stage]}]
    /\ project = [o \in Opportunities |-> [status |-> "absent", demand |-> 0]]
    /\ handler = [h \in Handlers |-> Idle]
    /\ activation = [a \in Activations |-> Inactive]
    /\ exempt = {}
    /\ activated = {}

IsOpen(o) == opp[o].status \in Open

-----------------------------------------------------------------------------
(* What a handler decides.                                                 *)

ActiveProjects == {o \in Opportunities : project[o].status = "active"}

Reserved(os) == MapThenSumSet(LAMBDA o : project[o].demand, os)

Free == IF Reserved(ActiveProjects) < Capacity THEN Capacity - Reserved(ActiveProjects) ELSE 0

\* assessOpportunityFeasibility; with hours of the contract left over it is a
\* warning, which an activation takes for ok and a stage's rule does not.
Assessment(demand) ==
    IF demand = 0 THEN "blocked" ELSE IF demand > Free THEN "conflict" ELSE "ok"

Results(found) == IF found = "ok" THEN {"ok", "warning"} ELSE {found}

HasRules(p) == \E r \in Rules : PipelineOf[r[1]] = p

Ruled(from, to) == HasRules(PipelineOf[from]) /\ from # to /\ PipelineOf[from] = PipelineOf[to]

\* evaluateStageTransition within a pipeline; the rules' probabilities, which may
\* refuse more, are left out.
MayMove(x, to) ==
    Ruled(x.stage, to) => /\ <<x.stage, to>> \in Rules
                          /\ <<x.stage, to>> \in FeasibleRules => x.feasibility = "ok"

-----------------------------------------------------------------------------
(* The handlers of an opportunity: first what they read and decide ...     *)

Begin(h, kind, o, new) ==
    /\ handler[h].kind = "idle"
    /\ IsOpen(o)
    /\ handler' = [handler EXCEPT ![h] = [kind |-> kind, on |-> o, new |-> new]]
    /\ UNCHANGED <<opp, project, activation, exempt, activated>>

\* checkOpportunityFeasibility
BeginCheck(h, o) ==
    LET found == Assessment(opp[o].demand) IN
    \E result \in Results(found) :
        Begin(h, "check", o,
              [opp[o] EXCEPT !.feasibility = result,
                             !.status = IF found = "ok" THEN "ready_to_activate" ELSE "feasibility"])

\* updateOpportunity: the card as a whole, with the status that was read; what was
\* found about the old demand is dropped.
BeginEdit_Unlinked(h, o) ==    \* mutated: the pipeline is not derived from the stage
    \E d \in Demands, to \in Stages :
        /\ PipelineOf[to] = opp[o].pipeline
        /\ MayMove(opp[o], to)
        /\ Begin(h, "edit", o, [status |-> opp[o].status, feasibility |-> "unknown", demand |-> d,
                                stage |-> to, pipeline |-> None])

BeginEdit(h, o) ==
    \E d \in Demands, to \in Stages :
        /\ PipelineOf[to] = opp[o].pipeline
        /\ MayMove(opp[o], to)
        /\ Begin(h, "edit", o, [status |-> opp[o].status, feasibility |-> "unknown", demand |-> d,
                                stage |-> to, pipeline |-> PipelineOf[to]])

\* changeOpportunityStage within the pipeline, changeOpportunityPipeline to another
BeginMove(h, o) ==
    \E to \in Stages \ {opp[o].stage} :
        /\ MayMove(opp[o], to)
        /\ Begin(h, "move", o, [opp[o] EXCEPT !.stage = to, !.pipeline = PipelineOf[to]])

\* ... then what they write: UPDATE ... WHERE status NOT IN (the final ones).
Written(h, x) ==
    LET new == handler[h].new IN
    CASE handler[h].kind = "check" -> [x EXCEPT !.status = new.status, !.feasibility = new.feasibility]
      [] handler[h].kind = "move"  -> [x EXCEPT !.stage = new.stage, !.pipeline = new.pipeline]
      [] OTHER -> new

Write_Any(h) ==    \* mutated: the update does not look at the status
    /\ handler[h].kind # "idle"
    /\ opp' = [opp EXCEPT ![handler[h].on] = Written(h, @)]
    /\ handler' = [handler EXCEPT ![h] = Idle]
    /\ UNCHANGED <<project, activation, exempt, activated>>

Write(h) ==
    /\ handler[h].kind # "idle"
    /\ opp' = IF IsOpen(handler[h].on)
              THEN [opp EXCEPT ![handler[h].on] = Written(h, @)]
              ELSE opp
    /\ handler' = [handler EXCEPT ![h] = Idle]
    /\ UNCHANGED <<project, activation, exempt, activated>>

\* finalizeOpportunity: its statement decides alone.
Finalize(o) ==
    /\ IsOpen(o)
    /\ \E status \in Final : opp' = [opp EXCEPT ![o].status = status]
    /\ UNCHANGED <<project, handler, activation, exempt, activated>>

-----------------------------------------------------------------------------
(* activateProjectFromOpportunity.                                         *)

\* lockTenantResourcePlanning, held to the end of the transaction
Locked == \E a \in Activations : activation[a].step # "idle"

BeginActivation_Unlocked(a, o) ==    \* mutated: without the tenant's lock
    /\ activation[a].step = "idle"
    /\ IsOpen(o)
    /\ opp[o].feasibility # "unknown"
    /\ activation' = [activation EXCEPT ![a] = [step |-> "locked", on |-> o, demand |-> opp[o].demand,
                                                risk |-> FALSE]]
    /\ UNCHANGED <<opp, project, handler, exempt, activated>>

BeginActivation(a, o) ==
    /\ ~ Locked
    /\ IsOpen(o)
    /\ opp[o].feasibility # "unknown"
    /\ activation' = [activation EXCEPT ![a] = [step |-> "locked", on |-> o, demand |-> opp[o].demand,
                                                risk |-> FALSE]]
    /\ UNCHANGED <<opp, project, handler, exempt, activated>>

\* The demand is assessed once more; a conflict needs a reason to accept it.
AssessAgain(a) ==
    LET found == Assessment(activation[a].demand) IN
    /\ activation[a].step = "locked"
    /\ activation' = [activation EXCEPT ![a] =
                         IF found = "blocked" THEN Inactive
                         ELSE [@ EXCEPT !.step = "assessed", !.risk = (found = "conflict")]]
    /\ UNCHANGED <<opp, project, handler, exempt, activated>>

\* createProjectDraftFromOpportunity, activateProjectDraft, COMMIT: the draft is
\* never seen, and the whole rolls back when the opportunity has become final.
CommitActivation_Blind(a) ==    \* mutated: an update that matched no row does not stop it
    LET o == activation[a].on IN
    /\ activation[a].step = "assessed"
    /\ opp' = IF IsOpen(o) THEN [opp EXCEPT ![o].status = "won_closed"] ELSE opp
    /\ project' = [project EXCEPT ![o] = [status |-> "active", demand |-> activation[a].demand]]
    /\ exempt' = IF activation[a].risk THEN exempt \cup {o} ELSE exempt
    /\ activated' = activated \cup {o}
    /\ activation' = [activation EXCEPT ![a] = Inactive]
    /\ UNCHANGED handler

CommitActivation(a) ==
    LET o == activation[a].on IN
    /\ activation[a].step = "assessed"
    /\ IsOpen(o)
    /\ opp' = [opp EXCEPT ![o].status = "won_closed"]
    /\ project' = [project EXCEPT ![o] = [status |-> "active", demand |-> activation[a].demand]]
    /\ exempt' = IF activation[a].risk THEN exempt \cup {o} ELSE exempt
    /\ activated' = activated \cup {o}
    /\ activation' = [activation EXCEPT ![a] = Inactive]
    /\ UNCHANGED handler

\* Refused, for want of a reason or because the opportunity is final, or failed.
RollBackActivation(a) ==
    /\ activation[a].step # "idle"
    /\ activation' = [activation EXCEPT ![a] = Inactive]
    /\ UNCHANGED <<opp, project, handler, exempt, activated>>

-----------------------------------------------------------------------------
(* What becomes of the project: paused, closed or cancelled it reserves    *)
(* nothing; resumed or reopened it does so again, and nobody assesses it.  *)

Release(o) ==
    /\ project[o].status = "active"
    /\ project' = [project EXCEPT ![o].status = "released"]
    /\ UNCHANGED <<opp, handler, activation, exempt, activated>>

TakeUp(o) ==
    /\ project[o].status = "released"
    /\ project' = [project EXCEPT ![o].status = "active"]
    /\ exempt' = exempt \cup {o}
    /\ UNCHANGED <<opp, handler, activation, activated>>

Next ==
    \/ \E h \in Handlers, o \in Opportunities : BeginCheck(h, o) \/ BeginEdit(h, o) \/ BeginMove(h, o)
    \/ \E h \in Handlers : Write(h)
    \/ \E a \in Activations, o \in Opportunities : BeginActivation(a, o)
    \/ \E a \in Activations : AssessAgain(a) \/ CommitActivation(a) \/ RollBackActivation(a)
    \/ \E o \in Opportunities : Finalize(o) \/ Release(o) \/ TakeUp(o)

Spec == Init /\ [][Next]_vars

-----------------------------------------------------------------------------
(* Properties.                                                             *)

\* Every variable has its type.
TypeOK ==
    /\ opp \in [Opportunities -> Opps]
    /\ project \in [Opportunities -> Projects]
    /\ handler \in [Handlers -> HandlerStates]
    /\ activation \in [Activations -> ActivationStates]
    /\ exempt \subseteq Opportunities
    /\ activated \subseteq Opportunities

\* A project stands for a won opportunity, and for each activation that committed
\* there is one: nobody closes or rejects an opportunity under its activation.
ProjectOfWon ==
    \A o \in Opportunities :
        /\ project[o].status # "absent" <=> o \in activated
        /\ o \in activated => opp[o].status = "won_closed"

\* An opportunity that is won or lost stays exactly as it was decided, whatever
\* handlers had read before the decision and write after it.
FinalIsFrozen ==
    [][\A o \in Opportunities : opp[o].status \in Final => opp'[o] = opp[o]]_opp

\* However activations interleave, those that nobody accepted a risk for fit into
\* the capacity together, until a project is taken up again.
NoSilentOverbooking == Reserved(ActiveProjects \ exempt) <= Capacity
=============================================================================
