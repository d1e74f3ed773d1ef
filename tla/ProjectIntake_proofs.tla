------------------------ MODULE ProjectIntake_proofs ------------------------
(***************************************************************************)
(* Proofs about ProjectIntake.  TypeOK is not inductive: what a handler    *)
(* writes has to be an opportunity, and what an activation commits has to  *)
(* be one it has read; Inv says so.  IBooking adds what the capacity needs:*)
(* that an assessment holds until it is committed.                         *)
(***************************************************************************)
EXTENDS ProjectIntake, FiniteSetTheorems, WellFoundedInduction, TLAPS

\* A handler under way has read an open opportunity and is about to write one.
HandlersReady ==
    \A h \in Handlers : handler[h].kind # "idle" =>
        /\ handler[h].on \in Opportunities
        /\ handler[h].new \in Opps
        /\ handler[h].new.status \in Open

\* An activation under way names an opportunity and a demand, and has the lock for itself.
ActivationsReady ==
    \A a \in Activations : activation[a].step # "idle" =>
        /\ activation[a].on \in Opportunities
        /\ activation[a].demand \in Demands

OneActivation ==
    \A a, b \in Activations :
        activation[a].step # "idle" /\ activation[b].step # "idle" => a = b

Inv ==
    /\ TypeOK
    /\ HandlersReady
    /\ ActivationsReady
    /\ ProjectOfWon
    /\ OneActivation

\* Assessing a demand gives one of the results an opportunity can store.
LEMMA AssessmentType ==
    ASSUME NEW d PROVE Results(Assessment(d)) \subseteq Feasibilities \ {"unknown"}
BY DEF Results, Assessment, Feasibilities

\* What a handler is about to write leaves the opportunity an open one.
LEMMA WrittenType ==
    ASSUME Inv, NEW h \in Handlers, handler[h].kind # "idle", NEW x \in Opps, x.status \in Open
    PROVE  Written(h, x) \in Opps /\ Written(h, x).status \in Open
<1>1. handler[h].new \in Opps /\ handler[h].new.status \in Open
    BY DEF Inv, HandlersReady
<1>2. CASE handler[h].kind = "check"
    BY <1>1, <1>2 DEF Written, Opps
<1>3. CASE handler[h].kind = "move"
    BY <1>1, <1>3 DEF Written, Opps
<1>4. CASE handler[h].kind # "check" /\ handler[h].kind # "move"
    BY <1>1, <1>4 DEF Written
<1> QED
    BY <1>2, <1>3, <1>4

\* A handler that begins with an opportunity to write keeps the invariant.
LEMMA BeginKeepsInv ==
    ASSUME Inv, NEW h \in Handlers, NEW o \in Opportunities, NEW kind \in Kinds \ {"idle"},
           NEW new \in Opps, new.status \in Open, Begin(h, kind, o, new)
    PROVE  Inv'
<1>1. TypeOK'
    <2>1. handler' \in [Handlers -> HandlerStates]
        BY DEF Inv, TypeOK, Begin, HandlerStates, Kinds
    <2> QED
        BY <2>1 DEF Inv, TypeOK, Begin
<1>2. HandlersReady'
    <2> SUFFICES ASSUME NEW k \in Handlers, handler'[k].kind # "idle"
                 PROVE  /\ handler'[k].on \in Opportunities
                        /\ handler'[k].new \in Opps
                        /\ handler'[k].new.status \in Open
        BY DEF HandlersReady
    <2>1. CASE k = h
        BY <2>1 DEF Inv, TypeOK, Begin
    <2>2. CASE k # h
        BY <2>2 DEF Inv, TypeOK, Begin, HandlersReady
    <2> QED
        BY <2>1, <2>2
<1>3. ActivationsReady' /\ ProjectOfWon' /\ OneActivation'
    BY DEF Inv, Begin, ActivationsReady, ProjectOfWon, OneActivation
<1> QED
    BY <1>1, <1>2, <1>3 DEF Inv

\* Every step keeps the invariant.
LEMMA InvStep == ASSUME Inv, [Next]_vars PROVE Inv'
<1> USE DEF Inv
<1>1. ASSUME NEW h \in Handlers, NEW o \in Opportunities, BeginCheck(h, o)
      PROVE  Inv'
    <2> DEFINE found == Assessment(opp[o].demand)
    <2>0. PICK result \in Results(found) :
              Begin(h, "check", o, [opp[o] EXCEPT !.feasibility = result,
                           !.status = IF found = "ok" THEN "ready_to_activate" ELSE "feasibility"])
        BY <1>1 DEF BeginCheck
    <2> DEFINE new == [opp[o] EXCEPT !.feasibility = result,
                           !.status = IF found = "ok" THEN "ready_to_activate" ELSE "feasibility"]
    <2>1. result \in Feasibilities
        BY <2>0, AssessmentType
    <2>2. new \in Opps /\ new.status \in Open
        <3> HIDE DEF found
        <3> QED
            BY <2>1 DEF TypeOK, Opps, Open
    <2>3. Begin(h, "check", o, new)
        BY <2>0
    <2> HIDE DEF new
    <2> QED
        BY <2>2, <2>3, BeginKeepsInv DEF Kinds
<1>2. ASSUME NEW h \in Handlers, NEW o \in Opportunities, BeginEdit(h, o)
      PROVE  Inv'
    <2>1. PICK d \in Demands, to \in Stages :
              Begin(h, "edit", o, [status |-> opp[o].status, feasibility |-> "unknown", demand |-> d,
                                   stage |-> to, pipeline |-> PipelineOf[to]])
        BY <1>2 DEF BeginEdit
    <2> DEFINE new == [status |-> opp[o].status, feasibility |-> "unknown", demand |-> d,
                       stage |-> to, pipeline |-> PipelineOf[to]]
    <2>2. new \in Opps /\ new.status \in Open
        BY <2>1, IntakeAssumption DEF TypeOK, Opps, Feasibilities, Begin, IsOpen
    <2>3. Begin(h, "edit", o, new)
        BY <2>1
    <2> HIDE DEF new
    <2> QED
        BY <2>2, <2>3, BeginKeepsInv DEF Kinds
<1>3. ASSUME NEW h \in Handlers, NEW o \in Opportunities, BeginMove(h, o)
      PROVE  Inv'
    <2>1. PICK to \in Stages :
              Begin(h, "move", o, [opp[o] EXCEPT !.stage = to, !.pipeline = PipelineOf[to]])
        BY <1>3 DEF BeginMove
    <2> DEFINE new == [opp[o] EXCEPT !.stage = to, !.pipeline = PipelineOf[to]]
    <2>2. new \in Opps /\ new.status \in Open
        BY <2>1, IntakeAssumption DEF TypeOK, Opps, Begin, IsOpen
    <2>3. Begin(h, "move", o, new)
        BY <2>1
    <2> HIDE DEF new
    <2> QED
        BY <2>2, <2>3, BeginKeepsInv DEF Kinds
<1>4. ASSUME NEW h \in Handlers, Write(h)
      PROVE  Inv'
    <2> DEFINE o == handler[h].on
    <2>1. o \in Opportunities /\ handler[h].kind # "idle"
        BY <1>4 DEF Write, HandlersReady
    <2>2. opp[o] \in Opps
        BY <2>1 DEF TypeOK
    <2>3. CASE IsOpen(o)
        <3>1. Written(h, opp[o]) \in Opps /\ Written(h, opp[o]).status \in Open
            BY <2>1, <2>2, <2>3, WrittenType DEF IsOpen
        <3>2. opp' = [opp EXCEPT ![o] = Written(h, opp[o])]
            BY <1>4, <2>3 DEF Write
        <3>3. opp' \in [Opportunities -> Opps]
            BY <3>1, <3>2 DEF TypeOK
        <3>4. o \notin activated
            BY <2>1, <2>3 DEF ProjectOfWon, IsOpen, Open
        <3> QED
            BY <1>4, <3>2, <3>3, <3>4 DEF Write, TypeOK, HandlersReady, ActivationsReady,
               ProjectOfWon, OneActivation, HandlerStates, Idle, Kinds
    <2>4. CASE ~ IsOpen(o)
        BY <1>4, <2>4 DEF Write, TypeOK, HandlersReady, ActivationsReady, ProjectOfWon,
           OneActivation, HandlerStates, Idle, Kinds
    <2> QED
        BY <2>3, <2>4
<1>5. ASSUME NEW o \in Opportunities, Finalize(o)
      PROVE  Inv'
    <2>1. PICK status \in Final : opp' = [opp EXCEPT ![o].status = status]
        BY <1>5 DEF Finalize
    <2>2. opp' \in [Opportunities -> Opps]
        BY <2>1 DEF TypeOK, Opps
    <2>3. o \notin activated
        BY <1>5 DEF Finalize, ProjectOfWon, IsOpen, Open
    <2> QED
        BY <1>5, <2>1, <2>2, <2>3 DEF Finalize, TypeOK, HandlersReady, ActivationsReady,
           ProjectOfWon, OneActivation
<1>6. ASSUME NEW a \in Activations, NEW o \in Opportunities, BeginActivation(a, o)
      PROVE  Inv'
    <2> DEFINE new == [step |-> "locked", on |-> o, demand |-> opp[o].demand, risk |-> FALSE]
    <2>1. activation' = [activation EXCEPT ![a] = new]
        BY <1>6 DEF BeginActivation
    <2>2. new \in ActivationStates /\ new.on \in Opportunities /\ new.demand \in Demands
        BY DEF TypeOK, Opps, ActivationStates, Steps
    <2>3. \A b \in Activations : activation[b].step = "idle"
        BY <1>6 DEF BeginActivation, Locked
    <2>4. \A b \in Activations : activation'[b] = IF b = a THEN new ELSE activation[b]
        BY <2>1 DEF TypeOK
    <2>5. activation' \in [Activations -> ActivationStates]
        BY <2>1, <2>2 DEF TypeOK
    <2> HIDE DEF new
    <2>6. ActivationsReady' /\ OneActivation'
        BY <2>2, <2>3, <2>4 DEF ActivationsReady, OneActivation
    <2> QED
        BY <1>6, <2>5, <2>6 DEF BeginActivation, TypeOK, HandlersReady, ProjectOfWon
<1>7. ASSUME NEW a \in Activations, AssessAgain(a)
      PROVE  Inv'
    <2> DEFINE found == Assessment(activation[a].demand)
               new == IF found = "blocked" THEN Inactive
                      ELSE [activation[a] EXCEPT !.step = "assessed", !.risk = (found = "conflict")]
    <2>1. activation' = [activation EXCEPT ![a] = new]
        BY <1>7 DEF AssessAgain
    <2>2. activation[a] \in ActivationStates /\ activation[a].step # "idle"
        BY <1>7 DEF TypeOK, AssessAgain
    <2> HIDE DEF found
    <2>3. /\ new \in ActivationStates
          /\ new.step # "idle" => new.on = activation[a].on /\ new.demand = activation[a].demand
        BY <2>2 DEF ActivationStates, Inactive, Steps
    <2>4. \A b \in Activations : activation'[b] = IF b = a THEN new ELSE activation[b]
        BY <2>1 DEF TypeOK
    <2>5. activation' \in [Activations -> ActivationStates]
        BY <2>1, <2>3 DEF TypeOK
    <2> HIDE DEF new
    <2>6. ActivationsReady' /\ OneActivation'
        BY <2>2, <2>3, <2>4 DEF ActivationsReady, OneActivation
    <2> QED
        BY <1>7, <2>5, <2>6 DEF AssessAgain, TypeOK, HandlersReady, ProjectOfWon
<1>8. ASSUME NEW a \in Activations, CommitActivation(a)
      PROVE  Inv'
    <2> DEFINE o == activation[a].on
    <2>1. o \in Opportunities /\ activation[a].demand \in Demands
        BY <1>8 DEF CommitActivation, ActivationsReady
    <2>2. /\ opp' = [opp EXCEPT ![o].status = "won_closed"]
          /\ project' = [project EXCEPT ![o] = [status |-> "active", demand |-> activation[a].demand]]
          /\ exempt' \in {exempt, exempt \cup {o}}
          /\ activated' = activated \cup {o}
          /\ activation' = [activation EXCEPT ![a] = Inactive]
          /\ UNCHANGED handler
        BY <1>8 DEF CommitActivation
    <2>3. opp' \in [Opportunities -> Opps] /\ project' \in [Opportunities -> Projects]
        BY <2>1, <2>2 DEF TypeOK, Opps, Final, Projects
    <2>4. activation' \in [Activations -> ActivationStates]
        BY <2>2 DEF TypeOK, ActivationStates, Inactive, Steps
    <2>5. TypeOK'
        BY <2>1, <2>2, <2>3, <2>4 DEF TypeOK
    <2>6. ProjectOfWon'
        BY <2>1, <2>2 DEF TypeOK, ProjectOfWon
    <2>7. HandlersReady' /\ ActivationsReady' /\ OneActivation'
        BY <2>2 DEF TypeOK, HandlersReady, ActivationsReady, OneActivation, Inactive
    <2> QED
        BY <2>5, <2>6, <2>7
<1>9. ASSUME NEW a \in Activations, RollBackActivation(a)
      PROVE  Inv'
    BY <1>9 DEF RollBackActivation, TypeOK, HandlersReady, ActivationsReady, ProjectOfWon,
       OneActivation, ActivationStates, Inactive, Steps
<1>10. ASSUME NEW o \in Opportunities, Release(o) \/ TakeUp(o)
       PROVE  Inv'
    <2>1. /\ project' \in [Opportunities -> Projects]
          /\ \A p \in Opportunities : project'[p].status = "absent" <=> project[p].status = "absent"
        BY <1>10 DEF Release, TakeUp, TypeOK, Projects
    <2>2. exempt' \subseteq Opportunities /\ UNCHANGED <<opp, handler, activation, activated>>
        BY <1>10 DEF Release, TakeUp, TypeOK
    <2> QED
        BY <2>1, <2>2 DEF TypeOK, HandlersReady, ActivationsReady, ProjectOfWon, OneActivation
<1>11. CASE UNCHANGED vars
    BY <1>11 DEF vars, TypeOK, HandlersReady, ActivationsReady, ProjectOfWon, OneActivation
<1> QED
    BY <1>1, <1>2, <1>3, <1>4, <1>5, <1>6, <1>7, <1>8, <1>9, <1>10, <1>11 DEF Next

LEMMA InvInit == ASSUME Init PROVE Inv
<1>1. TypeOK
    BY DEF Init, TypeOK, Projects, HandlerStates, Idle, Kinds, ActivationStates, Inactive, Steps
<1> QED
    BY <1>1 DEF Init, Inv, HandlersReady, ActivationsReady, ProjectOfWon, OneActivation, Idle,
       Inactive

LEMMA InvAlways == Spec => []Inv
BY InvInit, InvStep, PTL DEF Spec

\* Every variable keeps its type.
THEOREM TypeCorrect == Spec => []TypeOK
BY InvAlways, PTL DEF Inv

\* A project stands for an opportunity won by its activation, however the final
\* action, the other handlers and further activations interleave with it.
THEOREM ProjectsAreWon == Spec => []ProjectOfWon
BY InvAlways, PTL DEF Inv

\* The tenant's lock: what one activation has assessed no other one changes.
THEOREM ActivationsExclude == Spec => []OneActivation
BY InvAlways, PTL DEF Inv

\* A step leaves an opportunity that is won or lost as it is.
LEMMA FrozenStep ==
    ASSUME Inv, [Next]_vars
    PROVE  [\A o \in Opportunities : opp[o].status \in Final => opp'[o] = opp[o]]_opp
<1>0. Open \cap Final = {}
    BY DEF Open, Final
<1>1. ASSUME NEW o \in Opportunities, IsOpen(o), opp' = [opp EXCEPT ![o] = opp'[o]]
      PROVE  \A p \in Opportunities : opp[p].status \in Final => opp'[p] = opp[p]
    <2>1. opp[o].status \notin Final
        BY <1>0, <1>1 DEF IsOpen
    <2> QED
        BY <1>1, <2>1 DEF Inv, TypeOK
<1>2. ASSUME NEW h \in Handlers, Write(h)
      PROVE  [\A o \in Opportunities : opp[o].status \in Final => opp'[o] = opp[o]]_opp
    <2> DEFINE o == handler[h].on
    <2>1. CASE IsOpen(o)
        <3>1. o \in Opportunities
            BY <1>2 DEF Write, Inv, HandlersReady
        <3>2. opp' = [opp EXCEPT ![o] = Written(h, opp[o])]
            BY <1>2, <2>1 DEF Write
        <3>3. opp' = [opp EXCEPT ![o] = opp'[o]]
            BY <3>1, <3>2 DEF Inv, TypeOK
        <3> QED
            BY <1>1, <2>1, <3>1, <3>3
    <2>2. CASE ~ IsOpen(o)
        BY <1>2, <2>2 DEF Write
    <2> QED
        BY <2>1, <2>2
<1>3. ASSUME NEW o \in Opportunities, Finalize(o)
      PROVE  [\A p \in Opportunities : opp[p].status \in Final => opp'[p] = opp[p]]_opp
    <2>1. opp' = [opp EXCEPT ![o] = opp'[o]] /\ IsOpen(o)
        BY <1>3 DEF Finalize, Inv, TypeOK
    <2> QED
        BY <1>1, <2>1
<1>4. ASSUME NEW a \in Activations, CommitActivation(a)
      PROVE  [\A p \in Opportunities : opp[p].status \in Final => opp'[p] = opp[p]]_opp
    <2> DEFINE o == activation[a].on
    <2>1. o \in Opportunities /\ IsOpen(o)
        BY <1>4 DEF CommitActivation, Inv, ActivationsReady
    <2>2. opp' = [opp EXCEPT ![o] = opp'[o]]
        BY <1>4, <2>1 DEF CommitActivation, Inv, TypeOK
    <2> QED
        BY <1>1, <2>1, <2>2
<1> QED
    BY <1>2, <1>3, <1>4 DEF Next, vars, BeginCheck, BeginEdit, BeginMove, Begin,
       BeginActivation, AssessAgain, RollBackActivation, Release, TakeUp

\* Nothing is written to an opportunity that is won or lost.
THEOREM FinalStaysFrozen == Spec => FinalIsFrozen
BY FrozenStep, InvAlways, PTL DEF Spec, FinalIsFrozen

-----------------------------------------------------------------------------
(* Sums.  What a fold over a set of projects gives does not depend on the  *)
(* order in which the projects are chosen.                                 *)

\* Sets of subsets of a finite set have a member that loses its place with any element.
LEMMA SmallestSet ==
    ASSUME NEW U, IsFiniteSet(U), NEW Sets \in SUBSET SUBSET U, Sets # {}
    PROVE  \E T \in Sets : \A x \in T : T \ {x} \notin Sets
<1> DEFINE R == StrictSubsetOrdering(U)
<1>1. IsWellFoundedOn(R, SUBSET U)
    BY FS_StrictSubsetOrderingWellFounded, FS_FiniteSubsetsOfFinite
<1>2. ASSUME NEW T \in Sets, NEW x \in T PROVE <<T \ {x}, T>> \in R
    BY DEF StrictSubsetOrdering
<1> HIDE DEF R
<1>3. PICK T \in Sets : \A V \in Sets : ~ (<<V, T>> \in R)
    BY <1>1, WFMin
<1> QED
    BY <1>2, <1>3

\* f gives for each subset of U the sum of d over it.
AddsUp(f, d, U) ==
    /\ f \in [SUBSET U -> Nat]
    /\ f[{}] = 0
    /\ \A T \in SUBSET U : \A x \in T : f[T] = f[T \ {x}] + d[x]

\* Such a function exists: the order in which elements are added does not matter.
LEMMA SumsExist ==
    ASSUME NEW U, IsFiniteSet(U), NEW d \in [U -> Nat]
    PROVE  \E f : AddsUp(f, d, U)
<1> DEFINE Bad == {T \in SUBSET U : ~ \E f : AddsUp(f, d, T)}
<1>1. SUFFICES ASSUME Bad # {} PROVE FALSE
    BY <1>1
<1>2. Bad \in SUBSET SUBSET U
    OBVIOUS
<1> HIDE DEF Bad
<1>3. PICK T \in Bad : \A x \in T : T \ {x} \notin Bad
    BY <1>1, <1>2, SmallestSet, Zenon
<1>4. T \in SUBSET U /\ ~ \E f : AddsUp(f, d, T)
    BY <1>3 DEF Bad
<1>5. CASE T = {}
    <2>1. AddsUp([V \in SUBSET {} |-> 0], d, {})
        BY DEF AddsUp
    <2> QED
        BY <1>4, <1>5, <2>1
<1>6. CASE T # {}
    <2>1. PICK y \in T : TRUE
        BY <1>6
    <2> DEFINE W == T \ {y}
    <2>2. W \in SUBSET U /\ W \notin Bad
        BY <1>3, <1>4, <2>1
    <2>3. PICK g : AddsUp(g, d, W)
        BY <2>2 DEF Bad
    <2> DEFINE f == [V \in SUBSET T |-> IF y \in V THEN g[V \ {y}] + d[y] ELSE g[V]]
    <2>4. g \in [SUBSET W -> Nat] /\ g[{}] = 0
        BY <2>3 DEF AddsUp
    <2>5. \A V \in SUBSET W : \A x \in V : g[V] = g[V \ {x}] + d[x]
        BY <2>3 DEF AddsUp
    <2>6. \A x \in T : d[x] \in Nat
        BY <1>4
    <2>7. f \in [SUBSET T -> Nat]
        <3> SUFFICES ASSUME NEW V \in SUBSET T
                     PROVE  (IF y \in V THEN g[V \ {y}] + d[y] ELSE g[V]) \in Nat
            OBVIOUS
        <3>1. V \ {y} \in SUBSET W /\ (y \notin V => V \in SUBSET W)
            OBVIOUS
        <3>2. g[V \ {y}] \in Nat /\ (y \notin V => g[V] \in Nat) /\ d[y] \in Nat
            BY <2>4, <2>6, <3>1
        <3> QED
            BY <3>2
    <2>8. f[{}] = 0
        BY <2>4
    <2>9. ASSUME NEW V \in SUBSET T, NEW x \in V PROVE f[V] = f[V \ {x}] + d[x]
        <3>1. V \ {x} \in SUBSET T /\ V \ {y} \in SUBSET W /\ (V \ {x}) \ {y} \in SUBSET W
            OBVIOUS
        <3>2. CASE x = y
            <4>1. f[V] = g[V \ {y}] + d[y] /\ f[V \ {x}] = g[V \ {x}]
                BY <3>1, <3>2
            <4> HIDE DEF f
            <4> QED
                BY <3>2, <4>1
        <3>3. CASE x # y /\ y \in V
            <4>1. f[V] = g[V \ {y}] + d[y] /\ f[V \ {x}] = g[(V \ {x}) \ {y}] + d[y]
                BY <3>1, <3>3
            <4>2. x \in V \ {y} /\ (V \ {x}) \ {y} = (V \ {y}) \ {x}
                BY <3>3
            <4>3. g[V \ {y}] = g[(V \ {y}) \ {x}] + d[x]
                BY <2>5, <3>1, <4>2, Zenon
            <4>4. g[(V \ {y}) \ {x}] \in Nat /\ d[x] \in Nat /\ d[y] \in Nat
                BY <2>4, <2>6, <3>1, <4>2
            <4>5. f[V \ {x}] = g[(V \ {y}) \ {x}] + d[y]
                BY <4>1, <4>2, Zenon
            <4> HIDE DEF f, W
            <4> QED
                BY <4>1, <4>3, <4>4, <4>5
        <3>4. CASE y \notin V
            <4>1. f[V] = g[V] /\ f[V \ {x}] = g[V \ {x}] /\ V \in SUBSET W
                BY <3>1, <3>4
            <4> QED
                BY <2>5, <4>1
        <3> QED
            BY <3>2, <3>3, <3>4
    <2> HIDE DEF f
    <2>10. AddsUp(f, d, T)
        BY <2>7, <2>8, <2>9 DEF AddsUp
    <2> QED
        BY <1>4, <2>10
<1> QED
    BY <1>5, <1>6

\* The hours of os among the projects p: Reserved, with the projects as a parameter.
Hours(p, os) == MapThenSumSet(LAMBDA o : p[o].demand, os)

\* d gives the demand of each of the projects of U among p.
Demanded(d, p, U) == d \in [U -> Nat] /\ \A o \in U : p[o].demand = d[o]

\* They are the sum of the demands, over whichever subset they are taken.
LEMMA HoursAddUp ==
    ASSUME NEW U, IsFiniteSet(U), NEW p, NEW d, Demanded(d, p, U), NEW f, AddsUp(f, d, U),
           NEW S \in SUBSET U
    PROVE  Hours(p, S) = f[S]
<1>0. d \in [U -> Nat] /\ \A o \in U : p[o].demand = d[o]
    BY DEF Demanded
<1> DEFINE Body(g, T) == IF T = {} THEN 0
                         ELSE p[CHOOSE x \in T : TRUE].demand + g[T \ {CHOOSE x \in T : TRUE}]
           IsIter(g) == g = [T \in SUBSET S |-> Body(g, T)]
           iter == CHOOSE g : g = [T \in SUBSET S |-> Body(g, T)]
           h == [T \in SUBSET S |-> f[T]]
<1>1. Hours(p, S) = iter[S]
    BY DEF Hours, MapThenSumSet, MapThenFoldSet
<1>2. ASSUME NEW T \in SUBSET S PROVE f[T] = Body(f, T)
    <2>1. CASE T = {}
        BY <2>1 DEF AddsUp
    <2>2. CASE T # {}
        <3> DEFINE x == CHOOSE x \in T : TRUE
        <3>1. x \in T
            BY <2>2
        <3> HIDE DEF x
        <3>2. f[T] = f[T \ {x}] + d[x] /\ f[T \ {x}] \in Nat /\ f[T] \in Nat
            BY <3>1 DEF AddsUp
        <3>3. p[x].demand = d[x] /\ d[x] \in Nat
            BY <1>0, <3>1
        <3>4. Body(f, T) = p[x].demand + f[T \ {x}]
            BY <2>2 DEF x
        <3> HIDE DEF Body
        <3> QED
            BY <3>2, <3>3, <3>4
    <2> QED
        BY <2>1, <2>2
<1>3. h = [T \in SUBSET S |-> Body(h, T)]
    BY <1>2
<1>4. iter = [T \in SUBSET S |-> Body(iter, T)]
    <2>1. IsIter(h)
        BY <1>3
    <2> HIDE DEF h, Body
    <2>2. \E g : IsIter(g)
        BY <2>1
    <2> HIDE DEF IsIter
    <2>3. IsIter(CHOOSE g : IsIter(g))
        BY <2>2
    <2> QED
        BY <2>3 DEF IsIter
<1> HIDE DEF iter
<1> DEFINE Bad == {T \in SUBSET S : iter[T] # f[T]}
<1>5. CASE Bad # {}
    <2>1. Bad \in SUBSET SUBSET U
        OBVIOUS
    <2> HIDE DEF Bad
    <2>2. PICK T \in Bad : \A x \in T : T \ {x} \notin Bad
        BY <1>5, <2>1, SmallestSet, Zenon
    <2>3. T \in SUBSET S /\ iter[T] # f[T]
        BY <2>2 DEF Bad
    <2>4. iter[T] = Body(iter, T) /\ f[T] = Body(f, T)
        BY <1>2, <1>4, <2>3
    <2>5. \A x \in T : iter[T \ {x}] = f[T \ {x}]
        BY <2>2, <2>3 DEF Bad
    <2>6. Body(iter, T) = Body(f, T)
        <3>1. T # {} => (CHOOSE x \in T : TRUE) \in T
            OBVIOUS
        <3> QED
            BY <2>5, <3>1
    <2> QED
        BY <2>3, <2>4, <2>6
<1> QED
    BY <1>1, <1>5

\* Each project adds its own hours.
LEMMA HoursGrow ==
    ASSUME NEW S, IsFiniteSet(S), NEW p, \A o \in S : p[o].demand \in Nat, NEW x \in S
    PROVE  Hours(p, S) = Hours(p, S \ {x}) + p[x].demand
<1> DEFINE d == [o \in S |-> p[o].demand]
<1>1. Demanded(d, p, S) /\ d \in [S -> Nat] /\ \A o \in S : p[o].demand = d[o]
    BY DEF Demanded
<1> HIDE DEF d
<1>2. PICK f : AddsUp(f, d, S)
    BY <1>1, SumsExist, Zenon
<1>3. S \in SUBSET S /\ S \ {x} \in SUBSET S
    OBVIOUS
<1>4. Hours(p, S) = f[S] /\ Hours(p, S \ {x}) = f[S \ {x}]
    BY <1>1, <1>2, <1>3, HoursAddUp
<1>5. f[S] = f[S \ {x}] + d[x]
    BY <1>2, <1>3 DEF AddsUp
<1> QED
    BY <1>1, <1>4, <1>5

\* The hours of some of the projects are no more than those of all of them.
LEMMA HoursBounded ==
    ASSUME NEW S, IsFiniteSet(S), NEW p, \A o \in S : p[o].demand \in Nat, NEW T \in SUBSET S
    PROVE  Hours(p, T) \in Nat /\ Hours(p, S) \in Nat /\ Hours(p, T) <= Hours(p, S)
<1> DEFINE d == [o \in S |-> p[o].demand]
<1>1. Demanded(d, p, S) /\ d \in [S -> Nat] /\ \A o \in S : p[o].demand = d[o]
    BY DEF Demanded
<1> HIDE DEF d
<1>2. PICK f : AddsUp(f, d, S)
    BY <1>1, SumsExist, Zenon
<1>3. \A V \in SUBSET S : Hours(p, V) = f[V]
    BY <1>1, <1>2, HoursAddUp
<1>4. \A V \in SUBSET S : f[V] \in Nat
    BY <1>2 DEF AddsUp
<1> DEFINE Bad == {V \in SUBSET S : T \subseteq V /\ ~(f[T] <= f[V])}
<1>5. CASE Bad # {}
    <2>1. Bad \in SUBSET SUBSET S
        OBVIOUS
    <2> HIDE DEF Bad
    <2>2. PICK V \in Bad : \A x \in V : V \ {x} \notin Bad
        BY <1>5, <2>1, SmallestSet, Zenon
    <2>3. V \in SUBSET S /\ T \subseteq V /\ ~(f[T] <= f[V])
        BY <2>2 DEF Bad
    <2>4. V # T
        BY <1>4, <2>3
    <2>5. PICK x \in V : x \notin T
        BY <2>3, <2>4
    <2>6. f[T] <= f[V \ {x}]
        BY <2>2, <2>3, <2>5 DEF Bad
    <2>7. f[V] = f[V \ {x}] + d[x]
        BY <1>2, <2>3, <2>5 DEF AddsUp
    <2>8. f[T] \in Nat /\ f[V \ {x}] \in Nat /\ d[x] \in Nat
        BY <1>1, <1>4, <2>3, <2>5
    <2> QED
        BY <2>3, <2>6, <2>7, <2>8
<1>6. CASE Bad = {}
    <2>1. S \in SUBSET S /\ S \notin Bad
        BY <1>6
    <2> QED
        BY <1>3, <1>4, <2>1
<1> QED
    BY <1>5, <1>6

\* The hours of projects are those of projects with the same demand.
LEMMA HoursAgree ==
    ASSUME NEW S, IsFiniteSet(S), NEW p, NEW q,
           \A o \in S : p[o].demand \in Nat /\ q[o].demand = p[o].demand
    PROVE  Hours(p, S) = Hours(q, S)
<1> DEFINE d == [o \in S |-> p[o].demand]
<1>1. d \in [S -> Nat] /\ Demanded(d, p, S) /\ Demanded(d, q, S)
    BY DEF Demanded
<1> HIDE DEF d
<1>2. PICK f : AddsUp(f, d, S)
    BY <1>1, SumsExist, Zenon
<1>3. S \in SUBSET S
    OBVIOUS
<1> QED
    BY <1>1, <1>2, <1>3, HoursAddUp

\* Projects that are fewer, with the demand they had, need no more hours.
LEMMA HoursShrink ==
    ASSUME NEW S, IsFiniteSet(S), NEW T \in SUBSET S, NEW p, NEW q,
           \A o \in S : p[o].demand \in Nat,
           \A o \in T : q[o].demand = p[o].demand
    PROVE  Hours(q, T) \in Nat /\ Hours(p, S) \in Nat /\ Hours(q, T) <= Hours(p, S)
<1>1. IsFiniteSet(T)
    BY FS_Subset
<1>2. Hours(p, T) = Hours(q, T)
    BY <1>1, HoursAgree
<1> QED
    BY <1>2, HoursBounded

\* Reserved is the hours of the projects, before a step and after it.
LEMMA ReservedHours == \A os : Reserved(os) = Hours(project, os)
BY DEF Reserved, Hours
LEMMA ReservedHoursNext == (\A os : Reserved(os) = Hours(project, os))'
BY ReservedHours, PTL

-----------------------------------------------------------------------------
(* Capacity.  NoSilentOverbooking is not inductive: that an activation     *)
(* without an accepted risk fits is known when it assesses, and has to     *)
(* stay true until it commits, which is what the tenant's lock is for.     *)

Unexempted == ActiveProjects \ exempt

\* What is assessed without a risk fits beside the projects that are there.
AssessedFits ==
    \A a \in Activations :
        activation[a].step = "assessed" /\ ~ activation[a].risk =>
            Reserved(Unexempted) + activation[a].demand <= Capacity

IBooking ==
    /\ IsFiniteSet(activated)
    /\ NoSilentOverbooking
    /\ AssessedFits

\* The projects are finitely many, and each has a number of hours.
LEMMA FinitelyMany ==
    ASSUME Inv, IsFiniteSet(activated)
    PROVE  /\ IsFiniteSet(ActiveProjects) /\ IsFiniteSet(Unexempted)
           /\ \A o \in Opportunities : project[o].demand \in Nat
<1>1. ActiveProjects \in SUBSET activated /\ Unexempted \in SUBSET activated
    BY DEF Inv, ProjectOfWon, ActiveProjects, Unexempted
<1>2. IsFiniteSet(ActiveProjects) /\ IsFiniteSet(Unexempted)
    BY <1>1, FS_Subset
<1>3. \A o \in Opportunities : project[o] \in Projects
    BY DEF Inv, TypeOK
<1>4. \A o \in Opportunities : project[o].demand \in Demands \cup {0}
    BY <1>3 DEF Projects
<1>5. Demands \cup {0} \subseteq Nat
    BY IntakeAssumption
<1>6. \A o \in Opportunities : project[o].demand \in Nat
    BY <1>4, <1>5
<1> QED
    BY <1>2, <1>6

\* Nothing more is reserved, and no activation is under way that was not: it fits still.
LEMMA BookingKept ==
    ASSUME Inv, IBooking, activated' = activated, Unexempted' \subseteq Unexempted,
           \A o \in Opportunities : project'[o].demand = project[o].demand,
           \A a \in Activations : activation'[a] = activation[a] \/ activation'[a].step # "assessed"
    PROVE  IBooking'
<1>1. IsFiniteSet(Unexempted) /\ \A o \in Opportunities : project[o].demand \in Nat
    BY FinitelyMany DEF IBooking
<1>2. Unexempted \subseteq Opportunities
    BY DEF Unexempted, ActiveProjects
<1>3. /\ Hours(project', Unexempted') \in Nat
      /\ Hours(project, Unexempted) \in Nat
      /\ Hours(project', Unexempted') <= Hours(project, Unexempted)
    BY <1>1, <1>2, HoursShrink
<1>4. /\ Reserved(Unexempted) \in Nat /\ Reserved(Unexempted)' \in Nat
      /\ Reserved(Unexempted)' <= Reserved(Unexempted)
    BY <1>3, ReservedHours, ReservedHoursNext
<1>5. NoSilentOverbooking'
    BY <1>4, IntakeAssumption DEF IBooking, NoSilentOverbooking, Unexempted
<1>6. AssessedFits'
    <2> SUFFICES ASSUME NEW a \in Activations, activation'[a].step = "assessed",
                        ~ activation'[a].risk
                 PROVE  Reserved(Unexempted)' + activation'[a].demand <= Capacity
        BY DEF AssessedFits
    <2>1. activation'[a] = activation[a]
        OBVIOUS
    <2>2. activation[a].demand \in Nat
        BY <2>1, IntakeAssumption DEF Inv, ActivationsReady
    <2>3. Reserved(Unexempted) + activation[a].demand <= Capacity
        BY <2>1 DEF IBooking, AssessedFits
    <2> QED
        BY <1>4, <2>1, <2>2, <2>3, IntakeAssumption
<1> QED
    BY <1>5, <1>6 DEF IBooking

\* What is assessed and no conflict fits beside all the projects that are there.
LEMMA AssessmentFits ==
    ASSUME Inv, IsFiniteSet(activated), NEW d \in Nat, Assessment(d) = "ok"
    PROVE  Reserved(Unexempted) + d <= Capacity
<1>1. /\ IsFiniteSet(ActiveProjects) /\ Unexempted \in SUBSET ActiveProjects
      /\ \A o \in ActiveProjects : project[o].demand \in Nat
    BY FinitelyMany DEF Unexempted, ActiveProjects
<1>2. /\ Reserved(Unexempted) \in Nat /\ Reserved(ActiveProjects) \in Nat
      /\ Reserved(Unexempted) <= Reserved(ActiveProjects)
    BY <1>1, HoursBounded, ReservedHours
<1>3. d # 0 /\ ~ (d > Free)
    BY DEF Assessment
<1> QED
    BY <1>2, <1>3, IntakeAssumption DEF Free

LEMMA BookingStep == ASSUME Inv, Inv', IBooking, [Next]_vars PROVE IBooking'
<1>1. ASSUME NEW a \in Activations, AssessAgain(a)
      PROVE  IBooking'
    <2> DEFINE found == Assessment(activation[a].demand)
               new == IF found = "blocked" THEN Inactive
                      ELSE [activation[a] EXCEPT !.step = "assessed", !.risk = (found = "conflict")]
    <2>1. /\ UNCHANGED <<project, exempt, activated>>
          /\ activation[a].step = "locked"
          /\ activation' = [activation EXCEPT ![a] = new]
        BY <1>1 DEF AssessAgain
    <2>2. activation[a].demand \in Nat
        BY <2>1, IntakeAssumption DEF Inv, ActivationsReady
    <2>3. \A b \in Activations : activation'[b] = IF b = a THEN new ELSE activation[b]
        BY <2>1 DEF Inv, TypeOK
    <2>4. found \in {"blocked", "conflict", "ok"}
        BY DEF Assessment
    <2>5. new.step = "assessed" /\ ~ new.risk => found = "ok" /\ new.demand = activation[a].demand
        <3> HIDE DEF found
        <3> QED
            BY <2>4 DEF Inv, TypeOK, ActivationStates, Inactive
    <2>6. found = "ok" => Reserved(Unexempted) + activation[a].demand <= Capacity
        BY <2>2, AssessmentFits DEF IBooking
    <2> HIDE DEF new, found
    <2>7. ActiveProjects' = ActiveProjects /\ Unexempted' = Unexempted
        BY <2>1 DEF ActiveProjects, Unexempted
    <2>8. Reserved(Unexempted)' = Reserved(Unexempted)
        BY <2>1, <2>7, ReservedHours, ReservedHoursNext
    <2>9. AssessedFits'
        <3> SUFFICES ASSUME NEW b \in Activations, activation'[b].step = "assessed",
                            ~ activation'[b].risk
                     PROVE  Reserved(Unexempted)' + activation'[b].demand <= Capacity
            BY DEF AssessedFits
        <3>1. CASE b = a
            BY <2>3, <2>5, <2>6, <2>8, <3>1
        <3>2. CASE b # a
            BY <2>3, <2>8, <3>2 DEF IBooking, AssessedFits
        <3> QED
            BY <3>1, <3>2
    <2> QED
        BY <2>1, <2>8, <2>9 DEF IBooking, NoSilentOverbooking, Unexempted
<1>2. ASSUME NEW a \in Activations, CommitActivation(a)
      PROVE  IBooking'
    <2> DEFINE o == activation[a].on
               d == activation[a].demand
    <2>1. /\ activation[a].step = "assessed"
          /\ IsOpen(o)
          /\ project' = [project EXCEPT ![o] = [status |-> "active", demand |-> d]]
          /\ exempt' = IF activation[a].risk THEN exempt \cup {o} ELSE exempt
          /\ activated' = activated \cup {o}
          /\ activation' = [activation EXCEPT ![a] = Inactive]
        BY <1>2 DEF CommitActivation
    <2>2. o \in Opportunities /\ d \in Nat
        BY <2>1, IntakeAssumption DEF Inv, ActivationsReady
    <2>3. o \notin ActiveProjects
        BY <2>1, <2>2 DEF Inv, ProjectOfWon, IsOpen, Open, ActiveProjects
    <2>4. \A b \in Activations : activation'[b].step = "idle"
        BY <2>1 DEF Inv, TypeOK, OneActivation, Inactive
    <2>5. /\ project'[o].demand = d
          /\ \A q \in Opportunities \ {o} : project'[q] = project[q]
        BY <2>1, <2>2 DEF Inv, TypeOK
    <2>6. IsFiniteSet(activated')
        BY <2>1, FS_AddElement DEF IBooking
    <2>7. /\ IsFiniteSet(Unexempted) /\ \A q \in Opportunities : project[q].demand \in Nat
        BY FinitelyMany DEF IBooking
    <2>8. /\ Unexempted \subseteq Opportunities
          /\ o \notin Unexempted
          /\ Unexempted' \subseteq Unexempted \cup (IF activation[a].risk THEN {} ELSE {o})
        BY <2>1, <2>2, <2>3, <2>5 DEF Unexempted, ActiveProjects
    <2>9. \A q \in Unexempted : project'[q].demand = project[q].demand
        BY <2>5, <2>8
    <2> HIDE DEF o, d
    <2>10. Reserved(Unexempted) = Hours(project, Unexempted)
        BY ReservedHours
    <2>11. Reserved(Unexempted)' = Hours(project', Unexempted')
        BY ReservedHoursNext
    <2>12. Reserved(Unexempted) \in Nat /\ Reserved(Unexempted) <= Capacity
        BY <2>7, <2>8, <2>10, HoursBounded DEF IBooking, NoSilentOverbooking, Unexempted
    <2>13. Reserved(Unexempted)' <= Capacity
        <3>1. CASE activation[a].risk
            <4>1. Unexempted' \in SUBSET Unexempted
                BY <2>8, <3>1
            <4>2. /\ Hours(project', Unexempted') \in Nat
                  /\ Hours(project', Unexempted') <= Hours(project, Unexempted)
                BY <2>7, <2>8, <2>9, <4>1, HoursShrink
            <4> QED
                BY <2>10, <2>11, <2>12, <4>2, IntakeAssumption
        <3>2. CASE ~ activation[a].risk
            <4> DEFINE all == Unexempted \cup {o}
            <4>1. IsFiniteSet(all) /\ o \in all /\ all \ {o} = Unexempted
                BY <2>7, <2>8, FS_AddElement
            <4>2. Unexempted' \in SUBSET all
                BY <2>8, <3>2
            <4>3. \A q \in all : project'[q].demand \in Nat
                BY <2>2, <2>5, <2>7, <2>8, <2>9
            <4> HIDE DEF all
            <4>4. Hours(project', all) = Hours(project', all \ {o}) + project'[o].demand
                BY <4>1, <4>3, HoursGrow
            <4>5. Hours(project', Unexempted) = Hours(project, Unexempted)
                BY <2>7, <2>8, <2>9, HoursAgree
            <4>6. /\ Hours(project', Unexempted') \in Nat /\ Hours(project', all) \in Nat
                  /\ Hours(project', Unexempted') <= Hours(project', all)
                BY <4>1, <4>2, <4>3, HoursBounded
            <4>7. Reserved(Unexempted) + d <= Capacity
                BY <2>1, <3>2 DEF IBooking, AssessedFits, d
            <4>8. Hours(project', all) = Reserved(Unexempted) + d
                BY <2>5, <2>10, <4>1, <4>4, <4>5
            <4> QED
                BY <2>2, <2>11, <2>12, <4>6, <4>7, <4>8, IntakeAssumption
        <3> QED
            BY <3>1, <3>2
    <2> QED
        BY <2>4, <2>6, <2>13 DEF IBooking, NoSilentOverbooking, AssessedFits, Unexempted
<1>3. ASSUME NEW a \in Activations, NEW o \in Opportunities, BeginActivation(a, o)
      PROVE  IBooking'
    <2>1. UNCHANGED <<project, exempt, activated>>
        BY <1>3 DEF BeginActivation
    <2>2. \A b \in Activations : activation'[b] = activation[b] \/ activation'[b].step # "assessed"
        BY <1>3 DEF BeginActivation, Inv, TypeOK
    <2> QED
        BY <2>1, <2>2, BookingKept DEF Unexempted, ActiveProjects
<1>4. ASSUME NEW a \in Activations, RollBackActivation(a)
      PROVE  IBooking'
    <2>1. UNCHANGED <<project, exempt, activated>>
        BY <1>4 DEF RollBackActivation
    <2>2. \A b \in Activations : activation'[b] = activation[b] \/ activation'[b].step # "assessed"
        BY <1>4 DEF RollBackActivation, Inactive, Inv, TypeOK
    <2> QED
        BY <2>1, <2>2, BookingKept DEF Unexempted, ActiveProjects
<1>5. ASSUME NEW o \in Opportunities, Release(o)
      PROVE  IBooking'
    <2>1. /\ UNCHANGED <<exempt, activated, activation>>
          /\ project' = [project EXCEPT ![o].status = "released"]
        BY <1>5 DEF Release
    <2>2. \A q \in Opportunities : project'[q].demand = project[q].demand
        BY <2>1 DEF Inv, TypeOK, Projects
    <2>3. Unexempted' \subseteq Unexempted
        BY <2>1 DEF Inv, TypeOK, Projects, Unexempted, ActiveProjects
    <2> QED
        BY <2>1, <2>2, <2>3, BookingKept
<1>6. ASSUME NEW o \in Opportunities, TakeUp(o)
      PROVE  IBooking'
    <2>1. /\ UNCHANGED <<activated, activation>>
          /\ project' = [project EXCEPT ![o].status = "active"]
          /\ exempt' = exempt \cup {o}
        BY <1>6 DEF TakeUp
    <2>2. \A q \in Opportunities : project'[q].demand = project[q].demand
        BY <2>1 DEF Inv, TypeOK, Projects
    <2>3. Unexempted' \subseteq Unexempted
        BY <2>1 DEF Inv, TypeOK, Projects, Unexempted, ActiveProjects
    <2> QED
        BY <2>1, <2>2, <2>3, BookingKept
<1>7. CASE UNCHANGED <<project, exempt, activated, activation>>
    BY <1>7, BookingKept DEF Unexempted, ActiveProjects
<1> QED
    BY <1>1, <1>2, <1>3, <1>4, <1>5, <1>6, <1>7 DEF Next, vars, BeginCheck, BeginEdit, BeginMove,
       Begin, Write, Finalize

LEMMA BookingInit == ASSUME Init PROVE IBooking
<1>1. ActiveProjects \ exempt = {} /\ IsFiniteSet({})
    BY FS_EmptySet DEF Init, ActiveProjects
<1>2. IsFiniteSet(activated) /\ AssessedFits
    BY <1>1 DEF Init, AssessedFits, Inactive
<1>3. Hours(project, {}) \in Nat /\ Hours(project, {}) = 0
    <2> DEFINE d == [o \in {} |-> 0]
    <2>1. Demanded(d, project, {}) /\ d \in [{} -> Nat] /\ {} \in SUBSET {}
        BY DEF Demanded
    <2> HIDE DEF d
    <2>2. PICK f : AddsUp(f, d, {})
        BY <1>1, <2>1, SumsExist, Zenon
    <2>3. Hours(project, {}) = f[{}]
        BY <1>1, <2>1, <2>2, HoursAddUp
    <2> QED
        BY <2>2, <2>3 DEF AddsUp
<1>4. NoSilentOverbooking
    BY <1>1, <1>3, ReservedHours, IntakeAssumption DEF NoSilentOverbooking
<1> QED
    BY <1>2, <1>4 DEF IBooking

\* However activations interleave with each other and with what else becomes of
\* the projects, those that were activated without an accepted risk, and not
\* paused since, fit into the capacity together: for any number of opportunities.
THEOREM NoSilentOverbookingHolds == Spec => []NoSilentOverbooking
<1>1. Inv /\ Inv' /\ IBooking /\ [Next]_vars => IBooking'
    BY BookingStep
<1>2. Init => IBooking
    BY BookingInit
<1> QED
    BY <1>1, <1>2, InvAlways, PTL DEF Spec, IBooking
=============================================================================
