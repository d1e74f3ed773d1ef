------------------------- MODULE PlanHistory_proofs -------------------------
(***************************************************************************)
(* The contents of the plan, for batches of any length: what a batch       *)
(* stores, that a revert puts back what the reverted commit changed, that  *)
(* the write path implements PlanHistory, and that nothing is written that *)
(* the preview would not allow.                                            *)
(*                                                                         *)
(* A batch is stored command by command, so this needs induction over its  *)
(* length.  It is done with the least counterexample: a nonempty set of    *)
(* numbers has a smallest member (Least).  Instead of the recursive        *)
(* function in Stored the proofs use its graph, the run of plans that a    *)
(* batch goes through (StoredFrom), which a transaction extends by one at  *)
(* every WriteNext; StoredIsLast says that the two agree.                  *)
(***************************************************************************)
EXTENDS PlanWrites_proofs, WellFoundedInduction

\* Every nonempty set of natural numbers has a smallest member.
LEMMA Least ==
    ASSUME NEW T \in SUBSET Nat, T # {}
    PROVE  \E m \in T : \A k \in T : m <= k
<1> DEFINE R == OpToRel(<, Nat)
<1>1. IsWellFoundedOn(R, Nat)
    BY NatLessThanWellFounded
<1>2. ASSUME NEW k \in T, NEW m \in T, k < m PROVE <<k, m>> \in R
    BY <1>2 DEF OpToRel
<1> HIDE DEF R
<1>3. PICK m \in T : \A k \in T : ~ (<<k, m>> \in R)
    BY <1>1, WFMin
<1>4. \A k \in T : ~(k < m)
    BY <1>2, <1>3
<1>5. \A k \in T : k \in Int /\ m \in Int
    OBVIOUS
<1>6. \A k \in T : m <= k
    BY <1>4, <1>5
<1> QED BY <1>6

-----------------------------------------------------------------------------
(* Batches                                                                 *)

\* f steps from p through the first n of the commands.
StepsFrom(f, p, cmds, n) ==
    /\ f[0] = p
    /\ \A i \in 1..n : f[i] = Persist(f[i - 1], cmds[i])

\* f is the run of plans while the first n of the commands are stored on p.
StoredFrom(f, p, cmds, n) == f \in [0..n -> Plans] /\ StepsFrom(f, p, cmds, n)

\* There is only one such run.
LEMMA StoredFromUnique ==
    ASSUME NEW p, NEW cmds, NEW n \in Nat, NEW f, NEW g,
           StepsFrom(f, p, cmds, n), StepsFrom(g, p, cmds, n)
    PROVE  \A k \in 0..n : f[k] = g[k]
<1> DEFINE T == {k \in 0..n : f[k] # g[k]}
<1> SUFFICES ASSUME T # {} PROVE FALSE
    OBVIOUS
<1>1. T \in SUBSET Nat
    OBVIOUS
<1>2. PICK m \in T : \A k \in T : m <= k
    <2> HIDE DEF T
    <2> QED BY <1>1, Least
<1>3. m \in 1..n /\ m - 1 \in 0..n /\ m - 1 \notin T
    BY <1>2 DEF StepsFrom
<1>4. f[m - 1] = g[m - 1]
    BY <1>3
<1> QED BY <1>2, <1>3, <1>4 DEF StepsFrom

\* Stored is the last plan of the run.
LEMMA StoredIsLast ==
    ASSUME NEW p \in Plans, NEW cmds \in Seq(Commands), NEW f, StoredFrom(f, p, cmds, Len(cmds))
    PROVE  Stored(p, cmds) = f[Len(cmds)]
<1> DEFINE n == Len(cmds)
           F(g) == [i \in 0..n |-> IF i = 0 THEN p ELSE Persist(g[i - 1], cmds[i])]
           after == CHOOSE g : g = F(g)
<1>1. n \in Nat
    OBVIOUS
<1>2. f = F(f)
    BY <1>1 DEF StoredFrom, StepsFrom
<1>3. after = F(after)
    BY <1>2
<1>4. Stored(p, cmds) = after[n]
    BY DEF Stored
<1> HIDE DEF after
<1>5. StepsFrom(after, p, cmds, n)
    BY <1>1, <1>3 DEF StepsFrom
<1>6. StepsFrom(f, p, cmds, n)
    BY DEF StoredFrom
<1> HIDE DEF n, F
<1>7. \A k \in 0..n : f[k] = after[k]
    BY <1>1, <1>5, <1>6, StoredFromUnique
<1> QED BY <1>1, <1>4, <1>7 DEF n

\* A transaction that has stored n commands goes on with the next one.
LEMMA StoredFromNext ==
    ASSUME NEW p, NEW cmds \in Seq(Commands), NEW n \in Nat, n < Len(cmds),
           NEW f, StoredFrom(f, p, cmds, n)
    PROVE  \E g : /\ StoredFrom(g, p, cmds, n + 1)
                  /\ g[n + 1] = Persist(f[n], cmds[n + 1])
<1> DEFINE g == [k \in 0..(n + 1) |-> IF k = n + 1 THEN Persist(f[n], cmds[n + 1]) ELSE f[k]]
<1>1. f[n] \in Plans /\ cmds[n + 1] \in Commands
    BY DEF StoredFrom
<1>2. Persist(f[n], cmds[n + 1]) \in Plans
    BY <1>1, PersistType
<1>3. g \in [0..(n + 1) -> Plans]
    BY <1>2 DEF StoredFrom
<1>4. StepsFrom(g, p, cmds, n + 1)
    <2>1. g[0] = p
        BY DEF StoredFrom, StepsFrom
    <2>2. ASSUME NEW i \in 1..(n + 1) PROVE g[i] = Persist(g[i - 1], cmds[i])
        <3>1. CASE i = n + 1
            BY <3>1
        <3>2. CASE i # n + 1
            <4>1. i \in 1..n
                BY <3>2
            <4>2. f[i] = Persist(f[i - 1], cmds[i])
                BY <4>1 DEF StoredFrom, StepsFrom
            <4> QED BY <4>1, <4>2
        <3> QED BY <3>1, <3>2
    <2> QED BY <2>1, <2>2 DEF StepsFrom
<1>5. g[n + 1] = Persist(f[n], cmds[n + 1])
    OBVIOUS
<1> QED BY <1>3, <1>4, <1>5 DEF StoredFrom

\* p becomes q when all the commands are stored.
Stores(p, cmds, q) ==
    \E f : StoredFrom(f, p, cmds, Len(cmds)) /\ q = f[Len(cmds)]

\* Stored computes that plan.
LEMMA StoredIsResult ==
    ASSUME NEW p \in Plans, NEW cmds \in Seq(Commands), NEW q, Stores(p, cmds, q)
    PROVE  q \in Plans /\ Stored(p, cmds) = q
<1>1. PICK f : StoredFrom(f, p, cmds, Len(cmds)) /\ q = f[Len(cmds)]
    BY DEF Stores
<1>2. Len(cmds) \in 0..Len(cmds)
    OBVIOUS
<1> QED BY <1>1, <1>2, StoredIsLast DEF StoredFrom

-----------------------------------------------------------------------------
(* Fields                                                                  *)

\* The value a command gives to the field it names.
ValueOf(c) ==
    CASE c.op = "status"   -> c.status
      [] c.op = "progress" -> Clamp(c.percent)
      [] c.op = "assign"   -> c.units
      [] c.op = "unassign" -> 0
      [] c.op = "archive"  -> TRUE

\* What one command does to each field of each task.
LEMMA PersistFields ==
    ASSUME NEW p \in Plans, NEW c \in Commands, NEW t \in Tasks
    PROVE  /\ Persist(p, c)[t].status =
                IF c.op \in {"status"} /\ c.task = t THEN ValueOf(c) ELSE p[t].status
           /\ Persist(p, c)[t].units =
                IF c.op \in {"assign", "unassign"} /\ c.task = t THEN ValueOf(c) ELSE p[t].units
           /\ Persist(p, c)[t].archived =
                IF c.op \in {"archive"} /\ c.task = t THEN ValueOf(c) ELSE p[t].archived
           /\ c.op # "status" => Persist(p, c)[t].progress =
                IF c.op \in {"progress"} /\ c.task = t THEN ValueOf(c) ELSE p[t].progress
<1>1. c.task \in Tasks /\ p[c.task] \in TaskRow /\ p \in [Tasks -> TaskRow]
    BY DEF Commands, Plans
<1> DEFINE q == Persist(p, c)
<1>2. CASE c.task # t
    <2>1. q[t] = p[t]
        BY <1>1, <1>2 DEF Persist
    <2> QED BY <1>2, <2>1
<1>3. CASE c.task = t
    <2> DEFINE g == StoredProgress(p[t], c)
    <2>1. q[t] = Effect(p[t], c, g)
        BY <1>1, <1>3 DEF Persist
    <2>2. c.op \in {"progress", "assign", "unassign", "archive"} => g =
            IF c.op = "progress" THEN Clamp(c.percent) ELSE p[t].progress
        BY DEF StoredProgress
    <2> HIDE DEF g
    <2>3. CASE c.op = "status"
        BY <1>1, <1>3, <2>1, <2>3 DEF Effect, TaskRow, ValueOf
    <2>4. CASE c.op = "progress"
        BY <1>1, <1>3, <2>1, <2>2, <2>4 DEF Effect, TaskRow, ValueOf
    <2>5. CASE c.op = "assign"
        BY <1>1, <1>3, <2>1, <2>2, <2>5 DEF Effect, TaskRow, ValueOf
    <2>6. CASE c.op = "unassign"
        BY <1>1, <1>3, <2>1, <2>2, <2>6 DEF Effect, TaskRow, ValueOf
    <2>7. CASE c.op = "archive"
        BY <1>1, <1>3, <2>1, <2>2, <2>7 DEF Effect, TaskRow, ValueOf
    <2>8. c.op \in {"status", "progress", "assign", "unassign", "archive"}
        BY DEF Commands
    <2> QED BY <2>3, <2>4, <2>5, <2>6, <2>7, <2>8
<1> QED BY <1>2, <1>3

\* The steps of the set touched change a value to v, and no other step of the
\* first n changes it.
Writes(w, n, touched, v) ==
    /\ touched \in SUBSET (1..n)
    /\ \A k \in 1..n : w[k] = IF k \in touched THEN v ELSE w[k - 1]

\* Such a value ends as v if any step touched it, and else as what it was.
LEMMA LastWrite ==
    ASSUME NEW n \in Nat, NEW w, NEW touched, NEW v, Writes(w, n, touched, v)
    PROVE  w[n] = IF touched = {} THEN w[0] ELSE v
<1> DEFINE Right(k) == w[k] = IF \E j \in touched : j <= k THEN v ELSE w[0]
           T == {k \in 0..n : ~Right(k)}
<1> USE DEF Writes
<1>1. T = {}
    <2> SUFFICES ASSUME T # {} PROVE FALSE
        OBVIOUS
    <2>1. T \in SUBSET Nat
        OBVIOUS
    <2>2. PICK m \in T : \A k \in T : m <= k
        <3> HIDE DEF T
        <3> QED BY <2>1, Least
    <2>3. Right(0)
        BY \A j \in touched : j \in 1..n
    <2>4. m \in 1..n /\ m - 1 \in 0..n /\ m - 1 \notin T
        BY <2>2, <2>3
    <2>5. Right(m - 1)
        BY <2>4
    <2>6. \A j \in touched : j \in Int /\ (j <= m <=> j <= m - 1 \/ j = m)
        BY <2>4
    <2>7. Right(m)
        <3>1. CASE m \in touched
            BY <2>4, <2>6, <3>1
        <3>2. CASE m \notin touched
            BY <2>4, <2>5, <2>6, <3>2
        <3> QED BY <3>1, <3>2
    <2> QED BY <2>2, <2>7
<1>2. Right(n)
    BY <1>1
<1> QED BY <1>2

\* Some command with one of these operations is about task t.
Touches(cmds, t, ops) == \E i \in 1..Len(cmds) : cmds[i].op \in ops /\ cmds[i].task = t

\* All of them give the field the value v.
AllGive(cmds, t, ops, v) ==
    \A i \in 1..Len(cmds) : cmds[i].op \in ops /\ cmds[i].task = t => ValueOf(cmds[i]) = v

\* The status of a task after a batch whose status commands on it agree.
LEMMA StatusAfter ==
    ASSUME NEW p \in Plans, NEW cmds \in Seq(Commands), NEW q, Stores(p, cmds, q),
           NEW t \in Tasks, NEW v, AllGive(cmds, t, {"status"}, v)
    PROVE  q[t].status = IF Touches(cmds, t, {"status"}) THEN v ELSE p[t].status
<1>1. PICK f : StoredFrom(f, p, cmds, Len(cmds)) /\ q = f[Len(cmds)]
    BY DEF Stores
<1> DEFINE n == Len(cmds)
           w == [k \in 0..n |-> f[k][t].status]
           touched == {i \in 1..n : cmds[i].op \in {"status"} /\ cmds[i].task = t}
<1>2. n \in Nat /\ \A i \in 1..n : i - 1 \in 0..n /\ i \in 0..n /\ cmds[i] \in Commands
    OBVIOUS
<1>3. \A i \in 1..n : f[i] = Persist(f[i - 1], cmds[i]) /\ f[i - 1] \in Plans
    BY <1>1, <1>2 DEF StoredFrom, StepsFrom
<1>4. ASSUME NEW k \in 1..n PROVE w[k] = IF k \in touched THEN v ELSE w[k - 1]
    <2>1. w[k] = f[k][t].status /\ w[k - 1] = f[k - 1][t].status
        BY <1>2
    <2>2. f[k - 1] \in Plans /\ cmds[k] \in Commands /\ f[k] = Persist(f[k - 1], cmds[k])
        BY <1>2, <1>3
    <2>3. Persist(f[k - 1], cmds[k])[t].status =
            IF cmds[k].op \in {"status"} /\ cmds[k].task = t
            THEN ValueOf(cmds[k]) ELSE f[k - 1][t].status
        BY <2>2, PersistFields, Zenon
    <2> QED BY <2>1, <2>2, <2>3 DEF AllGive
<1>5. w[0] = p[t].status /\ w[n] = q[t].status
    BY <1>1, <1>2 DEF StoredFrom, StepsFrom
<1>6. touched # {} <=> Touches(cmds, t, {"status"})
    BY DEF Touches
<1>7. Writes(w, n, touched, v)
    BY <1>4 DEF Writes
<1> HIDE DEF w, touched
<1>8. w[n] = IF touched = {} THEN w[0] ELSE v
    BY <1>2, <1>7, LastWrite
<1> QED BY <1>5, <1>6, <1>8

\* Its assignment, when the assignment commands agree.
LEMMA UnitsAfter ==
    ASSUME NEW p \in Plans, NEW cmds \in Seq(Commands), NEW q, Stores(p, cmds, q),
           NEW t \in Tasks, NEW v, AllGive(cmds, t, {"assign", "unassign"}, v)
    PROVE  q[t].units = IF Touches(cmds, t, {"assign", "unassign"}) THEN v ELSE p[t].units
<1>1. PICK f : StoredFrom(f, p, cmds, Len(cmds)) /\ q = f[Len(cmds)]
    BY DEF Stores
<1> DEFINE n == Len(cmds)
           w == [k \in 0..n |-> f[k][t].units]
           touched == {i \in 1..n : cmds[i].op \in {"assign", "unassign"} /\ cmds[i].task = t}
<1>2. n \in Nat /\ \A i \in 1..n : i - 1 \in 0..n /\ i \in 0..n /\ cmds[i] \in Commands
    OBVIOUS
<1>3. \A i \in 1..n : f[i] = Persist(f[i - 1], cmds[i]) /\ f[i - 1] \in Plans
    BY <1>1, <1>2 DEF StoredFrom, StepsFrom
<1>4. ASSUME NEW k \in 1..n PROVE w[k] = IF k \in touched THEN v ELSE w[k - 1]
    <2>1. w[k] = f[k][t].units /\ w[k - 1] = f[k - 1][t].units
        BY <1>2
    <2>2. f[k - 1] \in Plans /\ cmds[k] \in Commands /\ f[k] = Persist(f[k - 1], cmds[k])
        BY <1>2, <1>3
    <2>3. Persist(f[k - 1], cmds[k])[t].units =
            IF cmds[k].op \in {"assign", "unassign"} /\ cmds[k].task = t
            THEN ValueOf(cmds[k]) ELSE f[k - 1][t].units
        BY <2>2, PersistFields, Zenon
    <2> QED BY <2>1, <2>2, <2>3 DEF AllGive
<1>5. w[0] = p[t].units /\ w[n] = q[t].units
    BY <1>1, <1>2 DEF StoredFrom, StepsFrom
<1>6. touched # {} <=> Touches(cmds, t, {"assign", "unassign"})
    BY DEF Touches
<1>7. Writes(w, n, touched, v)
    BY <1>4 DEF Writes
<1> HIDE DEF w, touched
<1>8. w[n] = IF touched = {} THEN w[0] ELSE v
    BY <1>2, <1>7, LastWrite
<1> QED BY <1>5, <1>6, <1>8

\* Its archive mark.
LEMMA ArchivedAfter ==
    ASSUME NEW p \in Plans, NEW cmds \in Seq(Commands), NEW q, Stores(p, cmds, q),
           NEW t \in Tasks, NEW v, AllGive(cmds, t, {"archive"}, v)
    PROVE  q[t].archived = IF Touches(cmds, t, {"archive"}) THEN v ELSE p[t].archived
<1>1. PICK f : StoredFrom(f, p, cmds, Len(cmds)) /\ q = f[Len(cmds)]
    BY DEF Stores
<1> DEFINE n == Len(cmds)
           w == [k \in 0..n |-> f[k][t].archived]
           touched == {i \in 1..n : cmds[i].op \in {"archive"} /\ cmds[i].task = t}
<1>2. n \in Nat /\ \A i \in 1..n : i - 1 \in 0..n /\ i \in 0..n /\ cmds[i] \in Commands
    OBVIOUS
<1>3. \A i \in 1..n : f[i] = Persist(f[i - 1], cmds[i]) /\ f[i - 1] \in Plans
    BY <1>1, <1>2 DEF StoredFrom, StepsFrom
<1>4. ASSUME NEW k \in 1..n PROVE w[k] = IF k \in touched THEN v ELSE w[k - 1]
    <2>1. w[k] = f[k][t].archived /\ w[k - 1] = f[k - 1][t].archived
        BY <1>2
    <2>2. f[k - 1] \in Plans /\ cmds[k] \in Commands /\ f[k] = Persist(f[k - 1], cmds[k])
        BY <1>2, <1>3
    <2>3. Persist(f[k - 1], cmds[k])[t].archived =
            IF cmds[k].op \in {"archive"} /\ cmds[k].task = t
            THEN ValueOf(cmds[k]) ELSE f[k - 1][t].archived
        BY <2>2, PersistFields, Zenon
    <2> QED BY <2>1, <2>2, <2>3 DEF AllGive
<1>5. w[0] = p[t].archived /\ w[n] = q[t].archived
    BY <1>1, <1>2 DEF StoredFrom, StepsFrom
<1>6. touched # {} <=> Touches(cmds, t, {"archive"})
    BY DEF Touches
<1>7. Writes(w, n, touched, v)
    BY <1>4 DEF Writes
<1> HIDE DEF w, touched
<1>8. w[n] = IF touched = {} THEN w[0] ELSE v
    BY <1>2, <1>7, LastWrite
<1> QED BY <1>5, <1>6, <1>8

\* Its progress, when no status command derives one and the progress commands
\* agree.
LEMMA ProgressAfter ==
    ASSUME NEW p \in Plans, NEW cmds \in Seq(Commands), NEW q, Stores(p, cmds, q),
           NEW t \in Tasks, NEW v, AllGive(cmds, t, {"progress"}, v),
           \A i \in 1..Len(cmds) : cmds[i].op # "status"
    PROVE  q[t].progress = IF Touches(cmds, t, {"progress"}) THEN v ELSE p[t].progress
<1>1. PICK f : StoredFrom(f, p, cmds, Len(cmds)) /\ q = f[Len(cmds)]
    BY DEF Stores
<1> DEFINE n == Len(cmds)
           w == [k \in 0..n |-> f[k][t].progress]
           touched == {i \in 1..n : cmds[i].op \in {"progress"} /\ cmds[i].task = t}
<1>2. n \in Nat /\ \A i \in 1..n : i - 1 \in 0..n /\ i \in 0..n /\ cmds[i] \in Commands
    OBVIOUS
<1>3. \A i \in 1..n : f[i] = Persist(f[i - 1], cmds[i]) /\ f[i - 1] \in Plans
    BY <1>1, <1>2 DEF StoredFrom, StepsFrom
<1>4. ASSUME NEW k \in 1..n PROVE w[k] = IF k \in touched THEN v ELSE w[k - 1]
    <2>1. w[k] = f[k][t].progress /\ w[k - 1] = f[k - 1][t].progress
        BY <1>2
    <2>2. f[k - 1] \in Plans /\ cmds[k] \in Commands /\ f[k] = Persist(f[k - 1], cmds[k])
        BY <1>2, <1>3
    <2>3. Persist(f[k - 1], cmds[k])[t].progress =
            IF cmds[k].op \in {"progress"} /\ cmds[k].task = t
            THEN ValueOf(cmds[k]) ELSE f[k - 1][t].progress
        <3>1. cmds[k].op # "status"
            OBVIOUS
        <3> QED BY <2>2, <3>1, PersistFields, Zenon
    <2> QED BY <2>1, <2>2, <2>3 DEF AllGive
<1>5. w[0] = p[t].progress /\ w[n] = q[t].progress
    BY <1>1, <1>2 DEF StoredFrom, StepsFrom
<1>6. touched # {} <=> Touches(cmds, t, {"progress"})
    BY DEF Touches
<1>7. Writes(w, n, touched, v)
    BY <1>4 DEF Writes
<1> HIDE DEF w, touched
<1>8. w[n] = IF touched = {} THEN w[0] ELSE v
    BY <1>2, <1>7, LastWrite
<1> QED BY <1>5, <1>6, <1>8

-----------------------------------------------------------------------------
(* Reverts                                                                 *)

\* A batch that can be reverted archives nothing.  Its compensating commands
\* name the same tasks and the same fields, last command first, and set them to
\* what they were before.
LEMMA CompensationsOf ==
    ASSUME NEW before \in Plans, NEW cmds \in Seq(Commands),
           Compensations(cmds, before) # << >>
    PROVE  LET undo == Compensations(cmds, before)
           IN  /\ Len(undo) = Len(cmds)
               /\ \A i \in 1..Len(cmds) :
                    /\ cmds[i].op # "archive"
                    /\ Len(cmds) + 1 - i \in 1..Len(cmds)
                    /\ undo[i] = Inverse(cmds[Len(cmds) + 1 - i], before)
                    /\ cmds[i] \in Commands
                    /\ undo[i] \in Commands
<1> DEFINE n == Len(cmds)
           undo == Compensations(cmds, before)
<1>1. \A i \in DOMAIN cmds : Reversible(cmds[i], before)
    BY DEF Compensations
<1>2. undo = [i \in 1..n |-> Inverse(cmds[n + 1 - i], before)]
    BY DEF Compensations
<1>3. undo \in Seq(Commands)
    BY CompensationsType
<1>4. n \in Nat /\ DOMAIN cmds = 1..n /\ \A i \in 1..n : cmds[i] \in Commands
    OBVIOUS
<1>5. \A i \in 1..n : cmds[i].op # "archive"
    BY <1>1, <1>4 DEF Reversible
<1>6. DOMAIN undo = 1..n
    BY <1>2
<1> HIDE DEF undo
<1>7. Len(undo) = n /\ \A i \in 1..n : undo[i] \in Commands
    BY <1>3, <1>4, <1>6
<1>8. \A i \in 1..n : n + 1 - i \in 1..n /\ undo[i] = Inverse(cmds[n + 1 - i], before)
    BY <1>2, <1>4
<1> QED BY <1>4, <1>5, <1>7, <1>8 DEF undo

\* The inverse of a command gives the same field of the same task its value
\* from before.
LEMMA InverseFields ==
    ASSUME NEW p \in Plans, NEW c \in Commands, c.op # "archive"
    PROVE  /\ Inverse(c, p).task = c.task
           /\ Inverse(c, p).op # "archive"
           /\ Inverse(c, p).op \in {"status"} <=> c.op \in {"status"}
           /\ Inverse(c, p).op \in {"progress"} <=> c.op \in {"progress"}
           /\ Inverse(c, p).op \in {"assign", "unassign"} <=> c.op \in {"assign", "unassign"}
           /\ Inverse(c, p).op \in {"status"} => ValueOf(Inverse(c, p)) = p[c.task].status
           /\ Inverse(c, p).op \in {"progress"} => ValueOf(Inverse(c, p)) = p[c.task].progress
           /\ Inverse(c, p).op \in {"assign", "unassign"} => ValueOf(Inverse(c, p)) = p[c.task].units
<1>1. c.task \in Tasks /\ p[c.task] \in TaskRow
    BY DEF Commands, Plans
<1>2. CASE c.op = "status"
    BY <1>1, <1>2 DEF Inverse, ValueOf
<1>3. CASE c.op = "progress"
    <2>1. Inverse(c, p) = [op |-> "progress", task |-> c.task, percent |-> p[c.task].progress]
        BY <1>3 DEF Inverse
    <2>2. p[c.task].progress \in 0..100
        BY <1>1 DEF TaskRow
    <2>3. Clamp(p[c.task].progress) = p[c.task].progress
        BY <2>2 DEF Clamp
    <2> QED BY <1>3, <2>1, <2>3 DEF ValueOf
<1>4. CASE c.op \in {"assign", "unassign"} /\ p[c.task].units = 0
    BY <1>1, <1>4 DEF Inverse, ValueOf
<1>5. CASE c.op \in {"assign", "unassign"} /\ p[c.task].units # 0
    BY <1>1, <1>5 DEF Inverse, ValueOf
<1> QED BY <1>2, <1>3, <1>4, <1>5 DEF Commands

\* So compensating commands touch the fields that the batch touched, and give
\* them their values from before it.
LEMMA CompensationsGive ==
    ASSUME NEW before \in Plans, NEW cmds \in Seq(Commands), NEW undo,
           undo = Compensations(cmds, before), undo # << >>, NEW t \in Tasks
    PROVE  /\ \A ops \in {{"status"}, {"progress"}, {"assign", "unassign"}} :
                Touches(cmds, t, ops) => Touches(undo, t, ops)
           /\ ~Touches(cmds, t, {"archive"}) /\ ~Touches(undo, t, {"archive"})
           /\ AllGive(undo, t, {"status"}, before[t].status)
           /\ AllGive(undo, t, {"progress"}, before[t].progress)
           /\ AllGive(undo, t, {"assign", "unassign"}, before[t].units)
           /\ (\A i \in 1..Len(undo) : undo[i].op # "status")
                => \A i \in 1..Len(cmds) : cmds[i].op # "status"
<1> DEFINE n == Len(cmds)
<1>1. /\ n \in Nat /\ Len(undo) = n
      /\ \A i \in 1..n : /\ cmds[i] \in Commands /\ cmds[i].op # "archive"
                         /\ n + 1 - i \in 1..n /\ undo[i] = Inverse(cmds[n + 1 - i], before)
    BY CompensationsOf
<1> HIDE DEF n
<1>2. ASSUME NEW i \in 1..n
      PROVE  LET c == cmds[n + 1 - i]
                 u == undo[i]
             IN  /\ u.task = c.task
                 /\ u.op # "archive"
                 /\ u.op \in {"status"} <=> c.op \in {"status"}
                 /\ u.op \in {"progress"} <=> c.op \in {"progress"}
                 /\ u.op \in {"assign", "unassign"} <=> c.op \in {"assign", "unassign"}
                 /\ u.op \in {"status"} => ValueOf(u) = before[c.task].status
                 /\ u.op \in {"progress"} => ValueOf(u) = before[c.task].progress
                 /\ u.op \in {"assign", "unassign"} => ValueOf(u) = before[c.task].units
    <2> DEFINE c == cmds[n + 1 - i]
    <2>1. c \in Commands /\ c.op # "archive" /\ undo[i] = Inverse(c, before)
        BY <1>1
    <2> HIDE DEF c
    <2>2. /\ Inverse(c, before).task = c.task
          /\ Inverse(c, before).op # "archive"
          /\ Inverse(c, before).op \in {"status"} <=> c.op \in {"status"}
          /\ Inverse(c, before).op \in {"progress"} <=> c.op \in {"progress"}
          /\ Inverse(c, before).op \in {"assign", "unassign"} <=> c.op \in {"assign", "unassign"}
          /\ Inverse(c, before).op \in {"status"} =>
                ValueOf(Inverse(c, before)) = before[c.task].status
          /\ Inverse(c, before).op \in {"progress"} =>
                ValueOf(Inverse(c, before)) = before[c.task].progress
          /\ Inverse(c, before).op \in {"assign", "unassign"} =>
                ValueOf(Inverse(c, before)) = before[c.task].units
        BY <2>1, InverseFields
    <2> QED BY <2>1, <2>2 DEF c
<1>3. ASSUME NEW i \in 1..n PROVE n + 1 - i \in 1..n /\ n + 1 - (n + 1 - i) = i
    BY <1>1
<1>4. ASSUME NEW ops \in {{"status"}, {"progress"}, {"assign", "unassign"}}, Touches(cmds, t, ops)
      PROVE  Touches(undo, t, ops)
    <2>1. PICK i \in 1..n : cmds[i].op \in ops /\ cmds[i].task = t
        BY <1>4 DEF Touches, n
    <2>2. n + 1 - i \in 1..n /\ n + 1 - (n + 1 - i) = i
        BY <1>3
    <2>3. undo[n + 1 - i].op \in ops /\ undo[n + 1 - i].task = t
        BY <1>2, <2>1, <2>2
    <2> QED BY <1>1, <2>2, <2>3 DEF Touches
<1>5. ~Touches(cmds, t, {"archive"}) /\ ~Touches(undo, t, {"archive"})
    BY <1>1, <1>2 DEF Touches, n
<1>6. ASSUME NEW i \in 1..n, undo[i].task = t
      PROVE  /\ undo[i].op \in {"status"} => ValueOf(undo[i]) = before[t].status
             /\ undo[i].op \in {"progress"} => ValueOf(undo[i]) = before[t].progress
             /\ undo[i].op \in {"assign", "unassign"} => ValueOf(undo[i]) = before[t].units
    BY <1>2, <1>6
<1>7. ASSUME \A i \in 1..Len(undo) : undo[i].op # "status", NEW i \in 1..n
      PROVE  cmds[i].op # "status"
    BY <1>1, <1>2, <1>3, <1>7
<1> QED BY <1>1, <1>4, <1>5, <1>6, <1>7 DEF n, AllGive

\* A batch followed by its compensating commands restores the fields that
\* commands name, whatever the order in which the batch wrote them and however
\* often, and also the progress when no status command derived it.
LEMMA CompensationsUndo ==
    ASSUME NEW before \in Plans, NEW cmds \in Seq(Commands), NEW undo,
           undo = Compensations(cmds, before), undo # << >>,
           NEW mid, Stores(before, cmds, mid),
           NEW after, Stores(mid, undo, after)
    PROVE  /\ NamedFields(after) = NamedFields(before)
           /\ (\A i \in DOMAIN undo : undo[i].op # "status") => after = before
<1>1. undo \in Seq(Commands) /\ DOMAIN undo = 1..Len(undo)
    BY CompensationsType
<1>2. mid \in Plans /\ after \in Plans
    BY <1>1, StoredIsResult
<1>3. ASSUME NEW t \in Tasks, NEW ops, NEW v, ~Touches(cmds, t, ops) PROVE AllGive(cmds, t, ops, v)
    BY <1>3 DEF Touches, AllGive
<1>4. ASSUME NEW t \in Tasks, NEW ops, NEW v, ~Touches(undo, t, ops) PROVE AllGive(undo, t, ops, v)
    BY <1>4 DEF Touches, AllGive
<1>5. ASSUME NEW t \in Tasks PROVE after[t].status = before[t].status
    <2>1. after[t].status = IF Touches(undo, t, {"status"}) THEN before[t].status ELSE mid[t].status
        BY <1>1, <1>2, StatusAfter, CompensationsGive
    <2>2. ~Touches(cmds, t, {"status"}) => mid[t].status = before[t].status
        BY <1>3, StatusAfter
    <2> QED BY <2>1, <2>2, CompensationsGive
<1>6. ASSUME NEW t \in Tasks PROVE after[t].units = before[t].units
    <2>1. after[t].units =
            IF Touches(undo, t, {"assign", "unassign"}) THEN before[t].units ELSE mid[t].units
        BY <1>1, <1>2, UnitsAfter, CompensationsGive
    <2>2. ~Touches(cmds, t, {"assign", "unassign"}) => mid[t].units = before[t].units
        BY <1>3, UnitsAfter
    <2> QED BY <2>1, <2>2, CompensationsGive
<1>7. ASSUME NEW t \in Tasks PROVE after[t].archived = before[t].archived
    <2>1. ~Touches(cmds, t, {"archive"}) /\ ~Touches(undo, t, {"archive"})
        BY CompensationsGive
    <2>2. mid[t].archived = before[t].archived
        BY <1>3, <2>1, ArchivedAfter
    <2>3. after[t].archived = mid[t].archived
        BY <1>1, <1>2, <1>4, <2>1, ArchivedAfter
    <2> QED BY <2>2, <2>3
<1>8. ASSUME NEW t \in Tasks, \A i \in 1..Len(undo) : undo[i].op # "status"
      PROVE  after[t].progress = before[t].progress
    <2>1. after[t].progress =
            IF Touches(undo, t, {"progress"}) THEN before[t].progress ELSE mid[t].progress
        BY <1>1, <1>2, <1>8, ProgressAfter, CompensationsGive
    <2>2. \A i \in 1..Len(cmds) : cmds[i].op # "status"
        BY <1>8, CompensationsGive
    <2>3. ~Touches(cmds, t, {"progress"}) => mid[t].progress = before[t].progress
        BY <1>3, <2>2, ProgressAfter
    <2> QED BY <2>1, <2>3, CompensationsGive
<1>9. NamedFields(after) = NamedFields(before)
    BY <1>5, <1>6, <1>7 DEF NamedFields
<1>10. ASSUME \A i \in DOMAIN undo : undo[i].op # "status" PROVE after = before
    <2>1. ASSUME NEW t \in Tasks PROVE after[t] = before[t]
        <3>1. after[t] \in TaskRow /\ before[t] \in TaskRow
            BY <1>2 DEF Plans
        <3>2. after[t].progress = before[t].progress
            BY <1>1, <1>8, <1>10
        <3> QED BY <1>5, <1>6, <1>7, <3>1, <3>2 DEF TaskRow
    <2> QED BY <1>2, <2>1 DEF Plans
<1> QED BY <1>9, <1>10

\* Any batch can be stored, whatever its length.
LEMMA BatchStores ==
    ASSUME NEW p \in Plans, NEW cmds \in Seq(Commands)
    PROVE  Stores(p, cmds, Stored(p, cmds))
<1> DEFINE n == Len(cmds)
           T == {k \in 0..n : ~ \E f : StoredFrom(f, p, cmds, k)}
<1>1. n \in Nat /\ T \in SUBSET Nat
    OBVIOUS
<1>2. ASSUME T # {} PROVE FALSE
    <2>1. PICK m \in T : \A k \in T : m <= k
        <3> HIDE DEF T
        <3> QED BY <1>1, <1>2, Least
    <2>2. StoredFrom([k \in 0..0 |-> p], p, cmds, 0)
        BY DEF StoredFrom, StepsFrom
    <2>3. m \in 1..n /\ m - 1 \in Nat /\ m - 1 < n /\ m - 1 \in 0..n /\ m - 1 \notin T
        BY <1>1, <2>1, <2>2
    <2>4. PICK f : StoredFrom(f, p, cmds, m - 1)
        BY <2>3
    <2>5. \E g : StoredFrom(g, p, cmds, m - 1 + 1)
        BY <2>3, <2>4, StoredFromNext
    <2>6. m - 1 + 1 = m
        BY <2>3
    <2> QED BY <2>1, <2>5, <2>6
<1>3. n \in 0..n
    BY <1>1
<1>4. PICK f : StoredFrom(f, p, cmds, n)
    BY <1>2, <1>3
<1>5. Stored(p, cmds) = f[n]
    BY <1>4, StoredIsLast
<1> QED BY <1>4, <1>5 DEF Stores

\* Storing a batch and then its compensating commands restores the fields that
\* commands name, and all fields unless a status command has derived progress.
THEOREM CompensationsRestore ==
    ASSUME NEW before \in Plans, NEW cmds \in Seq(Commands), Compensations(cmds, before) # << >>
    PROVE  LET undo == Compensations(cmds, before)
               after == Stored(Stored(before, cmds), undo)
           IN  /\ NamedFields(after) = NamedFields(before)
               /\ (\A i \in DOMAIN undo : undo[i].op # "status") => after = before
<1> DEFINE undo == Compensations(cmds, before)
           mid == Stored(before, cmds)
           after == Stored(mid, undo)
<1>1. undo \in Seq(Commands)
    BY CompensationsType
<1>2. Stores(before, cmds, mid)
    BY BatchStores
<1>3. mid \in Plans
    BY <1>2, StoredIsResult
<1> HIDE DEF mid, undo
<1>4. Stores(mid, undo, after)
    BY <1>1, <1>3, BatchStores
<1> HIDE DEF after
<1>5. undo = Compensations(cmds, before) /\ undo # << >>
    BY DEF undo
<1>6. /\ NamedFields(after) = NamedFields(before)
      /\ (\A i \in DOMAIN undo : undo[i].op # "status") => after = before
    BY <1>2, <1>4, <1>5, CompensationsUndo
<1> QED BY <1>6 DEF after, mid, undo

-----------------------------------------------------------------------------
(* The preview.  It derives no progress and the repository does, so the    *)
(* plan a batch is checked on is not the plan that will be stored.         *)

\* f is the run of plans the preview of the first n commands sees.
PreviewedFrom(f, p, cmds, n) ==
    /\ f \in [0..n -> Plans]
    /\ f[0] = p
    /\ \A i \in 1..n : f[i] = Reduce(f[i - 1], cmds[i])

\* An allowed command changes the fields that commands name in the preview as
\* it does when it is stored.
LEMMA ReduceLikePersist ==
    ASSUME NEW p \in Plans, NEW q \in Plans, NamedFields(p) = NamedFields(q),
           NEW c \in Commands
    PROVE  /\ Allowed(p, c) <=> Allowed(q, c)
           /\ Reduce(p, c) \in Plans
           /\ Allowed(p, c) => NamedFields(Reduce(p, c)) = NamedFields(Persist(q, c))
<1>1. c.task \in Tasks /\ p \in [Tasks -> TaskRow] /\ q \in [Tasks -> TaskRow]
    BY DEF Commands, Plans
<1>2. ASSUME NEW t \in Tasks
      PROVE  /\ p[t].status = q[t].status
             /\ p[t].units = q[t].units
             /\ p[t].archived = q[t].archived
    <2>1. NamedFields(p)[t] = NamedFields(q)[t]
        OBVIOUS
    <2> QED BY <2>1 DEF NamedFields
<1>3. Allowed(p, c) <=> Allowed(q, c)
    BY <1>1, <1>2 DEF Allowed
<1> DEFINE x == IF c.op = "progress" THEN Clamp(c.percent) ELSE p[c.task].progress
           y == StoredProgress(q[c.task], c)
           r == Effect(p[c.task], c, x)
           w == Effect(q[c.task], c, y)
<1>4. x \in 0..100
    <2>1. p[c.task].progress \in 0..100
        BY <1>1 DEF TaskRow
    <2>2. c.op = "progress" => c.percent \in Int
        BY DEF Commands
    <2> QED BY <2>1, <2>2 DEF Clamp
<1>5. /\ c.op \in {"status", "progress", "assign", "unassign", "archive"}
      /\ c.op = "status" => c.status \in Statuses
      /\ c.op = "assign" => c.units \in 0..MaxUnits
    BY UnitsAssumption DEF Commands
<1> HIDE DEF x, y
<1>6. /\ r \in TaskRow
      /\ r.status = w.status /\ r.units = w.units /\ r.archived = w.archived
    <2>1. p[c.task] \in TaskRow /\ q[c.task] \in TaskRow
        BY <1>1
    <2>2. /\ p[c.task].status = q[c.task].status
          /\ p[c.task].units = q[c.task].units
          /\ p[c.task].archived = q[c.task].archived
        BY <1>1, <1>2
    <2>3. CASE c.op = "status"
        BY <1>4, <1>5, <2>1, <2>2, <2>3 DEF Effect, TaskRow
    <2>4. CASE c.op = "progress"
        BY <1>4, <1>5, <2>1, <2>2, <2>4 DEF Effect, TaskRow
    <2>5. CASE c.op = "assign"
        BY <1>4, <1>5, <2>1, <2>2, <2>5 DEF Effect, TaskRow
    <2>6. CASE c.op = "unassign"
        BY <1>4, <1>5, <2>1, <2>2, <2>6, UnitsAssumption DEF Effect, TaskRow
    <2>7. CASE c.op = "archive"
        BY <1>4, <1>5, <2>1, <2>2, <2>7 DEF Effect, TaskRow
    <2> QED BY <1>5, <2>3, <2>4, <2>5, <2>6, <2>7
<1>7. Allowed(p, c) => Reduce(p, c) = [p EXCEPT ![c.task] = r]
    BY DEF Reduce, x
<1>8. ~Allowed(p, c) => Reduce(p, c) = p
    BY DEF Reduce
<1>9. Persist(q, c) = [q EXCEPT ![c.task] = w]
    BY DEF Persist, y
<1> HIDE DEF r, w
<1>10. Reduce(p, c) \in Plans
    BY <1>1, <1>6, <1>7, <1>8 DEF Plans
<1>11. ASSUME Allowed(p, c) PROVE NamedFields(Reduce(p, c)) = NamedFields(Persist(q, c))
    <2>1. ASSUME NEW t \in Tasks
          PROVE  /\ Reduce(p, c)[t].status = Persist(q, c)[t].status
                 /\ Reduce(p, c)[t].units = Persist(q, c)[t].units
                 /\ Reduce(p, c)[t].archived = Persist(q, c)[t].archived
        BY <1>1, <1>2, <1>6, <1>7, <1>9, <1>11
    <2> QED BY <2>1 DEF NamedFields
<1> QED BY <1>3, <1>10, <1>11

\* Any batch can be previewed.
LEMMA PreviewExists ==
    ASSUME NEW p \in Plans, NEW cmds \in Seq(Commands)
    PROVE  \E f : PreviewedFrom(f, p, cmds, Len(cmds))
<1> DEFINE n == Len(cmds)
           T == {k \in 0..n : ~ \E f : PreviewedFrom(f, p, cmds, k)}
<1>1. n \in Nat /\ T \in SUBSET Nat
    OBVIOUS
<1>2. ASSUME T # {} PROVE FALSE
    <2>1. PICK m \in T : \A k \in T : m <= k
        <3> HIDE DEF T
        <3> QED BY <1>1, <1>2, Least
    <2>2. PreviewedFrom([k \in 0..0 |-> p], p, cmds, 0)
        BY DEF PreviewedFrom
    <2>3. m \in 1..n /\ m - 1 \in 0..n /\ m - 1 \notin T
        BY <1>1, <2>1, <2>2
    <2>4. PICK f : PreviewedFrom(f, p, cmds, m - 1)
        BY <2>3
    <2> DEFINE last == Reduce(f[m - 1], cmds[m])
               g == [k \in 0..m |-> IF k = m THEN last ELSE f[k]]
    <2>5. f[m - 1] \in Plans /\ cmds[m] \in Commands
        BY <2>3, <2>4 DEF PreviewedFrom
    <2>6. last \in Plans
        BY <2>5, ReduceLikePersist
    <2> HIDE DEF last
    <2>7. g \in [0..m -> Plans] /\ g[0] = p
        BY <2>3, <2>4, <2>6 DEF PreviewedFrom
    <2>8. ASSUME NEW i \in 1..m PROVE g[i] = Reduce(g[i - 1], cmds[i])
        <3>1. CASE i = m
            BY <2>3, <3>1 DEF last
        <3>2. CASE i # m
            <4>1. i \in 1..(m - 1)
                BY <2>3, <3>2
            <4>2. f[i] = Reduce(f[i - 1], cmds[i])
                BY <2>4, <4>1 DEF PreviewedFrom
            <4> QED BY <2>3, <4>1, <4>2
        <3> QED BY <3>1, <3>2
    <2> HIDE DEF g
    <2>9. PreviewedFrom(g, p, cmds, m)
        BY <2>7, <2>8 DEF PreviewedFrom
    <2> QED BY <2>1, <2>9
<1>3. n \in 0..n
    BY <1>1
<1> QED BY <1>2, <1>3

\* What the preview does not block it allows command by command.
LEMMA PreviewAllows ==
    ASSUME NEW p \in Plans, NEW cmds \in Seq(Commands), ~Blocked(p, cmds),
           NEW f, PreviewedFrom(f, p, cmds, Len(cmds))
    PROVE  \A i \in 1..Len(cmds) : Allowed(f[i - 1], cmds[i])
<1> DEFINE n == Len(cmds)
           F(g) == [i \in 0..n |-> IF i = 0 THEN p ELSE Reduce(g[i - 1], cmds[i])]
           seen == CHOOSE g : g = F(g)
           T == {k \in 0..n : f[k] # seen[k]}
<1>1. n \in Nat
    OBVIOUS
<1>2. f = F(f)
    BY <1>1 DEF PreviewedFrom
<1>3. seen = F(seen)
    BY <1>2
<1>4. \A i \in 1..n : Allowed(seen[i - 1], cmds[i])
    BY DEF Blocked
<1> HIDE DEF seen
<1>5. /\ f[0] = seen[0]
      /\ \A i \in 1..n : f[i] = Reduce(f[i - 1], cmds[i]) /\ seen[i] = Reduce(seen[i - 1], cmds[i])
    BY <1>1, <1>3 DEF PreviewedFrom
<1> HIDE DEF n, F
<1>6. ASSUME T # {} PROVE FALSE
    <2>1. T \in SUBSET Nat
        BY <1>1
    <2>2. PICK m \in T : \A k \in T : m <= k
        <3> HIDE DEF T
        <3> QED BY <1>6, <2>1, Least
    <2>3. m \in 1..n /\ m - 1 \in 0..n /\ m - 1 \notin T
        BY <1>1, <1>5, <2>2
    <2>4. f[m - 1] = seen[m - 1]
        BY <2>3
    <2> QED BY <1>5, <2>2, <2>3, <2>4
<1>7. \A i \in 1..n : i - 1 \in 0..n /\ f[i - 1] = seen[i - 1]
    BY <1>1, <1>6
<1>8. \A i \in 1..n : Allowed(f[i - 1], cmds[i])
    BY <1>4, <1>7
<1> QED BY <1>8 DEF n

\* A batch that the preview does not block is stored without a command that is
\* not allowed on the rows it meets, though no statement of the repository
\* looks at them, and leaves the fields the preview has shown.
THEOREM PreviewIsStored ==
    ASSUME NEW p \in Plans, NEW cmds \in Seq(Commands), ~Blocked(p, cmds),
           NEW stored, StoredFrom(stored, p, cmds, Len(cmds)),
           NEW shown, PreviewedFrom(shown, p, cmds, Len(cmds))
    PROVE  /\ \A i \in 1..Len(cmds) : Allowed(stored[i - 1], cmds[i])
           /\ NamedFields(stored[Len(cmds)]) = NamedFields(shown[Len(cmds)])
<1> DEFINE n == Len(cmds)
           Same(k) == NamedFields(shown[k]) = NamedFields(stored[k])
           T == {k \in 0..n : ~ Same(k)}
<1>1. n \in Nat /\ \A i \in 1..n : cmds[i] \in Commands /\ i - 1 \in 0..n
    OBVIOUS
<1>2. \A i \in 1..n : Allowed(shown[i - 1], cmds[i])
    BY PreviewAllows
<1>3. /\ \A k \in 0..n : shown[k] \in Plans /\ stored[k] \in Plans
      /\ shown[0] = stored[0]
      /\ \A i \in 1..n : /\ shown[i] = Reduce(shown[i - 1], cmds[i])
                         /\ stored[i] = Persist(stored[i - 1], cmds[i])
    BY DEF PreviewedFrom, StoredFrom, StepsFrom
<1> HIDE DEF n
<1>4. ASSUME NEW i \in 1..n, Same(i - 1)
      PROVE  Same(i) /\ Allowed(stored[i - 1], cmds[i])
    <2>1. shown[i - 1] \in Plans /\ stored[i - 1] \in Plans /\ cmds[i] \in Commands
        BY <1>1, <1>3
    <2>2. Allowed(shown[i - 1], cmds[i])
        BY <1>2
    <2>3. /\ Allowed(shown[i - 1], cmds[i]) <=> Allowed(stored[i - 1], cmds[i])
          /\ NamedFields(Reduce(shown[i - 1], cmds[i])) = NamedFields(Persist(stored[i - 1], cmds[i]))
        BY <1>4, <2>1, <2>2, ReduceLikePersist
    <2> QED BY <1>3, <2>2, <2>3
<1>5. Same(0)
    BY <1>3
<1> HIDE DEF Same
<1>6. ASSUME T # {} PROVE FALSE
    <2>1. T \in SUBSET Nat
        BY <1>1
    <2>2. PICK m \in T : \A k \in T : m <= k
        <3> HIDE DEF T
        <3> QED BY <1>6, <2>1, Least
    <2>3. m \in 1..n /\ m - 1 \in 0..n /\ m - 1 \notin T
        BY <1>1, <1>5, <2>2
    <2> QED BY <1>4, <2>2, <2>3
<1>7. \A k \in 0..n : Same(k)
    BY <1>6
<1>8. n \in 0..n
    BY <1>1
<1>9. \A i \in 1..n : Allowed(stored[i - 1], cmds[i])
    BY <1>1, <1>4, <1>7
<1> QED BY <1>7, <1>8, <1>9 DEF Same, n

-----------------------------------------------------------------------------
(* Steps                                                                   *)

\* Only a commit changes the plan, its version, its history or the commits of
\* the audit log.
LEMMA CommitOrSame ==
    ASSUME IType, [Next]_vars
    PROVE  \/ \E s \in Slots : Commit(s)
           \/ SameCommits /\ UNCHANGED <<plan, planVersion, history>>
<1>0. audit \in Seq(Event)
    BY DEF IType, TypeOK
<1>1. ASSUME NEW s \in Slots, Refuse(s)
      PROVE  SameCommits /\ UNCHANGED <<plan, planVersion, history>>
    <2>1. /\ RefusalEvent(env[s], Verdict(env[s])) \in Event
          /\ RefusalEvent(env[s], Verdict(env[s])).version = 0
        BY <1>1 DEF Refuse, RefusalEvent, Event, IType, TypeOK
    <2>2. audit' = audit \/ \E event \in Event : event.version = 0 /\ audit' = Append(audit, event)
        BY <1>1, <2>1 DEF Refuse
    <2>3. SameCommits
        BY <1>0, <2>2, UnversionedEvent
    <2> QED BY <1>1, <2>3 DEF Refuse
<1>2. ASSUME NEW s \in Slots, CommitRejection(s) \/ InsertRun(s)
      PROVE  SameCommits /\ UNCHANGED <<plan, planVersion, history>>
    <2> DEFINE event == [env |-> env[s], status |-> "succeeded", version |-> 0,
                         cmds |-> << >>, undo |-> << >>]
    <2>1. event \in Event /\ event.version = 0 /\ audit' = Append(audit, event)
        BY <1>2 DEF CommitRejection, InsertRun, Event, IType, TypeOK
    <2>2. SameCommits
        BY <1>0, <2>1, UnversionedEvent
    <2> QED BY <1>2, <2>2 DEF CommitRejection, InsertRun
<1>3. ASSUME UNCHANGED <<audit, plan, planVersion, history>>
      PROVE  SameCommits /\ UNCHANGED <<plan, planVersion, history>>
    BY <1>0, <1>3, UnversionedEvent
<1>4. ASSUME NEW s \in Slots,
             \/ Send(s) \/ Crash(s) \/ Acquire(s) \/ Replay(s) \/ Accept(s)
             \/ WriteNext(s) \/ Increment(s) \/ Respond(s) \/ ReadForRun(s)
      PROVE  UNCHANGED <<audit, plan, planVersion, history>>
    BY <1>4 DEF Send, Crash, Acquire, Replay, Accept, WriteNext, Increment, Respond,
                ReadForRun, rows
<1>5. ASSUME NEW r \in Runs, Expire(r) PROVE UNCHANGED <<audit, plan, planVersion, history>>
    BY <1>5 DEF Expire
<1>6. ASSUME NEW S \in SUBSET Runs, Purge(S) PROVE UNCHANGED <<audit, plan, planVersion, history>>
    BY <1>6 DEF Purge
<1>7. CASE UNCHANGED vars
    BY <1>3, <1>7 DEF vars
<1> QED BY <1>1, <1>2, <1>3, <1>4, <1>5, <1>6, <1>7 DEF Next, Step

\* While a request is writing nobody commits: it has just been accepted, has
\* stored its next command, has incremented the version, or has not moved.
LEMMA WritingStep ==
    ASSUME IType, ILock, [Next]_vars, NEW s \in Slots, pc'[s] \in {"writing", "written"}
    PROVE  /\ SameCommits /\ UNCHANGED <<plan, planVersion>>
           /\ env'[s] = env[s]
           /\ \/ Accept(s)
              \/ WriteNext(s)
              \/ Increment(s)
              \/ pc[s] = pc'[s] /\ tx'[s] = tx[s]
<1>0. /\ pc \in [Slots -> {"idle", "waiting", "locked", "writing", "written",
                             "proposing", "committed", "done"}]
      /\ tx \in [Slots -> Tx]
      /\ env \in [Slots -> Envelopes \cup {NoEnvelope}]
    BY DEF IType, TypeOK
<1>1. ASSUME NEW s2 \in Slots PROVE ~Commit(s2)
    BY <1>0 DEF Commit, EndTransaction, ILock
<1>2. SameCommits /\ UNCHANGED <<plan, planVersion>>
    BY <1>1, CommitOrSame
<1> DEFINE Goal == /\ env'[s] = env[s]
                   /\ \/ Accept(s)
                      \/ WriteNext(s)
                      \/ Increment(s)
                      \/ pc[s] = pc'[s] /\ tx'[s] = tx[s]
<1>3. ASSUME NEW s2 \in Slots, Send(s2) PROVE Goal
    BY <1>0, <1>3 DEF Send
<1>4. ASSUME NEW s2 \in Slots, Crash(s2) \/ Acquire(s2) \/ Respond(s2) \/ ReadForRun(s2)
      PROVE  Goal
    BY <1>0, <1>4 DEF Crash, Acquire, Respond, ReadForRun
<1>5. ASSUME NEW s2 \in Slots, Replay(s2) \/ Refuse(s2) \/ CommitRejection(s2) \/ InsertRun(s2)
      PROVE  Goal
    <2>1. /\ UNCHANGED <<env, tx>>
          /\ \E outcome, version : EndTransaction(s2, outcome, version)
        BY <1>5 DEF Replay, Refuse, CommitRejection, InsertRun
    <2> QED BY <1>0, <2>1 DEF EndTransaction
<1>6. ASSUME NEW s2 \in Slots, Accept(s2) PROVE Goal
    BY <1>0, <1>6 DEF Accept
<1>7. ASSUME NEW s2 \in Slots, WriteNext(s2) PROVE Goal
    BY <1>0, <1>7 DEF WriteNext
<1>8. ASSUME NEW s2 \in Slots, Increment(s2) PROVE Goal
    BY <1>0, <1>8 DEF Increment
<1>9. ASSUME NEW r \in Runs, Expire(r) PROVE Goal
    BY <1>9 DEF Expire
<1>10. ASSUME NEW S \in SUBSET Runs, Purge(S) PROVE Goal
    BY <1>10 DEF Purge
<1>11. ASSUME UNCHANGED vars PROVE Goal
    <2>1. UNCHANGED <<pc, env, tx>>
        BY <1>11 DEF vars
    <2> QED BY <2>1
<1> QED BY <1>1, <1>2, <1>3, <1>4, <1>5, <1>6, <1>7, <1>8, <1>9, <1>10, <1>11 DEF Next, Step

-----------------------------------------------------------------------------
(* What is being written                                                   *)

\* A transaction's draft is the committed plan with the commands stored that
\* it has got to; it increments the version after the last one.
IDraft ==
    \A s \in Slots : pc[s] \in {"writing", "written"} =>
        /\ tx[s].next - 1 <= Len(tx[s].cmds)
        /\ pc[s] = "written" => tx[s].next - 1 = Len(tx[s].cmds)
        /\ \E f : /\ StoredFrom(f, plan, tx[s].cmds, tx[s].next - 1)
                  /\ tx[s].draft = f[tx[s].next - 1]

\* The committed plan cannot change under a transaction that holds the lock.
LEMMA NextDraft == IType /\ ILock /\ IDraft /\ [Next]_vars => IDraft'
<1> SUFFICES ASSUME IType, ILock, IDraft, [Next]_vars,
                    NEW s \in Slots, pc'[s] \in {"writing", "written"}
             PROVE  /\ tx'[s].next - 1 <= Len(tx'[s].cmds)
                    /\ pc'[s] = "written" => tx'[s].next - 1 = Len(tx'[s].cmds)
                    /\ \E f : /\ StoredFrom(f, plan', tx'[s].cmds, tx'[s].next - 1)
                              /\ tx'[s].draft = f[tx'[s].next - 1]
    BY DEF IDraft
<1>1. UNCHANGED <<plan, planVersion>> /\ env'[s] = env[s]
    BY WritingStep
<1>2. pc \in [Slots -> {"idle", "waiting", "locked", "writing", "written",
                          "proposing", "committed", "done"}]
      /\ tx \in [Slots -> Tx] /\ tx[s] \in Tx /\ plan \in Plans
    BY DEF IType, TypeOK
<1>3. /\ tx[s].next \in Nat \ {0} /\ tx[s].cmds \in Seq(Commands)
      /\ Len(tx[s].cmds) \in Nat
    BY <1>2 DEF Tx
<1>4. CASE Accept(s)
    <2>1. /\ tx'[s].next = 1 /\ tx'[s].draft = plan /\ tx'[s].cmds = CommandsOf(env[s])
          /\ pc'[s] = "writing"
        BY <1>2, <1>4 DEF Accept
    <2>2. CommandsOf(env[s]) \in Seq(Commands)
        BY <1>4, CommandsOfType DEF Accept, IType
    <2> DEFINE f == [k \in 0..0 |-> plan]
    <2>3. StoredFrom(f, plan, tx'[s].cmds, 0) /\ f[0] = plan
        BY <1>2 DEF StoredFrom, StepsFrom
    <2>4. tx'[s].next - 1 = 0 /\ Len(tx'[s].cmds) \in Nat
        BY <2>1, <2>2
    <2> HIDE DEF f
    <2> QED BY <1>1, <2>1, <2>3, <2>4
<1>5. CASE WriteNext(s)
    <2> DEFINE n == tx[s].next - 1
    <2>1. PICK f : StoredFrom(f, plan, tx[s].cmds, n) /\ tx[s].draft = f[n]
        BY <1>5 DEF WriteNext, IDraft
    <2>2. n \in Nat /\ n < Len(tx[s].cmds) /\ tx[s].next = n + 1
        <3>1. tx[s].next <= Len(tx[s].cmds)
            BY <1>5 DEF WriteNext
        <3> QED BY <1>3, <3>1
    <2>3. /\ tx'[s].next = n + 2 /\ tx'[s].cmds = tx[s].cmds
          /\ tx'[s].draft = Persist(tx[s].draft, tx[s].cmds[n + 1])
          /\ pc'[s] = "writing"
        BY <1>2, <1>3, <1>5, <2>2 DEF WriteNext, Tx
    <2> HIDE DEF n
    <2>4. PICK g : StoredFrom(g, plan, tx[s].cmds, n + 1) /\ g[n + 1] = Persist(f[n], tx[s].cmds[n + 1])
        BY <1>3, <2>1, <2>2, StoredFromNext
    <2>5. tx'[s].next - 1 = n + 1
        BY <2>2, <2>3
    <2> QED BY <1>1, <1>3, <2>1, <2>2, <2>3, <2>4, <2>5
<1>6. CASE Increment(s)
    <2>1. /\ tx'[s].next = tx[s].next /\ tx'[s].cmds = tx[s].cmds /\ tx'[s].draft = tx[s].draft
          /\ pc[s] = "writing" /\ tx[s].next > Len(tx[s].cmds)
        BY <1>2, <1>6 DEF Increment, Tx
    <2>2. tx[s].next - 1 = Len(tx[s].cmds)
        BY <1>3, <2>1 DEF IDraft
    <2> QED BY <1>1, <1>3, <2>1, <2>2 DEF IDraft
<1>7. CASE pc[s] = pc'[s] /\ tx'[s] = tx[s]
    BY <1>1, <1>7 DEF IDraft
<1> QED BY <1>4, <1>5, <1>6, <1>7, WritingStep

\* So what a commit stores is the plan it found with all its commands stored.
LEMMA DraftInvariant == Spec => []IDraft
<1>1. Init => IDraft
    BY DEF Init, IDraft
<1> QED BY <1>1, TypeInvariant, LockInvariant, NextDraft, PTL DEF Spec

-----------------------------------------------------------------------------
(* The history                                                             *)

\* A revert in its transaction applies what the newest commit has left in the
\* audit log to undo it.
IReverting ==
    \A s \in Slots : pc[s] \in {"writing", "written"} /\ env[s].kind = "revert" =>
        /\ env[s].target \in DOMAIN audit
        /\ audit[env[s].target].version = planVersion
        /\ tx[s].cmds = audit[env[s].target].undo
        /\ tx[s].cmds # << >>

\* history has one plan for each version, the last one is the committed plan.
\* A commit is its batch stored on the plan of the version before; what it
\* offers to undo it was computed from that plan, and a revert is the undoing
\* of the version before.
IHistory ==
    /\ Len(history) = planVersion
    /\ history[planVersion] = plan
    /\ \A i \in Commits :
        LET v == audit[i].version
            target == audit[i].env.target
        IN  /\ Stores(history[v - 1], audit[i].cmds, history[v])
            /\ audit[i].undo # << >>
                => audit[i].undo = Compensations(audit[i].cmds, history[v - 1])
            /\ audit[i].env.kind = "revert" =>
                /\ target \in DOMAIN audit
                /\ audit[target].version = v - 1
                /\ audit[i].cmds = audit[target].undo
                /\ audit[i].cmds # << >>

\* A revert is accepted only for the newest commit, and stays the newest's.
LEMMA NextReverting == IType /\ ILock /\ IReverting /\ [Next]_vars => IReverting'
<1> SUFFICES ASSUME IType, ILock, IReverting, [Next]_vars,
                    NEW s \in Slots, pc'[s] \in {"writing", "written"}, env'[s].kind = "revert"
             PROVE  /\ env'[s].target \in DOMAIN audit'
                    /\ audit'[env'[s].target].version = planVersion'
                    /\ tx'[s].cmds = audit'[env'[s].target].undo
                    /\ tx'[s].cmds # << >>
    BY DEF IReverting
<1> DEFINE target == env[s].target
<1>1. /\ SameCommits /\ planVersion' = planVersion /\ env'[s] = env[s]
    BY WritingStep
<1>2. tx \in [Slots -> Tx]
      /\ pc \in [Slots -> {"idle", "waiting", "locked", "writing", "written",
                             "proposing", "committed", "done"}]
    BY DEF IType, TypeOK
<1>3. SUFFICES /\ target \in DOMAIN audit
               /\ audit[target].version = planVersion
               /\ tx'[s].cmds = audit[target].undo
               /\ tx'[s].cmds # << >>
    BY <1>1 DEF SameCommits
<1>4. CASE Accept(s)
    <2>1. RevertVerdict(env[s]) = "accept"
        BY <1>1, <1>4 DEF Accept, Verdict
    <2>2. /\ target \in DOMAIN audit /\ Revertible(audit[target])
          /\ audit[target].version = planVersion
        BY <2>1 DEF RevertVerdict, IdempotencyVerdict
    <2>3. tx'[s].cmds = audit[target].undo
        BY <1>1, <1>2, <1>4 DEF Accept, CommandsOf
    <2> QED BY <2>2, <2>3 DEF Revertible
<1>5. CASE WriteNext(s)
    BY <1>1, <1>2, <1>5 DEF WriteNext, Tx, IReverting
<1>6. CASE Increment(s)
    BY <1>1, <1>2, <1>6 DEF Increment, Tx, IReverting
<1>7. CASE pc[s] = pc'[s] /\ tx'[s] = tx[s]
    BY <1>1, <1>7 DEF IReverting
<1> QED BY <1>4, <1>5, <1>6, <1>7, WritingStep

\* So a revert undoes the newest commit.
LEMMA RevertingInvariant == Spec => []IReverting
<1>1. Init => IReverting
    BY DEF Init, IReverting
<1> QED BY <1>1, TypeInvariant, LockInvariant, NextReverting, PTL DEF Spec

\* What a commit adds to the audit log and to the history.
LEMMA CommitEffect ==
    ASSUME IType, IFresh, IDraft, IReverting, IHistory, NEW s \in Slots, Commit(s)
    PROVE  LET n == Len(audit) + 1
           IN  /\ DOMAIN audit' = DOMAIN audit \cup {n} /\ n \notin DOMAIN audit
               /\ \A i \in DOMAIN audit : audit'[i] = audit[i]
               /\ audit'[n].version = planVersion + 1
               /\ Stores(plan, audit'[n].cmds, plan')
               /\ audit'[n].undo # << >> => audit'[n].undo = Compensations(audit'[n].cmds, plan)
               /\ audit'[n].env.kind = "revert" =>
                    /\ audit'[n].env.target \in DOMAIN audit
                    /\ audit[audit'[n].env.target].version = planVersion
                    /\ audit'[n].cmds = audit[audit'[n].env.target].undo
                    /\ audit'[n].cmds # << >>
               /\ planVersion' = planVersion + 1
               /\ Len(history') = planVersion + 1
               /\ \A v \in 1..planVersion : history'[v] = history[v]
               /\ history'[planVersion + 1] = plan'
<1> DEFINE n == Len(audit) + 1
<1>1. /\ audit \in Seq(Event) /\ history \in Seq(Plans) /\ tx[s] \in Tx /\ planVersion \in Nat
      /\ pc[s] = "written"
    BY DEF IType, TypeOK, Commit
<1>2. /\ CommitEvent(s) \in Event /\ audit' = Append(audit, CommitEvent(s))
      /\ history' = Append(history, tx[s].draft) /\ plan' = tx[s].draft
      /\ planVersion' = tx[s].version /\ tx[s].version = planVersion + 1
    BY CommitType DEF Commit, IType, IFresh
<1>3. /\ DOMAIN audit' = DOMAIN audit \cup {n} /\ n \notin DOMAIN audit
      /\ \A i \in DOMAIN audit : audit'[i] = audit[i]
      /\ audit'[n] = CommitEvent(s)
    BY <1>1, <1>2
<1>4. /\ CommitEvent(s).env = env[s] /\ CommitEvent(s).version = tx[s].version
      /\ CommitEvent(s).cmds = tx[s].cmds /\ CommitEvent(s).undo = UndoOf(env[s], tx[s].cmds)
    BY DEF CommitEvent
<1>5. Stores(plan, tx[s].cmds, plan')
    BY <1>1, <1>2 DEF IDraft, Stores
<1>6. UndoOf(env[s], tx[s].cmds) # << >>
        => UndoOf(env[s], tx[s].cmds) = Compensations(tx[s].cmds, plan)
    BY DEF UndoOf
<1>7. env[s].kind = "revert" => /\ env[s].target \in DOMAIN audit
                                /\ audit[env[s].target].version = planVersion
                                /\ tx[s].cmds = audit[env[s].target].undo
                                /\ tx[s].cmds # << >>
    BY <1>1 DEF IReverting
<1>8. /\ Len(history') = planVersion + 1
      /\ \A v \in 1..planVersion : history'[v] = history[v]
      /\ history'[planVersion + 1] = plan'
    <2>1. tx[s].draft \in Plans /\ Len(history) = planVersion
        BY <1>1 DEF Tx, IHistory
    <2> QED BY <1>1, <1>2, <2>1
<1> HIDE DEF n
<1> QED BY <1>2, <1>3, <1>4, <1>5, <1>6, <1>7, <1>8 DEF n

\* The history only grows, by one stored batch at a time.
LEMMA NextHistory ==
    IType /\ IFresh /\ OneCommitPerVersion /\ IDraft /\ IReverting /\ IHistory /\ [Next]_vars
        => IHistory'
<1> SUFFICES ASSUME IType, IFresh, OneCommitPerVersion, IDraft, IReverting, IHistory, [Next]_vars
             PROVE  IHistory'
    OBVIOUS
<1>1. planVersion \in Nat \ {0}
    BY DEF IType, TypeOK
<1>2. CASE SameCommits /\ UNCHANGED <<plan, planVersion, history>>
    BY <1>2 DEF SameCommits, IHistory
<1>3. ASSUME NEW s \in Slots, Commit(s) PROVE IHistory'
    <2> DEFINE n == Len(audit) + 1
    <2>1. /\ DOMAIN audit' = DOMAIN audit \cup {n} /\ n \notin DOMAIN audit
          /\ \A i \in DOMAIN audit : audit'[i] = audit[i]
          /\ audit'[n].version = planVersion + 1
          /\ Stores(plan, audit'[n].cmds, plan')
          /\ audit'[n].undo # << >> => audit'[n].undo = Compensations(audit'[n].cmds, plan)
          /\ audit'[n].env.kind = "revert" =>
               /\ audit'[n].env.target \in DOMAIN audit
               /\ audit[audit'[n].env.target].version = planVersion
               /\ audit'[n].cmds = audit[audit'[n].env.target].undo
               /\ audit'[n].cmds # << >>
          /\ planVersion' = planVersion + 1
          /\ Len(history') = planVersion + 1
          /\ \A v \in 1..planVersion : history'[v] = history[v]
          /\ history'[planVersion + 1] = plan'
        BY <1>3, CommitEffect
    <2> HIDE DEF n
    <2>2. ASSUME NEW i \in Commits'
          PROVE LET v == audit'[i].version
                    target == audit'[i].env.target
                IN  /\ Stores(history'[v - 1], audit'[i].cmds, history'[v])
                    /\ audit'[i].undo # << >>
                        => audit'[i].undo = Compensations(audit'[i].cmds, history'[v - 1])
                    /\ audit'[i].env.kind = "revert" =>
                        /\ target \in DOMAIN audit'
                        /\ audit'[target].version = v - 1
                        /\ audit'[i].cmds = audit'[target].undo
                        /\ audit'[i].cmds # << >>
        <3>1. CASE i = n
            <4>1. history'[planVersion] = plan /\ planVersion + 1 - 1 = planVersion
                BY <1>1, <2>1 DEF IHistory
            <4>2. audit'[n].version = planVersion + 1 /\ planVersion \in 1..planVersion
                BY <1>1, <2>1
            <4>3. audit'[n].version - 1 = planVersion
                BY <1>1, <4>2
            <4>4. /\ Stores(history'[audit'[n].version - 1], audit'[n].cmds, history'[audit'[n].version])
                  /\ audit'[n].undo # << >> => audit'[n].undo =
                        Compensations(audit'[n].cmds, history'[audit'[n].version - 1])
                BY <2>1, <4>1, <4>2, <4>3
            <4>5. audit'[n].env.kind = "revert" =>
                    /\ audit'[n].env.target \in DOMAIN audit'
                    /\ audit'[audit'[n].env.target] = audit[audit'[n].env.target]
                BY <2>1
            <4> QED BY <2>1, <3>1, <4>3, <4>4, <4>5
        <3>2. CASE i # n
            <4>1. i \in Commits /\ audit'[i] = audit[i]
                BY <2>1, <3>2 DEF Commits, Committed
            <4>2. audit[i].version \in 1..planVersion /\ audit[i].version - 1 \in 1..planVersion
                BY <1>1, <4>1 DEF OneCommitPerVersion, Commits, Committed
            <4>3. /\ history'[audit[i].version] = history[audit[i].version]
                  /\ history'[audit[i].version - 1] = history[audit[i].version - 1]
                BY <2>1, <4>2
            <4> QED BY <2>1, <4>1, <4>3 DEF IHistory
        <3> QED BY <3>1, <3>2
    <2> QED BY <2>1, <2>2 DEF IHistory
<1> QED BY <1>2, <1>3, CommitOrSame

\* So the history is the one that the audit log tells.
LEMMA HistoryInvariant == Spec => []IHistory
<1>1. Init => IHistory
    BY InitialPlanAssumption DEF Init, IHistory, Commits
<1> QED BY <1>1, TypeInvariant, FreshInvariant, OneCommitPerVersionHolds, DraftInvariant,
           RevertingInvariant, NextHistory, PTL DEF Spec

\* A revert restores what the newest commit changed, for every batch that the
\* commit may have stored.
THEOREM RevertRestoresFieldsHolds == Spec => []RevertRestoresFields
<1>1. IType /\ OneCommitPerVersion /\ IHistory => RevertRestoresFields
    <2> SUFFICES ASSUME IType, OneCommitPerVersion, IHistory,
                        NEW i \in DOMAIN audit, IsRevert(audit[i])
                 PROVE  LET reverted == audit[audit[i].env.target]
                            before == history[reverted.version - 1]
                            after == history[audit[i].version]
                        IN  /\ reverted.version = audit[i].version - 1
                            /\ NamedFields(after) = NamedFields(before)
                            /\ (\A c \in DOMAIN audit[i].cmds : audit[i].cmds[c].op # "status")
                                    => after = before
        BY DEF RevertRestoresFields
    <2> DEFINE j == audit[i].env.target
               v == audit[i].version
    <2>1. i \in Commits /\ v \in Nat /\ v # 0
        <3>1. audit[i] \in Event
            BY DEF IType, TypeOK
        <3> QED BY <3>1 DEF IsRevert, Committed, Commits, Event
    <2>2. /\ Stores(history[v - 1], audit[i].cmds, history[v])
          /\ j \in DOMAIN audit /\ audit[j].version = v - 1
          /\ audit[i].cmds = audit[j].undo /\ audit[i].cmds # << >>
        BY <2>1 DEF IHistory, IsRevert
    <2>3. v \in 2..planVersion /\ planVersion \in Nat
        BY <2>1 DEF OneCommitPerVersion, IType, TypeOK
    <2>4. j \in Commits /\ v - 1 \in 2..planVersion /\ v - 2 \in 1..planVersion /\ v - 1 - 1 = v - 2
        BY <2>2, <2>3 DEF OneCommitPerVersion, Commits, Committed
    <2>5. /\ Stores(history[v - 2], audit[j].cmds, history[v - 1])
          /\ audit[j].undo = Compensations(audit[j].cmds, history[v - 2])
        BY <2>2, <2>4 DEF IHistory
    <2>6. history[v - 2] \in Plans /\ audit[j].cmds \in Seq(Commands)
        <3>1. history \in Seq(Plans) /\ Len(history) = planVersion /\ audit \in Seq(Event)
            BY DEF IType, TypeOK, IHistory
        <3>2. audit[j] \in Event
            BY <2>2, <3>1
        <3>3. v - 2 \in DOMAIN history
            BY <2>3, <2>4, <3>1
        <3>4. history[v - 2] \in Plans
            BY <3>1, <3>3
        <3> QED BY <3>2, <3>4 DEF Event
    <2> HIDE DEF j, v
    <2>7. /\ NamedFields(history[v]) = NamedFields(history[v - 2])
          /\ (\A c \in DOMAIN audit[i].cmds : audit[i].cmds[c].op # "status")
                => history[v] = history[v - 2]
        BY <2>2, <2>5, <2>6, CompensationsUndo
    <2> QED BY <2>2, <2>4, <2>7 DEF j, v
<1> QED BY <1>1, TypeInvariant, OneCommitPerVersionHolds, HistoryInvariant, PTL

-----------------------------------------------------------------------------
(* Refinement                                                              *)

\* PlanHistory stores commands as the write path does.
LEMMA SameStored == \A p, cmds : Linear!Stored(p, cmds) = Stored(p, cmds)
<1>1. ASSUME NEW p, NEW c PROVE Linear!Persist(p, c) = Persist(p, c)
    BY DEF Linear!Persist, Persist, Linear!Effect, Effect, Linear!StoredProgress, StoredProgress,
           Linear!DerivedProgress, DerivedProgress, Linear!Clamp, Clamp, Linear!AtLeast, AtLeast
<1> QED BY <1>1 DEF Linear!Stored, Stored

\* An entry of the chain.
ChainEntry == [plan: Plans, cmds: Seq(Commands)]

\* The mapping is what it should be: entry v of the chain is the plan at
\* version v with the commands of the one commit that made it.
IChain ==
    /\ Chain \in Seq(ChainEntry)
    /\ Len(Chain) = planVersion
    /\ \A v \in 1..planVersion : Chain[v].plan = history[v]
    /\ Chain[1].cmds = << >>
    /\ \A i \in Commits : Chain[audit[i].version].cmds = audit[i].cmds

\* There is one commit of a version, so it is the one that CommitAt finds.
LEMMA CommitAtVersion ==
    ASSUME IType, OneCommitPerVersion, NEW i \in Commits
    PROVE  CommitAt(audit[i].version) = i
<1>1. i \in DOMAIN audit
    BY DEF Commits
<1> DEFINE j == CommitAt(audit[i].version)
<1>2. j \in DOMAIN audit /\ audit[j].version = audit[i].version
    BY <1>1 DEF CommitAt
<1>3. j \in Commits
    BY <1>2 DEF Commits, Committed
<1> HIDE DEF j
<1>4. i \in Nat /\ j \in Nat /\ audit[i].version \in Nat
    <2>1. audit \in Seq(Event) /\ audit[i] \in Event
        BY <1>1 DEF IType, TypeOK
    <2> QED BY <1>1, <1>2, <2>1 DEF Event
<1> QED BY <1>2, <1>3, <1>4 DEF OneCommitPerVersion, j

\* It follows from the invariants of the audit log and the history.
LEMMA ChainInvariant == Spec => []IChain
<1>1. IType /\ OneCommitPerVersion /\ IHistory => IChain
    <2> SUFFICES ASSUME IType, OneCommitPerVersion, IHistory PROVE IChain
        OBVIOUS
    <2>1. /\ planVersion \in Nat \ {0} /\ plan \in Plans /\ audit \in Seq(Event)
          /\ history \in Seq(Plans) /\ Len(history) = planVersion
        BY DEF IType, TypeOK, IHistory
    <2>2. ASSUME NEW v \in 1..planVersion
          PROVE  /\ Chain[v].plan = history[v]
                 /\ Chain[v].cmds = IF v = 1 THEN << >> ELSE audit[CommitAt(v)].cmds
                 /\ Chain[v] \in ChainEntry
        <3>1. /\ Chain[v].plan = history[v]
              /\ Chain[v].cmds = IF v = 1 THEN << >> ELSE audit[CommitAt(v)].cmds
              /\ Chain[v] = [plan |-> Chain[v].plan, cmds |-> Chain[v].cmds]
            BY <2>1 DEF Chain, IHistory
        <3>2. history[v] \in Plans
            BY <2>1
        <3>3. v # 1 => audit[CommitAt(v)].cmds \in Seq(Commands)
            <4>1. SUFFICES ASSUME v # 1 PROVE audit[CommitAt(v)].cmds \in Seq(Commands)
                OBVIOUS
            <4>2. v \in 2..planVersion
                BY <2>1, <4>1
            <4>3. CommitAt(v) \in DOMAIN audit
                BY <4>2 DEF OneCommitPerVersion, CommitAt
            <4>4. audit[CommitAt(v)] \in Event
                BY <2>1, <4>3
            <4> QED BY <4>4 DEF Event
        <3>4. << >> \in Seq(Commands)
            OBVIOUS
        <3> QED BY <3>1, <3>2, <3>3, <3>4 DEF ChainEntry
    <2>3. DOMAIN Chain = 1..planVersion
        BY DEF Chain
    <2>4. Chain = [v \in 1..planVersion |-> Chain[v]]
        BY <2>3 DEF Chain
    <2>5. Chain \in Seq(ChainEntry) /\ Len(Chain) = planVersion
        <3> HIDE DEF Chain
        <3>1. Chain \in [1..planVersion -> ChainEntry]
            BY <2>2, <2>4
        <3> QED BY <2>1, <3>1
    <2>6. ASSUME NEW i \in Commits PROVE Chain[audit[i].version].cmds = audit[i].cmds
        <3>1. audit[i].version \in 1..planVersion /\ audit[i].version # 1
            BY <2>1 DEF OneCommitPerVersion, Commits, Committed
        <3>2. CommitAt(audit[i].version) = i
            BY CommitAtVersion
        <3> QED BY <2>2, <3>1, <3>2
    <2>7. Chain[1].cmds = << >>
        BY <2>1, <2>2
    <2> QED BY <2>2, <2>5, <2>6, <2>7 DEF IChain
<1> QED BY <1>1, TypeInvariant, OneCommitPerVersionHolds, HistoryInvariant, PTL

\* A commit extends the chain by its whole batch; no other step changes it.
LEMMA StepExtends ==
    ASSUME IType, IFresh, OneCommitPerVersion, IDraft, IReverting, IHistory, IChain, IChain', [Next]_vars
    PROVE  Linear!Extend \/ UNCHANGED Chain
<1>1. /\ planVersion \in Nat \ {0} /\ plan \in Plans /\ audit \in Seq(Event)
    BY DEF IType, TypeOK
<1>2. ASSUME NEW v \in 2..planVersion PROVE \E i \in Commits : audit[i].version = v
    <2>1. PICK i \in DOMAIN audit : audit[i].version = v
        BY DEF OneCommitPerVersion
    <2> QED BY <1>1, <2>1 DEF Commits, Committed
<1>3. ASSUME planVersion' >= planVersion, planVersion' \in Nat,
             \A v \in 1..planVersion : history'[v] = history[v],
             \A i \in Commits : i \in Commits' /\ audit'[i] = audit[i],
             NEW v \in 1..planVersion
      PROVE  Chain'[v] = Chain[v]
    <2>1. v \in 1..planVersion'
        BY <1>1, <1>3
    <2>2. Chain'[v].plan = Chain[v].plan
        BY <1>3, <2>1 DEF IChain
    <2>3. Chain'[v].cmds = Chain[v].cmds
        <3>1. CASE v = 1
            BY <3>1 DEF IChain
        <3>2. CASE v # 1
            <4>1. v \in 2..planVersion
                BY <1>1, <3>2
            <4>2. PICK i \in Commits : audit[i].version = v
                BY <1>2, <4>1
            <4>3. i \in Commits' /\ audit'[i] = audit[i]
                BY <1>3, <4>2
            <4>4. Chain[v].cmds = audit[i].cmds
                BY <4>2 DEF IChain
            <4>5. Chain'[audit'[i].version].cmds = audit'[i].cmds
                BY <4>3 DEF IChain
            <4> QED BY <4>2, <4>3, <4>4, <4>5
        <3> QED BY <3>1, <3>2
    <2>4. /\ Chain[v] \in ChainEntry
          /\ Chain'[v] \in ChainEntry
        BY <1>3, <2>1 DEF IChain
    <2> QED BY <2>2, <2>3, <2>4 DEF ChainEntry
<1>4. CASE SameCommits /\ UNCHANGED <<plan, planVersion, history>>
    <2>1. \A v \in 1..planVersion : Chain'[v] = Chain[v]
        BY <1>1, <1>3, <1>4 DEF SameCommits
    <2>2. UNCHANGED Chain
        BY <1>1, <1>4, <2>1 DEF IChain
    <2> QED BY <2>2
<1>5. ASSUME NEW s \in Slots, Commit(s) PROVE Linear!Extend
    <2> DEFINE n == Len(audit) + 1
    <2>1. /\ DOMAIN audit' = DOMAIN audit \cup {n} /\ n \notin DOMAIN audit
          /\ \A i \in DOMAIN audit : audit'[i] = audit[i]
          /\ audit'[n].version = planVersion + 1
          /\ Stores(plan, audit'[n].cmds, plan')
          /\ planVersion' = planVersion + 1
          /\ \A v \in 1..planVersion : history'[v] = history[v]
          /\ history'[planVersion + 1] = plan'
        BY <1>5, CommitEffect
    <2>2. \A i \in Commits : i \in Commits' /\ audit'[i] = audit[i]
        BY <2>1 DEF Commits, Committed
    <2>3. \A v \in 1..planVersion : Chain'[v] = Chain[v]
        BY <1>1, <1>3, <2>1, <2>2
    <2> HIDE DEF n
    <2>4. n \in Commits'
        BY <1>1, <2>1 DEF Commits, Committed
    <2>5. Chain'[planVersion + 1].cmds = audit'[n].cmds
        BY <2>1, <2>4 DEF IChain
    <2>6. Chain'[planVersion + 1].plan = plan' /\ Chain[planVersion].plan = plan
        BY <1>1, <2>1 DEF IChain, IHistory
    <2>7. audit'[n].cmds \in Seq(Commands)
        <3>1. Chain'[planVersion + 1] \in ChainEntry
            BY <1>1, <2>1 DEF IChain
        <3> QED BY <2>5, <3>1 DEF ChainEntry
    <2>8. plan' = Linear!Stored(plan, audit'[n].cmds)
        BY <1>1, <2>1, <2>7, StoredIsResult, SameStored
    <2>9. Len(Chain) = planVersion /\ Len(Chain') = planVersion + 1
        BY <2>1 DEF IChain
    <2>10. SubSeq(Chain', 1, planVersion) = Chain
        BY <1>1, <2>3, <2>9 DEF IChain
    <2> QED BY <2>5, <2>6, <2>8, <2>9, <2>10 DEF Linear!Extend
<1> QED BY <1>4, <1>5, CommitOrSame

\* The write path implements one linear history of atomic batches.
THEOREM LinearHistoryHolds == Spec => LinearHistory
<1>1. Init => Linear!Init
    <2> SUFFICES ASSUME Init PROVE Linear!Init
        OBVIOUS
    <2>1. Chain = [v \in 1..1 |-> [plan |-> InitialPlan, cmds |-> << >>]]
        BY DEF Init, Chain
    <2>2. Chain = <<[plan |-> InitialPlan, cmds |-> << >>]>>
        BY <2>1
    <2> QED BY <2>2 DEF Linear!Init
<1>2. IType /\ IFresh /\ OneCommitPerVersion /\ IDraft /\ IReverting /\ IHistory /\ IChain /\ IChain'
        /\ [Next]_vars => [Linear!Extend]_Chain
    BY StepExtends
<1> QED BY <1>1, <1>2, TypeInvariant, FreshInvariant, OneCommitPerVersionHolds, DraftInvariant,
           RevertingInvariant, HistoryInvariant, ChainInvariant, PTL
        DEF Spec, LinearHistory, Linear!Spec

-----------------------------------------------------------------------------
(* What is committed was allowed                                           *)

PreviewedKinds == {"commands", "revert", "apply"}

\* While it writes, a request's batch passes the preview on the committed plan.
IPreviewed ==
    \A s \in Slots : pc[s] \in {"writing", "written"} /\ env[s].kind \in PreviewedKinds
        => ~Blocked(plan, tx[s].cmds)

\* The preview was passed on the plan of the version before the commit.
IUnblocked ==
    \A i \in Commits : audit[i].env.kind \in PreviewedKinds
        => ~Blocked(history[audit[i].version - 1], audit[i].cmds)

\* However the writes of a commit's batch follow one another, each command was
\* allowed on the rows that the ones before it had stored.
OnlyAllowedWritten ==
    \A i \in Commits : audit[i].env.kind \in PreviewedKinds =>
        \A f : StoredFrom(f, history[audit[i].version - 1], audit[i].cmds, Len(audit[i].cmds)) =>
            \A k \in 1..Len(audit[i].cmds) : Allowed(f[k - 1], audit[i].cmds[k])

LEMMA NextPreviewed == IType /\ ILock /\ IPreviewed /\ [Next]_vars => IPreviewed'
<1> SUFFICES ASSUME IType, ILock, IPreviewed, [Next]_vars,
                    NEW s \in Slots, pc'[s] \in {"writing", "written"},
                    env'[s].kind \in PreviewedKinds
             PROVE  ~Blocked(plan', tx'[s].cmds)
    BY DEF IPreviewed
<1>1. plan' = plan /\ env'[s] = env[s]
    BY WritingStep
<1>2. tx \in [Slots -> Tx]
      /\ pc \in [Slots -> {"idle", "waiting", "locked", "writing", "written",
                             "proposing", "committed", "done"}]
    BY DEF IType, TypeOK
<1>3. CASE Accept(s)
    <2>1. Verdict(env[s]) = "accept" /\ tx'[s].cmds = CommandsOf(env[s])
        BY <1>2, <1>3 DEF Accept
    <2>2. ~Blocked(plan, CommandsOf(env[s]))
        <3>1. CASE env[s].kind = "commands"
            BY <2>1, <3>1 DEF Verdict, CommandsOf, CommandsVerdict, IdempotencyVerdict
        <3>2. CASE env[s].kind = "revert"
            BY <2>1, <3>2 DEF Verdict, CommandsOf, RevertVerdict, IdempotencyVerdict
        <3>3. CASE env[s].kind = "apply"
            BY <2>1, <3>3 DEF Verdict, CommandsOf, ApplyVerdict, ScenarioApplyVerdict,
                              SolverApplyVerdict
        <3> QED BY <1>1, <3>1, <3>2, <3>3 DEF PreviewedKinds
    <2> QED BY <1>1, <2>1, <2>2
<1>4. CASE WriteNext(s)
    BY <1>1, <1>2, <1>4 DEF WriteNext, Tx, IPreviewed
<1>5. CASE Increment(s)
    BY <1>1, <1>2, <1>5 DEF Increment, Tx, IPreviewed
<1>6. CASE pc[s] = pc'[s] /\ tx'[s] = tx[s]
    BY <1>1, <1>6 DEF IPreviewed
<1> QED BY <1>3, <1>4, <1>5, <1>6, WritingStep

LEMMA PreviewedInvariant == Spec => []IPreviewed
<1>1. Init => IPreviewed
    BY DEF Init, IPreviewed
<1> QED BY <1>1, TypeInvariant, LockInvariant, NextPreviewed, PTL DEF Spec

LEMMA NextUnblocked ==
    ASSUME IType, IFresh, OneCommitPerVersion, IDraft, IReverting, IHistory, IPreviewed,
           IUnblocked, [Next]_vars
    PROVE  IUnblocked'
<1>1. planVersion \in Nat \ {0} /\ audit \in Seq(Event) /\ tx \in [Slots -> Tx]
    BY DEF IType, TypeOK
<1>2. CASE SameCommits /\ UNCHANGED <<plan, planVersion, history>>
    BY <1>2 DEF SameCommits, IUnblocked
<1>3. ASSUME NEW s \in Slots, Commit(s) PROVE IUnblocked'
    <2> DEFINE n == Len(audit) + 1
    <2>1. /\ DOMAIN audit' = DOMAIN audit \cup {n} /\ n \notin DOMAIN audit
          /\ \A i \in DOMAIN audit : audit'[i] = audit[i]
          /\ audit'[n].version = planVersion + 1
          /\ \A v \in 1..planVersion : history'[v] = history[v]
        BY <1>3, CommitEffect
    <2>2. audit'[n].env = env[s] /\ audit'[n].cmds = tx[s].cmds
        BY <1>1, <1>3, CommitType DEF Commit, CommitEvent, IType
    <2>3. env[s].kind \in PreviewedKinds => ~Blocked(plan, tx[s].cmds)
        BY <1>3 DEF Commit, IPreviewed
    <2>4. history'[planVersion] = plan /\ planVersion + 1 - 1 = planVersion
        BY <1>1, <2>1 DEF IHistory
    <2> HIDE DEF n
    <2>5. ASSUME NEW i \in Commits', audit'[i].env.kind \in PreviewedKinds
          PROVE  ~Blocked(history'[audit'[i].version - 1], audit'[i].cmds)
        <3>1. CASE i = n
            <4>1. audit'[i].version - 1 = planVersion
                BY <1>1, <2>1, <3>1
            <4>2. history'[audit'[i].version - 1] = plan /\ audit'[i].cmds = tx[s].cmds
                BY <2>2, <2>4, <3>1, <4>1
            <4>3. env[s].kind \in PreviewedKinds
                BY <2>2, <2>5, <3>1
            <4> QED BY <2>3, <4>2, <4>3
        <3>2. CASE i # n
            <4>1. i \in Commits /\ audit'[i] = audit[i]
                BY <2>1, <3>2 DEF Commits, Committed
            <4>2. audit[i].version - 1 \in 1..planVersion
                BY <1>1, <4>1 DEF OneCommitPerVersion, Commits, Committed
            <4> QED BY <2>1, <2>5, <4>1, <4>2 DEF IUnblocked
        <3> QED BY <3>1, <3>2
    <2> QED BY <2>5 DEF IUnblocked
<1> QED BY <1>2, <1>3, CommitOrSame

LEMMA UnblockedInvariant == Spec => []IUnblocked
<1>1. Init => IUnblocked
    BY DEF Init, IUnblocked, Commits
<1> QED BY <1>1, TypeInvariant, FreshInvariant, OneCommitPerVersionHolds, DraftInvariant,
           RevertingInvariant, HistoryInvariant, PreviewedInvariant, NextUnblocked, PTL DEF Spec

\* No command is ever committed on rows it is not allowed on: the repository's
\* statements do not look, and nothing comes between the preview and them.
THEOREM OnlyAllowedWrittenHolds == Spec => []OnlyAllowedWritten
<1>1. IType /\ OneCommitPerVersion /\ IHistory /\ IUnblocked => OnlyAllowedWritten
    <2> SUFFICES ASSUME IType, OneCommitPerVersion, IHistory, IUnblocked,
                        NEW i \in Commits, audit[i].env.kind \in PreviewedKinds,
                        NEW f, StoredFrom(f, history[audit[i].version - 1], audit[i].cmds,
                                          Len(audit[i].cmds))
                 PROVE  \A k \in 1..Len(audit[i].cmds) : Allowed(f[k - 1], audit[i].cmds[k])
        BY DEF OnlyAllowedWritten
    <2> DEFINE before == history[audit[i].version - 1]
               cmds == audit[i].cmds
    <2>1. /\ history \in Seq(Plans) /\ audit[i] \in Event /\ planVersion \in Nat \ {0}
          /\ Len(history) = planVersion
        BY DEF IType, TypeOK, Commits, IHistory
    <2>2. audit[i].version - 1 \in 1..planVersion
        BY <2>1 DEF OneCommitPerVersion, Commits, Committed
    <2>3. before \in Plans /\ cmds \in Seq(Commands)
        BY <2>1, <2>2 DEF Event
    <2>4. ~Blocked(before, cmds) /\ StoredFrom(f, before, cmds, Len(cmds))
        BY DEF IUnblocked
    <2> HIDE DEF before, cmds
    <2>5. PICK shown : PreviewedFrom(shown, before, cmds, Len(cmds))
        BY <2>3, PreviewExists
    <2>6. \A k \in 1..Len(cmds) : Allowed(f[k - 1], cmds[k])
        BY <2>3, <2>4, <2>5, PreviewIsStored
    <2> QED BY <2>6 DEF cmds
<1> QED BY <1>1, TypeInvariant, OneCommitPerVersionHolds, HistoryInvariant, UnblockedInvariant, PTL
=============================================================================
