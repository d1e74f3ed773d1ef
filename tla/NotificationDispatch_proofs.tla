--------------------- MODULE NotificationDispatch_proofs ---------------------
(***************************************************************************)
(* Proofs about NotificationDispatch, for any number of notifications,     *)
(* users and overlapping runs.  None of the properties is inductive: that  *)
(* a row has attempts left until it is given up, and that a mark follows a *)
(* mail, has to be known, too.                                             *)
(***************************************************************************)
EXTENDS NotificationDispatch, TLAPS

\* A row in the queue has an attempt left.
NotGivenUp == \A n \in Notifications : note[n].delivered \/ note[n].attempts < MaxAttempts

\* A run mails rows that exist, and marks those of its mail only.
RunsReady ==
    \A r \in Runs :
        /\ \A n \in run[r].items : Created(n)
        /\ run[r].stage = "marking" => run[r].user \in Users /\ ItemsOf(r, run[r].user) \subseteq mailed

Inv ==
    /\ TypeOK
    /\ NotGivenUp
    /\ RunsReady
    /\ NothingLost
    /\ MailedIsMarked

LEMMA InitInv == ASSUME Init PROVE Inv
<1> USE DispatchAssumption
<1>1. TypeOK
    <2>1. note \in [Notifications -> Notes]
        BY DEF Init, Notes
    <2>2. run \in [Runs -> RunStates]
        BY DEF Init, RunStates, RunStages, Idle
    <2>3. crashes \in 0 .. MaxCrashes
        BY DEF Init
    <2> QED
        BY <2>1, <2>2, <2>3 DEF Init, TypeOK
<1>2. NotGivenUp /\ RunsReady /\ NothingLost /\ MailedIsMarked
    BY DEF Init, NotGivenUp, RunsReady, NothingLost, MailedIsMarked, Idle
<1> QED
    BY <1>1, <1>2 DEF Inv

-----------------------------------------------------------------------------
(* What a step does to the rows.  The three lemmas below are about steps   *)
(* that leave the users of the rows alone, or give a row its first one.    *)

\* A row keeps the user it was created for.
UsersStay == \A n \in Notifications : Created(n) => note'[n].user = note[n].user

\* The mail of a run that the step leaves alone is the same as before.
LEMMA ItemsStay ==
    ASSUME Inv, UsersStay, NEW r \in Runs, run'[r] = run[r], NEW u \in Users
    PROVE  ItemsOf(r, u)' = ItemsOf(r, u)
BY DEF Inv, TypeOK, RunStates, RunsReady, UsersStay, ItemsOf, Created

\* So a run that the step leaves alone is as ready as before.
LEMMA ReadyStays ==
    ASSUME Inv, UsersStay, TypeOK', mailed \subseteq mailed', NEW r \in Runs, run'[r] = run[r]
    PROVE  /\ \A n \in run'[r].items : Created(n)'
           /\ run'[r].stage = "marking" => run'[r].user \in Users /\ ItemsOf(r, run[r].user)' \subseteq mailed'
<1>1. \A n \in run'[r].items : Created(n)'
    BY DEF Inv, TypeOK, RunStates, RunsReady, UsersStay, Created
<1>2. ASSUME run'[r].stage = "marking"
      PROVE  run'[r].user \in Users /\ ItemsOf(r, run[r].user)' \subseteq mailed'
    <2>1. run[r].user \in Users /\ ItemsOf(r, run[r].user) \subseteq mailed
        BY <1>2 DEF Inv, RunsReady
    <2>2. ItemsOf(r, run[r].user)' = ItemsOf(r, run[r].user)
        BY <2>1, ItemsStay
    <2> QED
        BY <2>1, <2>2
<1> QED
    BY <1>1, <1>2

\* A row about to be marked by such a run still is.
LEMMA MarkingStays ==
    ASSUME Inv, UsersStay, NEW r \in Runs, run'[r] = run[r],
           NEW n \in Notifications, run[r].stage = "marking", n \in ItemsOf(r, run[r].user)
    PROVE  run'[r].stage = "marking" /\ n \in ItemsOf(r, run[r].user)'
<1>1. run[r].user \in Users
    BY DEF Inv, RunsReady
<1>2. ItemsOf(r, run[r].user)' = ItemsOf(r, run[r].user)
    BY <1>1, ItemsStay
<1> QED
    BY <1>2 DEF ItemsOf

-----------------------------------------------------------------------------
(* Each action keeps the invariant.                                        *)

\* Marking rows as delivered, or counting a failure, keeps the rows rows.
LEMMA DeliveredType ==
    ASSUME TypeOK, NEW ns
    PROVE  /\ Delivered(ns) \in [Notifications -> Notes]
           /\ \A n \in Notifications :
                 /\ Delivered(ns)[n].user = note[n].user
                 /\ Delivered(ns)[n].attempts = note[n].attempts
                 /\ Delivered(ns)[n].delivered <=> n \in ns \/ note[n].delivered
BY DEF TypeOK, Delivered, Notes

LEMMA CreateKeepsInv ==
    ASSUME Inv, NEW n \in Notifications, NEW u \in Users, Create(n, u)
    PROVE  Inv'
<1> USE DEF Inv
<1>1. TypeOK'
    BY DEF Create, TypeOK, Notes
<1>2. UsersStay
    BY DEF Create, TypeOK, UsersStay, Created
<1>3. \A m \in Notifications : /\ note'[m].delivered = note[m].delivered
                              /\ note'[m].attempts = note[m].attempts
    BY DEF Create, TypeOK, Notes
<1>4. NotGivenUp' /\ NothingLost'
    BY <1>3 DEF Create, NotGivenUp, NothingLost
<1>5. RunsReady'
    BY <1>1, <1>2, ReadyStays DEF Create, RunsReady
<1>6. MailedIsMarked'
    BY <1>2, <1>3, MarkingStays DEF Create, MailedIsMarked, TypeOK
<1> QED
    BY <1>1, <1>4, <1>5, <1>6

LEMMA ReadKeepsInv ==
    ASSUME Inv, NEW n \in Notifications, Read(n)
    PROVE  Inv'
<1> USE DEF Inv
<1>1. TypeOK'
    BY DEF Read, TypeOK, Notes
<1>2. UsersStay
    BY DEF Read, TypeOK, UsersStay
<1>3. \A m \in Notifications : /\ note'[m].delivered = note[m].delivered
                              /\ note'[m].attempts = note[m].attempts
    BY DEF Read, TypeOK, Notes
<1>4. NotGivenUp' /\ NothingLost'
    BY <1>3 DEF Read, NotGivenUp, NothingLost
<1>5. RunsReady'
    BY <1>1, <1>2, ReadyStays DEF Read, RunsReady
<1>6. MailedIsMarked'
    BY <1>2, <1>3, MarkingStays DEF Read, MailedIsMarked, TypeOK
<1> QED
    BY <1>1, <1>4, <1>5, <1>6

\* A batch is taken from what is pending.
LEMMA FirstSubset == ASSUME NEW k, NEW ns PROVE First(k, ns) \subseteq ns
BY DEF First

LEMMA ListKeepsInv ==
    ASSUME Inv, NEW r \in Runs, List(r)
    PROVE  Inv'
<1> USE DEF Inv
<1>1. PICK k \in BatchLimits : \E skip \in SUBSET First(k, {n \in Notifications : Pending(n)}) :
          \E fail \in SUBSET (First(k, {n \in Notifications : Pending(n)}) \ skip) :
              LET rest == First(k, {n \in Notifications : Pending(n)}) \ (skip \cup fail)
                  mail(u) == First(UserLimit, {n \in rest : note[n].user = u})
              IN run' = [run EXCEPT ![r] =
                            [stage |-> IF skip = {} THEN "sending" ELSE "skipping",
                             skip |-> skip, fail |-> fail,
                             items |-> UNION {mail(u) : u \in Users}, user |-> NoUser]]
    BY DEF List
<1> DEFINE batch == First(k, {n \in Notifications : Pending(n)})
<1>2. batch \subseteq {n \in Notifications : Pending(n)}
    BY FirstSubset
<1>3. PICK skip \in SUBSET batch, fail \in SUBSET batch :
          run' = [run EXCEPT ![r] =
                     [stage |-> IF skip = {} THEN "sending" ELSE "skipping",
                      skip |-> skip, fail |-> fail,
                      items |-> UNION {First(UserLimit, {n \in batch \ (skip \cup fail) : note[n].user = u})
                                          : u \in Users},
                      user |-> NoUser]]
    BY <1>1
<1> DEFINE items == UNION {First(UserLimit, {n \in batch \ (skip \cup fail) : note[n].user = u})
                               : u \in Users}
<1>4. items \subseteq batch
    BY DEF First
<1> HIDE DEF batch, items
<1>5. run'[r].items = items /\ run'[r].stage # "marking" /\ \A q \in Runs : q # r => run'[q] = run[q]
    BY <1>3 DEF TypeOK, items
<1>6. TypeOK'
    <2>1. run' \in [Runs -> RunStates]
        BY <1>2, <1>3, <1>4 DEF TypeOK, RunStates, RunStages, items
    <2> QED
        BY <2>1 DEF List, TypeOK
<1>7. UsersStay
    BY DEF List, UsersStay
<1>8. NotGivenUp' /\ NothingLost'
    BY DEF List, NotGivenUp, NothingLost
<1>9. RunsReady'
    <2> SUFFICES ASSUME NEW q \in Runs
                 PROVE  /\ \A n \in run'[q].items : Created(n)'
                        /\ run'[q].stage = "marking" =>
                              run'[q].user \in Users /\ ItemsOf(q, run[q].user)' \subseteq mailed'
        BY <1>5 DEF RunsReady
    <2>1. CASE q = r
        BY <2>1, <1>2, <1>4, <1>5 DEF List, Pending, Created
    <2>2. CASE q # r
        BY <2>2, <1>5, <1>6, <1>7, ReadyStays DEF List
    <2> QED
        BY <2>1, <2>2
<1>10. MailedIsMarked'
    <2> SUFFICES ASSUME NEW n \in mailed', ~ note'[n].delivered, n \notin torn'
                 PROVE  \E q \in Runs : run'[q].stage = "marking" /\ n \in ItemsOf(q, run[q].user)'
        BY DEF MailedIsMarked
    <2>1. PICK q \in Runs : run[q].stage = "marking" /\ n \in ItemsOf(q, run[q].user)
        BY DEF List, MailedIsMarked
    <2>2. q # r /\ n \in Notifications
        BY <2>1 DEF List, TypeOK
    <2> QED
        BY <2>1, <2>2, <1>5, <1>7, MarkingStays
<1> QED
    BY <1>6, <1>8, <1>9, <1>10

LEMMA MarkSkippedKeepsInv ==
    ASSUME Inv, NEW r \in Runs, MarkSkipped(r)
    PROVE  Inv'
<1> USE DEF Inv
<1>1. /\ note' \in [Notifications -> Notes]
      /\ \A n \in Notifications :
            /\ note'[n].user = note[n].user
            /\ note'[n].attempts = note[n].attempts
            /\ note'[n].delivered <=> n \in run[r].skip \/ note[n].delivered
    BY DeliveredType DEF MarkSkipped
<1>2. TypeOK'
    <2>1. [run[r] EXCEPT !.stage = "sending", !.skip = {}] \in RunStates
        BY DEF TypeOK, RunStates, RunStages
    <2>2. run' \in [Runs -> RunStates]
        BY <2>1 DEF MarkSkipped, TypeOK
    <2>3. run[r].skip \subseteq Notifications
        BY DEF TypeOK, RunStates
    <2> QED
        BY <1>1, <2>2, <2>3 DEF MarkSkipped, TypeOK
<1>3. UsersStay
    BY <1>1 DEF UsersStay
<1>4. NotGivenUp' /\ NothingLost'
    BY <1>1 DEF MarkSkipped, NotGivenUp, NothingLost
<1>5. /\ run'[r].items = run[r].items /\ run'[r].stage # "marking" /\ run[r].stage # "marking"
      /\ \A q \in Runs : q # r => run'[q] = run[q]
    BY DEF MarkSkipped, TypeOK, RunStates
<1>6. RunsReady'
    <2> SUFFICES ASSUME NEW q \in Runs
                 PROVE  /\ \A n \in run'[q].items : Created(n)'
                        /\ run'[q].stage = "marking" =>
                              run'[q].user \in Users /\ ItemsOf(q, run[q].user)' \subseteq mailed'
        BY DEF RunsReady
    <2>1. CASE q = r
        BY <2>1, <1>1, <1>5 DEF RunsReady, Created, TypeOK, RunStates
    <2>2. CASE q # r
        BY <2>2, <1>2, <1>3, <1>5, ReadyStays DEF MarkSkipped
    <2> QED
        BY <2>1, <2>2
<1>7. MailedIsMarked'
    <2> SUFFICES ASSUME NEW n \in mailed', ~ note'[n].delivered, n \notin torn'
                 PROVE  \E q \in Runs : run'[q].stage = "marking" /\ n \in ItemsOf(q, run[q].user)'
        BY DEF MailedIsMarked
    <2>1. PICK q \in Runs : run[q].stage = "marking" /\ n \in ItemsOf(q, run[q].user)
        BY <1>1 DEF MarkSkipped, MailedIsMarked, TypeOK
    <2>2. q # r /\ n \in Notifications
        BY <2>1, <1>5 DEF MarkSkipped, TypeOK
    <2> QED
        BY <2>1, <2>2, <1>3, <1>5, MarkingStays
<1> QED
    BY <1>2, <1>4, <1>6, <1>7

LEMMA SendKeepsInv ==
    ASSUME Inv, NEW r \in Runs, Send(r)
    PROVE  Inv'
<1> USE DEF Inv
<1>1. PICK u \in Users :
          \/ /\ mailed' = mailed \cup ItemsOf(r, u)
             /\ run' = [run EXCEPT ![r].stage = "marking", ![r].user = u]
          \/ /\ run' = [run EXCEPT ![r].items = @ \ ItemsOf(r, u), ![r].fail = @ \cup ItemsOf(r, u)]
             /\ mailed' = mailed
    BY DEF Send
<1>2. UNCHANGED <<note, crashes, unwanted, torn>> /\ run[r].stage = "sending"
    BY DEF Send
<1>3. ItemsOf(r, u) \subseteq run[r].items /\ run[r].items \subseteq Notifications
    BY DEF ItemsOf, TypeOK, RunStates
<1>4. TypeOK'
    BY <1>1, <1>2, <1>3 DEF TypeOK, RunStates, RunStages
<1>5. UsersStay
    BY <1>2 DEF UsersStay
<1>6. NotGivenUp' /\ NothingLost'
    BY <1>1, <1>2 DEF NotGivenUp, NothingLost
<1>7. \A q \in Runs : q # r => run'[q] = run[q]
    BY <1>1 DEF TypeOK
<1>8. RunsReady'
    <2> SUFFICES ASSUME NEW q \in Runs
                 PROVE  /\ \A n \in run'[q].items : Created(n)'
                        /\ run'[q].stage = "marking" =>
                              run'[q].user \in Users /\ ItemsOf(q, run[q].user)' \subseteq mailed'
        BY DEF RunsReady
    <2>1. CASE q = r
        <3>1. run'[r].items \subseteq run[r].items /\ (run'[r].stage = "marking" =>
                  run'[r].items = run[r].items /\ run'[r].user = u /\ mailed' = mailed \cup ItemsOf(r, u))
            BY <1>1, <1>2 DEF TypeOK, RunStates
        <3> QED
            BY <2>1, <3>1, <1>2 DEF RunsReady, Created, ItemsOf
    <2>2. CASE q # r
        BY <2>2, <1>1, <1>4, <1>5, <1>7, ReadyStays
    <2> QED
        BY <2>1, <2>2
<1>9. MailedIsMarked'
    <2> SUFFICES ASSUME NEW n \in mailed', ~ note'[n].delivered, n \notin torn'
                 PROVE  \E q \in Runs : run'[q].stage = "marking" /\ n \in ItemsOf(q, run[q].user)'
        BY DEF MailedIsMarked
    <2>1. CASE n \in mailed
        <3>1. PICK q \in Runs : run[q].stage = "marking" /\ n \in ItemsOf(q, run[q].user)
            BY <2>1, <1>2 DEF MailedIsMarked
        <3>2. q # r /\ n \in Notifications
            BY <3>1, <1>2, <2>1 DEF TypeOK
        <3> QED
            BY <3>1, <3>2, <1>5, <1>7, MarkingStays
    <2>2. CASE n \notin mailed
        <3>1. n \in ItemsOf(r, u) /\ run' = [run EXCEPT ![r].stage = "marking", ![r].user = u]
            BY <2>2, <1>1
        <3>2. run'[r].stage = "marking" /\ run'[r].user = u /\ run'[r].items = run[r].items
            BY <3>1 DEF TypeOK, RunStates
        <3> QED
            BY <3>1, <3>2, <1>2 DEF ItemsOf
    <2> QED
        BY <2>1, <2>2
<1> QED
    BY <1>4, <1>6, <1>8, <1>9

LEMMA MarkSentKeepsInv ==
    ASSUME Inv, NEW r \in Runs, MarkSent(r)
    PROVE  Inv'
<1> USE DEF Inv
<1> DEFINE sent == ItemsOf(r, run[r].user)
<1>1. /\ note' \in [Notifications -> Notes]
      /\ \A n \in Notifications :
            /\ note'[n].user = note[n].user
            /\ note'[n].attempts = note[n].attempts
            /\ note'[n].delivered <=> n \in sent \/ note[n].delivered
    BY DeliveredType DEF MarkSent
<1>2. /\ run[r].stage = "marking" /\ sent \subseteq mailed
      /\ UNCHANGED <<crashes, mailed, unwanted, torn>>
    BY DEF MarkSent, RunsReady
<1>3. run' = [run EXCEPT ![r].stage = "sending", ![r].user = NoUser, ![r].items = @ \ sent]
    BY DEF MarkSent
<1> HIDE DEF sent
<1>4. TypeOK'
    <2>1. [run[r] EXCEPT !.stage = "sending", !.user = NoUser, !.items = @ \ sent] \in RunStates
        BY DEF TypeOK, RunStates, RunStages
    <2>2. run' \in [Runs -> RunStates]
        BY <2>1, <1>3 DEF TypeOK
    <2> QED
        BY <1>1, <1>2, <2>2 DEF TypeOK
<1>5. UsersStay
    BY <1>1 DEF UsersStay
<1>6. NotGivenUp' /\ NothingLost'
    BY <1>1, <1>2 DEF NotGivenUp, NothingLost
<1>7. /\ run'[r].items \subseteq run[r].items /\ run'[r].stage # "marking"
      /\ \A q \in Runs : q # r => run'[q] = run[q]
    BY <1>3 DEF TypeOK, RunStates
<1>8. RunsReady'
    <2> SUFFICES ASSUME NEW q \in Runs
                 PROVE  /\ \A n \in run'[q].items : Created(n)'
                        /\ run'[q].stage = "marking" =>
                              run'[q].user \in Users /\ ItemsOf(q, run[q].user)' \subseteq mailed'
        BY DEF RunsReady
    <2>1. CASE q = r
        BY <2>1, <1>1, <1>7 DEF RunsReady, Created, TypeOK, RunStates
    <2>2. CASE q # r
        BY <2>2, <1>2, <1>4, <1>5, <1>7, ReadyStays
    <2> QED
        BY <2>1, <2>2
<1>9. MailedIsMarked'
    <2> SUFFICES ASSUME NEW n \in mailed', ~ note'[n].delivered, n \notin torn'
                 PROVE  \E q \in Runs : run'[q].stage = "marking" /\ n \in ItemsOf(q, run[q].user)'
        BY DEF MailedIsMarked
    <2>1. n \in Notifications /\ ~ note[n].delivered /\ n \notin sent
        BY <1>1, <1>2 DEF TypeOK
    <2>2. PICK q \in Runs : run[q].stage = "marking" /\ n \in ItemsOf(q, run[q].user)
        BY <1>2, <2>1 DEF MailedIsMarked
    <2>3. q # r
        BY <2>1, <2>2 DEF sent
    <2> QED
        BY <2>1, <2>2, <2>3, <1>5, <1>7, MarkingStays
<1> QED
    BY <1>4, <1>6, <1>8, <1>9

LEMMA RecordFailuresKeepsInv ==
    ASSUME Inv, NEW r \in Runs, RecordFailures(r)
    PROVE  Inv'
<1> USE DEF Inv
<1>1. UNCHANGED <<crashes, mailed, unwanted, torn>> /\ run' = [run EXCEPT ![r] = Idle]
    BY DEF RecordFailures
<1>2. \A n \in Notifications :
          \/ note'[n] = note[n]
          \/ ~ note[n].delivered /\ note'[n] = Failed(note[n])
    BY DEF RecordFailures
<1>3. ASSUME NEW n \in Notifications, ~ note[n].delivered, note'[n] = Failed(note[n])
      PROVE  /\ note'[n] \in Notes
             /\ note'[n].user = note[n].user
             /\ note'[n].delivered \/ note'[n].attempts < MaxAttempts
             /\ note'[n].delivered => note'[n].attempts = MaxAttempts
    <2>1. note[n] \in Notes /\ note[n].attempts < MaxAttempts
        BY <1>3 DEF TypeOK, NotGivenUp
    <2>2. note[n].attempts \in Nat /\ MaxAttempts \in Nat
        BY <2>1, DispatchAssumption DEF Notes
    <2>3. /\ note'[n].user = note[n].user /\ note'[n].attempts = note[n].attempts + 1
          /\ note'[n].delivered = (note[n].attempts + 1 >= MaxAttempts)
        BY <1>3, <2>1 DEF Failed, Notes
    <2>4. note[n].attempts + 1 \in 0 .. MaxAttempts
        BY <2>1, <2>2
    <2>5. note'[n] \in Notes
        <3> DEFINE up == note[n].attempts + 1
                   full == note[n].attempts + 1 >= MaxAttempts
        <3>1. note'[n] = [[note[n] EXCEPT !.attempts = up] EXCEPT !.delivered = full]
            BY <1>3, <2>1 DEF Failed, Notes
        <3>2. up \in 0 .. MaxAttempts /\ full \in BOOLEAN
            BY <2>2, <2>4
        <3> HIDE DEF up, full
        <3>3. [[note[n] EXCEPT !.attempts = up] EXCEPT !.delivered = full] \in Notes
            BY <3>2, <2>1 DEF Notes
        <3> QED
            BY <3>1, <3>3
    <2>6. CASE note[n].attempts + 1 >= MaxAttempts
        <3>1. note[n].attempts + 1 = MaxAttempts
            BY <2>1, <2>2, <2>6
        <3>2. note'[n].delivered
            BY <2>3, <2>6
        <3> QED
            BY <3>1, <3>2, <2>3, <2>5
    <2>7. CASE ~ note[n].attempts + 1 >= MaxAttempts
        <3>1. note[n].attempts + 1 < MaxAttempts
            BY <2>2, <2>7
        <3>2. ~ note'[n].delivered
            BY <2>3, <2>7
        <3> QED
            BY <3>1, <3>2, <2>3, <2>5
    <2> QED
        BY <2>6, <2>7
<1>4. TypeOK'
    <2>1. note' \in [Notifications -> Notes]
        BY <1>2, <1>3 DEF RecordFailures, TypeOK
    <2>2. Idle \in RunStates
        BY DEF Idle, RunStates, RunStages
    <2> QED
        BY <1>1, <2>1, <2>2 DEF TypeOK
<1>5. UsersStay
    BY <1>2, <1>3 DEF UsersStay
<1>6. NotGivenUp' /\ NothingLost'
    BY <1>1, <1>2, <1>3 DEF NotGivenUp, NothingLost
<1>7. /\ run'[r] = Idle /\ run[r].stage # "marking"
      /\ \A q \in Runs : q # r => run'[q] = run[q]
    BY DEF RecordFailures, TypeOK
<1>8. RunsReady'
    <2> SUFFICES ASSUME NEW q \in Runs
                 PROVE  /\ \A n \in run'[q].items : Created(n)'
                        /\ run'[q].stage = "marking" =>
                              run'[q].user \in Users /\ ItemsOf(q, run[q].user)' \subseteq mailed'
        BY DEF RunsReady
    <2>1. CASE q = r
        BY <2>1, <1>7 DEF Idle
    <2>2. CASE q # r
        BY <2>2, <1>1, <1>4, <1>5, <1>7, ReadyStays
    <2> QED
        BY <2>1, <2>2
<1>9. MailedIsMarked'
    <2> SUFFICES ASSUME NEW n \in mailed', ~ note'[n].delivered, n \notin torn'
                 PROVE  \E q \in Runs : run'[q].stage = "marking" /\ n \in ItemsOf(q, run[q].user)'
        BY DEF MailedIsMarked
    <2>1. n \in Notifications /\ ~ note[n].delivered
        BY <1>1, <1>2 DEF TypeOK
    <2>2. PICK q \in Runs : run[q].stage = "marking" /\ n \in ItemsOf(q, run[q].user)
        BY <1>1, <2>1 DEF MailedIsMarked
    <2> QED
        BY <2>1, <2>2, <1>5, <1>7, MarkingStays
<1> QED
    BY <1>4, <1>6, <1>8, <1>9

LEMMA CrashKeepsInv ==
    ASSUME Inv, NEW r \in Runs, Crash(r)
    PROVE  Inv'
<1> USE DEF Inv
<1>1. UNCHANGED <<note, mailed, unwanted>> /\ run' = [run EXCEPT ![r] = Idle]
    BY DEF Crash
<1>2. torn \subseteq torn' /\ (run[r].stage = "marking" => ItemsOf(r, run[r].user) \subseteq torn')
    BY DEF Crash
<1>3. TypeOK'
    <2>1. Idle \in RunStates
        BY DEF Idle, RunStates, RunStages
    <2>2. crashes' \in 0 .. MaxCrashes
        BY DispatchAssumption DEF Crash, TypeOK
    <2>3. ItemsOf(r, run[r].user) \subseteq Notifications
        BY DEF ItemsOf, TypeOK, RunStates
    <2>4. torn' \subseteq Notifications
        BY <2>3 DEF Crash, TypeOK
    <2> QED
        BY <1>1, <2>1, <2>2, <2>4 DEF TypeOK
<1>4. UsersStay
    BY <1>1 DEF UsersStay
<1>5. NotGivenUp' /\ NothingLost'
    BY <1>1 DEF NotGivenUp, NothingLost
<1>6. run'[r] = Idle /\ \A q \in Runs : q # r => run'[q] = run[q]
    BY <1>1 DEF TypeOK
<1>7. RunsReady'
    <2> SUFFICES ASSUME NEW q \in Runs
                 PROVE  /\ \A n \in run'[q].items : Created(n)'
                        /\ run'[q].stage = "marking" =>
                              run'[q].user \in Users /\ ItemsOf(q, run[q].user)' \subseteq mailed'
        BY DEF RunsReady
    <2>1. CASE q = r
        BY <2>1, <1>6 DEF Idle
    <2>2. CASE q # r
        BY <2>2, <1>1, <1>3, <1>4, <1>6, ReadyStays
    <2> QED
        BY <2>1, <2>2
<1>8. MailedIsMarked'
    <2> SUFFICES ASSUME NEW n \in mailed', ~ note'[n].delivered, n \notin torn'
                 PROVE  \E q \in Runs : run'[q].stage = "marking" /\ n \in ItemsOf(q, run[q].user)'
        BY DEF MailedIsMarked
    <2>1. n \in Notifications /\ ~ note[n].delivered /\ n \notin torn
        BY <1>1, <1>2 DEF TypeOK
    <2>2. PICK q \in Runs : run[q].stage = "marking" /\ n \in ItemsOf(q, run[q].user)
        BY <1>1, <2>1 DEF MailedIsMarked
    <2>3. q # r
        BY <2>2, <1>2
    <2> QED
        BY <2>1, <2>2, <2>3, <1>4, <1>6, MarkingStays
<1> QED
    BY <1>3, <1>5, <1>7, <1>8

\* A step that changes nothing changes nothing of the invariant.
LEMMA StutterKeepsInv == ASSUME Inv, UNCHANGED vars PROVE Inv'
BY DEF Inv, vars, TypeOK, NotGivenUp, RunsReady, NothingLost, MailedIsMarked, Created, ItemsOf

\* Every step keeps the invariant.
LEMMA InvStep == ASSUME Inv, [Next]_vars PROVE Inv'
<1>1. CASE \E n \in Notifications : Read(n) \/ \E u \in Users : Create(n, u)
    BY <1>1, ReadKeepsInv, CreateKeepsInv
<1>2. CASE \E r \in Runs : Step(r) \/ Crash(r)
    BY <1>2, ListKeepsInv, MarkSkippedKeepsInv, SendKeepsInv, MarkSentKeepsInv,
       RecordFailuresKeepsInv, CrashKeepsInv DEF Step
<1>3. CASE UNCHANGED vars
    BY <1>3, StutterKeepsInv
<1> QED
    BY <1>1, <1>2, <1>3 DEF Next

\* In every behaviour of any number of runs, rows and crashes.
THEOREM InvAlways == Spec => []Inv
<1>1. Init => Inv
    BY InitInv
<1>2. Inv /\ [Next]_vars => Inv'
    BY InvStep
<1> QED
    BY <1>1, <1>2, PTL DEF Spec

-----------------------------------------------------------------------------
(* What follows.                                                           *)

\* Every variable has its type: no row is tried more often than maxAttempts
\* says, however many runs count failures of it at the same time.
THEOREM TypeCorrect == Spec => []TypeOK
<1>1. Inv => TypeOK
    BY DEF Inv
<1> QED
    BY <1>1, InvAlways, PTL

\* A row leaves the queue unread only mailed, unwanted, or out of attempts.
THEOREM NoneIsLost == Spec => []NothingLost
<1>1. Inv => NothingLost
    BY DEF Inv
<1> QED
    BY <1>1, InvAlways, PTL

\* A row that was mailed is marked, about to be marked, or its run has died.
THEOREM MailIsMarked == Spec => []MailedIsMarked
<1>1. Inv => MailedIsMarked
    BY DEF Inv
<1> QED
    BY <1>1, InvAlways, PTL

\* No step takes a mark back, or counts an attempt of a row that has one.
LEMMA MarkedStays ==
    ASSUME Inv, [Next]_vars, NEW n \in Notifications, note[n].delivered
    PROVE  note'[n].delivered /\ note'[n].attempts = note[n].attempts
<1> USE DEF Inv
<1>1. CASE \E m \in Notifications : Read(m) \/ \E u \in Users : Create(m, u)
    BY <1>1 DEF Read, Create, TypeOK, Notes
<1>2. ASSUME NEW r \in Runs, Step(r) \/ Crash(r)
      PROVE  note'[n].delivered /\ note'[n].attempts = note[n].attempts
    <2>1. CASE MarkSkipped(r)
        BY <2>1, DeliveredType DEF MarkSkipped
    <2>2. CASE MarkSent(r)
        BY <2>2, DeliveredType DEF MarkSent
    <2>3. CASE RecordFailures(r)
        BY <2>3 DEF RecordFailures
    <2>4. CASE List(r) \/ Send(r) \/ Crash(r)
        BY <2>4 DEF List, Send, Crash
    <2> QED
        BY <1>2, <2>1, <2>2, <2>3, <2>4 DEF Step
<1>3. CASE UNCHANGED vars
    BY <1>3 DEF vars
<1> QED
    BY <1>1, <1>2, <1>3 DEF Next

\* A mark, once set, is final, and with it the number of attempts.
THEOREM MarksAreFinal == Spec => MarkIsFinal
<1>1. Inv /\ [Next]_vars =>
          [\A n \in Notifications :
               note[n].delivered => /\ note'[n].delivered
                                    /\ note'[n].attempts = note[n].attempts]_note
    BY MarkedStays
<1> QED
    BY <1>1, InvAlways, PTL DEF Spec, MarkIsFinal
=============================================================================
