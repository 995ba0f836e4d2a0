------------------------- MODULE DefaultCheckerProofs -------------------------
(***************************************************************************)
(* The lock of the default checker, for any number of servers and runs,    *)
(* any crashes, lost answers and expiries: what it excludes until it       *)
(* expires under a run, and that it is never forgotten.                    *)
(***************************************************************************)
EXTENDS DefaultChecker, TLAPS

(* Until a lock has expired under its run, whoever runs has the lock, and  *)
(* what an orphan left in the cache is the lock.                           *)
HolderRuns ==
  outlived = FALSE =>
    /\ \A r \in Runs : Running(r) => lock = r
    /\ \A r \in orphans : lock = r /\ ~Running(r)

(* The value a checker keeps is that of a run of its own which has not yet *)
(* come to the release.                                                    *)
ValueIsOfRun ==
  \A s \in Servers : current[s] # None =>
    /\ ServerOf[current[s]] = s
    /\ run[current[s]].at \in {"looking", "submitting", "releasing"}

(* Whoever holds the lock still finds its value in the checker: if not,    *)
(* a run of its server is deleting it, or it was orphaned.                 *)
LockHasValue ==
  lock # None =>
    \/ current[ServerOf[lock]] = lock
    \/ lock \in orphans
    \/ \E r \in Runs : At(r, "deleting") /\ ServerOf[r] = ServerOf[lock]

LockInv == TypeOK /\ HolderRuns /\ ValueIsOfRun /\ LockHasValue

------------------------------------------------------------------------------
LEMMA ServersOfRuns == \A r \in Runs : ServerOf[r] \in Servers
  BY DEF Servers

LEMMA SubmissionUpdates ==
  ASSUME NEW tx \in Submissions
  PROVE  /\ tx.by \in Runs
         /\ tx.loans \in SUBSET Loans
         /\ [tx EXCEPT !.seq = "next"] \in Submissions
         /\ [tx EXCEPT !.seq = "taken"] \in Submissions
         /\ [tx EXCEPT !.awaited = FALSE] \in Submissions
  BY DEF Submissions

(* What a step makes of the memory of a run. *)
LEMMA RunUpdates ==
  ASSUME NEW state \in RunStates, NEW label, NEW todo \in SUBSET Loans,
         NEW open \in SUBSET SUBSET Loans
  PROVE  /\ Idle \in RunStates
         /\ label \in {"looking", "submitting", "releasing", "deleting", "idle"}
              => /\ [Idle EXCEPT !.at = label] \in RunStates
                 /\ [state EXCEPT !.at = label, !.todo = todo] \in RunStates
         /\ [state EXCEPT !.todo = todo, !.open = open] \in RunStates
  BY DEF RunStates, Idle

LEMMA OpenUpdate ==
  ASSUME NEW state \in RunStates, NEW open \in SUBSET SUBSET Loans
  PROVE  /\ [state EXCEPT !.open = open] \in RunStates
         /\ [state EXCEPT !.open = open].at = state.at
  BY DEF RunStates

LEMMA LockInvInit == Init => LockInv
<1> SUFFICES ASSUME Init PROVE LockInv
  OBVIOUS
<1> USE CheckerAssumption DEF Init
<1>1. TypeOK
  <2>1. run \in [Runs -> RunStates]
    BY DEF Idle, RunStates
  <2>2. /\ outlived \in BOOLEAN
        /\ status \in [Loans -> {"active", "repaid", "defaulted", "liquidated"}]
        /\ due \in [Loans -> Nat] /\ defaults \in [Loans -> Nat]
        /\ current \in [Servers -> Runs \cup {None}]
    OBVIOUS
  <2> QED
    BY <2>1, <2>2 DEF TypeOK
<1>2. HolderRuns
  BY DEF HolderRuns, Running, At, Idle
<1>3. ValueIsOfRun
  BY DEF ValueIsOfRun
<1>4. LockHasValue
  BY DEF LockHasValue
<1> QED
  BY <1>1, <1>2, <1>3, <1>4 DEF LockInv

(* The types. *)

LEMMA TypeStep == TypeOK /\ [Next]_vars => TypeOK'
<1> SUFFICES ASSUME TypeOK, [Next]_vars PROVE TypeOK'
  OBVIOUS
<1> USE CheckerAssumption, ServersOfRuns DEF TypeOK, loanVars
<1>1. ASSUME NEW r \in Runs, Acquire(r) PROVE TypeOK'
  BY <1>1 DEF Acquire, Goes, Idle, RunStates
<1>2. ASSUME NEW r \in Runs, AcquireUnanswered(r) PROVE TypeOK'
  BY <1>2 DEF AcquireUnanswered, Fault
<1>3. ASSUME NEW r \in Runs, Look(r) PROVE TypeOK'
  <2>1. Overdue \subseteq Loans
    BY DEF Overdue
  <2>2. PICK loans \in SUBSET Loans :
          run' = [run EXCEPT ![r].at = "submitting", ![r].todo = loans]
    BY <1>3, <2>1 DEF Look
  <2>3. run' = [run EXCEPT ![r] = [run[r] EXCEPT !.at = "submitting", !.todo = loans]]
    BY <2>2
  <2>4. [run[r] EXCEPT !.at = "submitting", !.todo = loans] \in RunStates
    BY RunUpdates
  <2>5. run' \in [Runs -> RunStates]
    BY <2>3, <2>4
  <2> QED
    BY <1>3, <2>5 DEF Look
<1>4. ASSUME NEW r \in Runs, LookFails(r) PROVE TypeOK'
  BY <1>4 DEF LookFails, Goes, Idle, RunStates, AfterFailure, Fault
<1>5. ASSUME NEW r \in Runs, Start(r) PROVE TypeOK'
  <2> DEFINE batch == FirstOf(run[r].todo)
             tx == [by |-> r, loans |-> batch, seq |-> "unknown", awaited |-> TRUE]
  <2>1. batch \in SUBSET Loans
    BY DEF FirstOf, RunStates
  <2>2. tx \in Submissions
    BY <2>1 DEF Submissions
  <2>3. /\ run' = [run EXCEPT ![r] = [run[r] EXCEPT !.todo = run[r].todo \ batch,
                                                   !.open = run[r].open \cup {batch}]]
        /\ flying' = flying \cup {tx}
        /\ UNCHANGED <<lock, current, loanVars, requests, faults, outlived, orphans>>
    BY <1>5 DEF Start
  <2> HIDE DEF batch, tx
  <2>4. run[r].todo \ batch \in SUBSET Loans /\ run[r].open \cup {batch} \in SUBSET SUBSET Loans
    BY <2>1 DEF RunStates
  <2>5. [run[r] EXCEPT !.todo = run[r].todo \ batch, !.open = run[r].open \cup {batch}]
          \in RunStates
    BY <2>4, RunUpdates
  <2>6. run' \in [Runs -> RunStates]
    BY <2>3, <2>5
  <2> QED
    BY <2>2, <2>3, <2>6
<1>6. ASSUME NEW r \in Runs, Finish(r) PROVE TypeOK'
  BY <1>6 DEF Finish, Goes, Idle, RunStates
<1>7. ASSUME NEW r \in Runs, Release(r) PROVE TypeOK'
  BY <1>7 DEF Release, Goes, Idle, RunStates
<1>8. ASSUME NEW r \in Runs, Delete(r) PROVE TypeOK'
  BY <1>8 DEF Delete, Goes, Idle, RunStates
<1>9. ASSUME NEW r \in Runs, DeleteFails(r) PROVE TypeOK'
  BY <1>9 DEF DeleteFails, Goes, Idle, RunStates, Fault
<1>10. ASSUME NEW tx \in flying, Proceed(tx) \/ TimeOut(tx) PROVE TypeOK'
  <2>1. tx \in Submissions
    OBVIOUS
  <2>2. /\ tx.by \in Runs
        /\ [tx EXCEPT !.seq = "next"] \in Submissions
        /\ [tx EXCEPT !.awaited = FALSE] \in Submissions
    BY <2>1, SubmissionUpdates
  <2>3. ASSUME Answered(tx) PROVE run' \in [Runs -> RunStates]
    <3> DEFINE state == run[tx.by]
               left  == [state EXCEPT !.open = state.open \ {tx.loans}]
    <3>1. run' \in {run, [run EXCEPT ![tx.by] = left]}
      BY <2>3 DEF Answered
    <3>2. state \in RunStates /\ state.open \ {tx.loans} \in SUBSET SUBSET Loans
      BY <2>2 DEF RunStates
    <3>3. left \in RunStates
      BY <3>2, OpenUpdate
    <3> HIDE DEF left, state
    <3> QED
      BY <3>1, <3>3
  <2>4. CASE GetAccount(tx)
    BY <2>2, <2>4 DEF GetAccount
  <2>5. CASE Land(tx)
    <3>1. flying' \subseteq Submissions
      <4>1. \A other \in flying : [other EXCEPT !.seq = "taken"] \in Submissions
        BY SubmissionUpdates
      <4> QED
        BY <2>5, <4>1 DEF Land
    <3>2. Defaulted(tx.loans) \subseteq Loans
      BY <2>1 DEF Defaulted, Submissions
    <3>3. status' \in [Loans -> {"active", "repaid", "defaulted", "liquidated"}]
      BY <2>5 DEF Land
    <3>4. defaults' \in [Loans -> Nat]
      BY <2>5 DEF Land
    <3> QED
      BY <2>3, <2>5, <3>1, <3>2, <3>3, <3>4 DEF Land
  <2>6. CASE Refuse(tx)
    BY <2>3, <2>6 DEF Refuse, Fault
  <2>7. CASE TimeOut(tx)
    <3>1. flying' \subseteq Submissions
      BY <2>2, <2>7 DEF TimeOut
    <3> QED
      BY <2>3, <2>7, <3>1 DEF TimeOut, Fault
  <2> QED
    BY <1>10, <2>4, <2>5, <2>6, <2>7 DEF Proceed
<1>11. ASSUME NEW s \in Servers, Crash(s) PROVE TypeOK'
  <2> DEFINE dead == {r \in Runs : ServerOf[r] = s}
             going == {tx \in flying : tx.by \in dead}
  <2>1. PICK sent \in SUBSET {tx \in going : tx.seq = "next"} :
          flying' = (flying \ going) \cup {[tx EXCEPT !.awaited = FALSE] : tx \in sent}
    BY <1>11 DEF Crash
  <2>2. \A tx \in flying : [tx EXCEPT !.awaited = FALSE] \in Submissions
    BY SubmissionUpdates
  <2>3. flying' \subseteq Submissions
    BY <2>1, <2>2
  <2>4. /\ run' = [r \in Runs |-> IF r \in dead THEN Idle ELSE run[r]]
        /\ current' = [current EXCEPT ![s] = None]
        /\ orphans' = orphans \cup ({lock} \cap dead)
        /\ faults' = faults + 1 /\ faults < MaxFaults
        /\ UNCHANGED <<lock, loanVars, requests, outlived>>
    BY <1>11 DEF Crash, Fault
  <2>5. run' \in [Runs -> RunStates]
    BY <2>4 DEF Idle, RunStates
  <2> QED
    BY <2>3, <2>4, <2>5
<1>12. CASE Expire
  <2>1. outlived' \in BOOLEAN
    BY <1>12, Zenon DEF Expire
  <2>2. /\ lock' = None /\ orphans' = orphans \ {lock} /\ faults' \in 0 .. MaxFaults
        /\ UNCHANGED <<current, run, flying, loanVars, requests>>
    BY <1>12 DEF Expire, Fault
  <2> QED
    BY <2>1, <2>2
<1>13. CASE CloseLedger
  BY <1>13 DEF CloseLedger
<1>14. CASE Index
  BY <1>14 DEF Index
<1>15. ASSUME NEW l \in Loans, Move(l) PROVE TypeOK'
  <2>1. /\ moves' \in 0 .. MaxMoves
        /\ UNCHANGED <<lock, current, run, flying, defaults, ended, ledger, requests,
                       faults, outlived, orphans>>
    BY <1>15 DEF Move
  <2>2. status' \in [Loans -> {"active", "repaid", "defaulted", "liquidated"}]
    BY <1>15 DEF Move
  <2>3. due' \in [Loans -> Nat]
    BY <1>15 DEF Move
  <2>4. events' \subseteq Loans
    BY <1>15 DEF Move
  <2> QED
    BY <2>1, <2>2, <2>3, <2>4
<1>16. CASE UNCHANGED vars
  BY <1>16 DEF vars
<1> QED
  BY <1>1, <1>2, <1>3, <1>4, <1>5, <1>6, <1>7, <1>8, <1>9, <1>10, <1>11, <1>12,
     <1>13, <1>14, <1>15, <1>16 DEF Next, Step

------------------------------------------------------------------------------
(* Who runs.  A step that leaves the labels of the runs and the lock alone *)
(* leaves the invariant alone.                                             *)

LEMMA LabelsKept ==
  ASSUME LockInv,
         TypeOK',
         \A r \in Runs : run'[r].at = run[r].at,
         UNCHANGED <<lock, current, outlived, orphans>>
  PROVE  LockInv'
<1>1. HolderRuns'
  BY DEF LockInv, HolderRuns, Running, At, TypeOK
<1>2. ValueIsOfRun'
  BY DEF LockInv, ValueIsOfRun, TypeOK
<1>3. LockHasValue'
  BY DEF LockInv, LockHasValue, At
<1> QED
  BY <1>1, <1>2, <1>3 DEF LockInv

(* The steps of a run that move it on. *)
LEMMA RunMovesOn ==
  ASSUME LockInv, TypeOK', NEW r \in Runs,
         Look(r) \/ LookFails(r) \/ Start(r) \/ Finish(r)
  PROVE  LockInv'
<1> USE DEF LockInv, TypeOK
<1>1. /\ UNCHANGED <<lock, current, outlived, orphans>>
      /\ \A q \in Runs \ {r} : run'[q] = run[q]
      /\ run[r].at \in {"looking", "submitting"}
      /\ run'[r].at \in {"submitting", "releasing"}
  BY DEF Look, LookFails, Start, Finish, Goes, At, AfterFailure, Idle, RunStates
<1>2. HolderRuns'
  BY <1>1 DEF HolderRuns, Running, At
<1>3. ValueIsOfRun'
  BY <1>1 DEF ValueIsOfRun
<1>4. LockHasValue'
  BY <1>1 DEF LockHasValue, At
<1> QED
  BY <1>2, <1>3, <1>4

LEMMA AcquireKeepsInv ==
  ASSUME LockInv, TypeOK', NEW r \in Runs, Acquire(r) \/ AcquireUnanswered(r)
  PROVE  LockInv'
<1> USE CheckerAssumption, ServersOfRuns DEF LockInv, TypeOK
<1>1. lock = None /\ lock' = r /\ UNCHANGED outlived
  BY DEF Acquire, AcquireUnanswered, Free
<1>2. outlived = FALSE => orphans = {} /\ \A q \in Runs : ~Running(q)
  BY <1>1 DEF HolderRuns
<1>3. CASE Acquire(r)
  <2>1. /\ current' = [current EXCEPT ![ServerOf[r]] = r]
        /\ run' = [run EXCEPT ![r] = [Idle EXCEPT !.at = "looking"]]
        /\ UNCHANGED orphans
    BY <1>3 DEF Acquire, Goes
  <2>2. run'[r].at = "looking" /\ \A q \in Runs \ {r} : run'[q] = run[q]
    BY <2>1 DEF Idle
  <2>3. HolderRuns'
    BY <1>1, <1>2, <2>1, <2>2 DEF HolderRuns, Running, At
  <2>4. ValueIsOfRun'
    BY <2>1, <2>2 DEF ValueIsOfRun
  <2>5. LockHasValue'
    BY <1>1, <2>1 DEF LockHasValue
  <2> QED
    BY <2>3, <2>4, <2>5
<1>4. CASE AcquireUnanswered(r)
  <2>1. orphans' = orphans \cup {r} /\ UNCHANGED <<current, run>> /\ ~Running(r)
    BY <1>4 DEF AcquireUnanswered, Running
  <2>2. HolderRuns'
    BY <1>1, <1>2, <2>1 DEF HolderRuns, Running, At
  <2>3. ValueIsOfRun'
    BY <2>1 DEF ValueIsOfRun
  <2>4. LockHasValue'
    BY <1>1, <2>1 DEF LockHasValue
  <2> QED
    BY <2>2, <2>3, <2>4
<1> QED
  BY <1>3, <1>4

LEMMA ReleaseKeepsInv ==
  ASSUME LockInv, TypeOK', NEW r \in Runs,
         Release(r) \/ Delete(r) \/ DeleteFails(r)
  PROVE  LockInv'
<1> USE CheckerAssumption, ServersOfRuns DEF LockInv, TypeOK
<1>1. CASE Release(r)
  <2> DEFINE value == current[ServerOf[r]]
             next  == IF value # None /\ lock = value THEN "deleting" ELSE "idle"
  <2>1. /\ run[r].at = "releasing"
        /\ current' = [current EXCEPT ![ServerOf[r]] = None]
        /\ run' = [run EXCEPT ![r] = [Idle EXCEPT !.at = next]]
        /\ UNCHANGED <<lock, outlived, orphans>>
    BY <1>1 DEF Release, Goes, At
  <2>2. run'[r].at = next /\ \A q \in Runs \ {r} : run'[q] = run[q]
    BY <2>1 DEF Idle
  <2>3. HolderRuns'
    BY <2>1, <2>2 DEF HolderRuns, Running, At
  <2>4. ValueIsOfRun'
    <3> SUFFICES ASSUME NEW s \in Servers, current'[s] # None
                 PROVE  /\ ServerOf[current'[s]] = s
                        /\ run'[current'[s]].at \in {"looking", "submitting", "releasing"}
      BY DEF ValueIsOfRun
    <3>1. s # ServerOf[r] /\ current'[s] = current[s]
      BY <2>1
    <3>2. current[s] # r
      BY <3>1 DEF ValueIsOfRun
    <3> QED
      BY <2>2, <3>1, <3>2 DEF ValueIsOfRun
  <2>5. LockHasValue'
    <3> SUFFICES ASSUME lock # None, lock \notin orphans
                 PROVE  \/ current'[ServerOf[lock]] = lock
                        \/ \E q \in Runs : run'[q].at = "deleting" /\ ServerOf[q] = ServerOf[lock]
      BY <2>1 DEF LockHasValue, At
    <3>1. CASE ServerOf[lock] = ServerOf[r] /\ current[ServerOf[lock]] = lock
      BY <2>2, <3>1
    <3>2. CASE ServerOf[lock] # ServerOf[r] /\ current[ServerOf[lock]] = lock
      BY <2>1, <3>2
    <3>3. CASE \E q \in Runs : run[q].at = "deleting" /\ ServerOf[q] = ServerOf[lock]
      BY <2>1, <2>2, <3>3
    <3> QED
      BY <3>1, <3>2, <3>3 DEF LockHasValue, At
  <2> QED
    BY <2>3, <2>4, <2>5
<1>2. CASE Delete(r) \/ DeleteFails(r)
  <2>1. /\ run[r].at = "deleting"
        /\ run' = [run EXCEPT ![r] = [Idle EXCEPT !.at = "idle"]]
        /\ UNCHANGED <<current, outlived>>
    BY <1>2 DEF Delete, DeleteFails, Goes, At
  <2>2. run'[r].at = "idle" /\ \A q \in Runs \ {r} : run'[q] = run[q]
    BY <2>1 DEF Idle
  <2>3. ValueIsOfRun'
    BY <2>1, <2>2 DEF ValueIsOfRun
  <2>4. CASE Delete(r)
    <3>1. lock' = None /\ orphans' = orphans \ {lock}
      BY <2>4 DEF Delete
    <3>2. HolderRuns'
      BY <2>1, <2>2, <3>1 DEF HolderRuns, Running, At
    <3>3. LockHasValue'
      BY <3>1 DEF LockHasValue
    <3> QED
      BY <2>3, <3>2, <3>3
  <2>5. CASE DeleteFails(r)
    <3>1. /\ UNCHANGED lock
          /\ orphans' = orphans \cup {q \in Runs : q = lock /\ current[ServerOf[q]] # q}
      BY <2>5 DEF DeleteFails
    <3>2. HolderRuns'
      BY <2>1, <2>2, <3>1 DEF HolderRuns, Running, At
    <3>3. LockHasValue'
      BY <2>1, <3>1 DEF LockHasValue
    <3> QED
      BY <2>3, <3>2, <3>3
  <2> QED
    BY <1>2, <2>4, <2>5
<1> QED
  BY <1>1, <1>2

LEMMA CrashKeepsInv ==
  ASSUME LockInv, TypeOK', NEW s \in Servers, Crash(s)
  PROVE  LockInv'
<1> USE CheckerAssumption, ServersOfRuns DEF LockInv, TypeOK
<1> DEFINE dead == {r \in Runs : ServerOf[r] = s}
<1>1. /\ run' = [r \in Runs |-> IF r \in dead THEN Idle ELSE run[r]]
      /\ current' = [current EXCEPT ![s] = None]
      /\ orphans' = orphans \cup ({lock} \cap dead)
      /\ UNCHANGED <<lock, outlived>>
  BY DEF Crash
<1>2. \A r \in Runs : IF ServerOf[r] = s THEN run'[r].at = "idle" ELSE run'[r] = run[r]
  BY <1>1 DEF Idle
<1>3. HolderRuns'
  BY <1>1, <1>2 DEF HolderRuns, Running, At
<1>4. ValueIsOfRun'
  BY <1>1, <1>2 DEF ValueIsOfRun
<1>5. LockHasValue'
  BY <1>1, <1>2 DEF LockHasValue, At
<1> QED
  BY <1>3, <1>4, <1>5

LEMMA ExpireKeepsInv ==
  ASSUME LockInv, TypeOK', Expire
  PROVE  LockInv'
<1> USE DEF LockInv, TypeOK
<1>1. /\ lock' = None /\ orphans' = orphans \ {lock}
      /\ UNCHANGED <<current, run>>
  BY DEF Expire
<1>2. HolderRuns'
  <2>1. CASE lock \in orphans
    <3>1. UNCHANGED outlived
      BY <2>1 DEF Expire
    <3> QED
      BY <1>1, <2>1, <3>1 DEF HolderRuns, Running, At
  <2>2. CASE lock \notin orphans
    <3>1. outlived' = TRUE
      BY <2>2 DEF Expire
    <3> QED
      BY <3>1 DEF HolderRuns
  <2> QED
    BY <2>1, <2>2
<1>3. ValueIsOfRun'
  BY <1>1 DEF ValueIsOfRun
<1>4. LockHasValue'
  BY <1>1 DEF LockHasValue
<1> QED
  BY <1>2, <1>3, <1>4

LEMMA LockInvNext == LockInv /\ [Next]_vars => LockInv'
<1> SUFFICES ASSUME LockInv, [Next]_vars PROVE LockInv'
  OBVIOUS
<1>1. TypeOK'
  BY TypeStep DEF LockInv
<1>2. ASSUME NEW r \in Runs, Step(r) \/ AcquireUnanswered(r) \/ LookFails(r) \/ DeleteFails(r)
      PROVE  LockInv'
  BY <1>1, <1>2, RunMovesOn, AcquireKeepsInv, ReleaseKeepsInv DEF Step
<1>3. ASSUME NEW tx \in flying, Proceed(tx) \/ TimeOut(tx)
      PROVE  LockInv'
  <2>1. UNCHANGED <<lock, current, outlived, orphans>>
    BY <1>3 DEF Proceed, GetAccount, Land, Refuse, TimeOut
  <2>2. UNCHANGED run \/ Answered(tx)
    BY <1>3 DEF Proceed, GetAccount, Land, Refuse, TimeOut
  <2>3. \A r \in Runs : run'[r].at = run[r].at
    <3> DEFINE state == run[tx.by]
               left  == [state EXCEPT !.open = state.open \ {tx.loans}]
    <3>1. tx \in Submissions
      BY DEF LockInv, TypeOK
    <3>2. state \in RunStates /\ state.open \ {tx.loans} \in SUBSET SUBSET Loans
      BY <3>1, SubmissionUpdates DEF LockInv, TypeOK, RunStates
    <3>3. left.at = state.at
      BY <3>2, OpenUpdate
    <3>4. run' \in {run, [run EXCEPT ![tx.by] = left]}
      BY <2>2 DEF Answered
    <3>5. run \in [Runs -> RunStates]
      BY DEF LockInv, TypeOK
    <3> HIDE DEF left
    <3> QED
      BY <3>3, <3>4, <3>5
  <2> QED
    BY <1>1, <2>1, <2>3, LabelsKept
<1>4. ASSUME NEW s \in Servers, Crash(s)
      PROVE  LockInv'
  BY <1>1, <1>4, CrashKeepsInv
<1>5. CASE Expire
  BY <1>1, <1>5, ExpireKeepsInv
<1>6. CASE CloseLedger \/ Index \/ (\E l \in Loans : Move(l)) \/ UNCHANGED vars
  <2>1. UNCHANGED <<lock, current, run, outlived, orphans>>
    BY <1>6 DEF CloseLedger, Index, Move, vars
  <2> QED
    BY <1>1, <2>1, LabelsKept
<1> QED
  BY <1>2, <1>3, <1>4, <1>5, <1>6 DEF Next

------------------------------------------------------------------------------
(* No two runs look for or submit loans at once before a lock has expired  *)
(* under its run, for any number of servers, crashes and lost answers.     *)
THEOREM RunsExcludeEachOther == Spec => []OverlapOnlyAfterExpiry
<1>1. LockInv => OverlapOnlyAfterExpiry
  BY DEF LockInv, TypeOK, HolderRuns, OverlapOnlyAfterExpiry, Working, Running, At
<1> QED
  BY <1>1, LockInvInit, LockInvNext, PTL DEF Spec

(* The lock is never forgotten: it has a run that will come to release it, *)
(* is being deleted, or a fault has left it to its time to live.           *)
THEOREM LocksStaySound == Spec => []LocksSound
<1>1. LockInv => NoLockLeftBehind
  <2> SUFFICES ASSUME LockInv, lock # None, lock \notin orphans,
                      ~\E r \in Runs : At(r, "deleting")
               PROVE  Running(lock)
    BY DEF NoLockLeftBehind
  <2>1. lock \in Runs /\ current[ServerOf[lock]] = lock
    BY DEF LockInv, TypeOK, LockHasValue
  <2>2. ServerOf[lock] \in Servers
    BY <2>1, ServersOfRuns
  <2> QED
    BY <2>1, <2>2 DEF LockInv, ValueIsOfRun, Running, At
<1>2. LockInv => LocksSound
  BY <1>1 DEF LockInv, LocksSound
<1> QED
  BY <1>2, LockInvInit, LockInvNext, PTL DEF Spec

(* However many submissions of a loan are under way, and whatever became   *)
(* of the runs that sent them, only an active loan changes by them.        *)
THEOREM ClosedLoansStay == Spec => DefaultedOnce
<1>1. LockInv /\ [Next]_vars
        => [\A l \in Loans : status[l] # "active"
              => status'[l] = status[l] /\ defaults'[l] = defaults[l]]_vars
  <2> SUFFICES ASSUME LockInv, [Next]_vars, NEW l \in Loans, status[l] # "active"
               PROVE  status'[l] = status[l] /\ defaults'[l] = defaults[l]
    OBVIOUS
  <2> USE DEF loanVars
  <2>1. defaults \in [Loans -> Nat] /\ status \in [Loans -> {"active", "repaid", "defaulted", "liquidated"}]
    BY DEF LockInv, TypeOK
  <2>2. ASSUME NEW tx \in flying, Land(tx)
        PROVE  status'[l] = status[l] /\ defaults'[l] = defaults[l]
    BY <2>1, <2>2 DEF Land, Defaulted, Eligible
  <2>3. ASSUME NEW k \in Loans, Move(k)
        PROVE  status'[l] = status[l] /\ defaults'[l] = defaults[l]
    BY <2>1, <2>3 DEF Move
  <2>4. ASSUME NEW r \in Runs, Step(r) \/ AcquireUnanswered(r) \/ LookFails(r) \/ DeleteFails(r)
        PROVE  UNCHANGED <<status, defaults>>
    BY <2>4 DEF Step, Acquire, AcquireUnanswered, Look, LookFails, Start, Finish,
                Release, Delete, DeleteFails
  <2>5. ASSUME NEW tx \in flying, GetAccount(tx) \/ Refuse(tx) \/ TimeOut(tx)
        PROVE  UNCHANGED <<status, defaults>>
    BY <2>5 DEF GetAccount, Refuse, TimeOut
  <2>6. ASSUME \/ \E s \in Servers : Crash(s)
               \/ Expire \/ CloseLedger \/ Index \/ UNCHANGED vars
        PROVE  UNCHANGED <<status, defaults>>
    BY <2>6 DEF Crash, Expire, CloseLedger, Index, vars
  <2> QED
    BY <2>2, <2>3, <2>4, <2>5, <2>6 DEF Next, Proceed
<1> QED
  BY <1>1, LockInvInit, LockInvNext, PTL DEF Spec, DefaultedOnce
==============================================================================
