------------------------- MODULE JobLifecycleProofs -------------------------
(***************************************************************************)
(* Proofs about JobLifecycle for any number of jobs, executors and requests*)
(* and any bounds.                                                         *)
(***************************************************************************)
EXTENDS JobLifecycle, FiniteSetTheorems, TLAPS

\* The statuses, risks and targets the tables of the code name.
LEMMA TablesType ==
  /\ \A u \in 1..5 : /\ Updates[u].to \in Working
                     /\ Updates[u].next \in {"run", "plan", "code", "test", "review"}
  /\ \A d \in Decisions : NewJobStatus(d) \in {"APPROVED", "CODING", "CANCELLED"}
  /\ \A d \in Decisions : NewJobStatus(d) \in Working => d = "REQUEST_CHANGES"
<1>1. \A u \in 1..5 : u = 1 \/ u = 2 \/ u = 3 \/ u = 4 \/ u = 5
  OBVIOUS
<1>2. \A u \in 1..5 : /\ Updates[u].to \in Working
                      /\ Updates[u].next \in {"run", "plan", "code", "test", "review"}
  BY <1>1 DEF Updates, Working
<1> QED
  BY <1>2 DEF Decisions, NewJobStatus, Working

\* Overwriting an element of a sequence, or nothing, leaves a sequence.
LEMMA SeqExcept ==
  ASSUME NEW S, NEW s \in Seq(S), NEW i, NEW x \in S
  PROVE  /\ [s EXCEPT ![i] = x] \in Seq(S)
         /\ Len([s EXCEPT ![i] = x]) = Len(s)
<1>1. s \in [1..Len(s) -> S] /\ Len(s) \in Nat
  OBVIOUS
<1>2. [s EXCEPT ![i] = x] \in [1..Len(s) -> S]
  BY <1>1
<1> QED BY <1>1, <1>2

\* Recording whether the checkout changed keeps the locals' types.
LEMMA ChangeType ==
  ASSUME NEW l \in Locals, NEW u \in 1..5, NEW c \in BOOLEAN
  PROVE  [l EXCEPT !.upd = u, !.changed = c] \in Locals
<1>1. PICK m : m = [l EXCEPT !.upd = u]
  OBVIOUS
<1>2. m \in Locals
  BY <1>1 DEF Locals
<1>3. [m EXCEPT !.changed = c] \in Locals
  BY <1>2 DEF Locals
<1> QED BY <1>1, <1>3

\* What a step of an executor that only moves its program counter leaves alone.
LEMMA GotoType ==
  ASSUME TypeOK, NEW e \in Execs, NEW from \in ExecPcs \ {"idle"},
         NEW to \in ExecPcs, Goto(e, from, to)
  PROVE  /\ WorkerType' /\ ReqType'
         /\ queue' \subseteq Jobs /\ stranded' \subseteq Jobs
         /\ pc' \in [Execs -> ExecPcs]
         /\ jobOf' \in [Execs -> Jobs \cup {NoJob}]
         /\ \A f \in Execs : pc'[f] # "idle" => jobOf'[f] \in Jobs
         /\ jobOf[e] \in Jobs
<1>1. WorkerType' /\ ReqType' /\ queue' \subseteq Jobs /\ stranded' \subseteq Jobs
  BY DEF TypeOK, WorkerType, ReqType, StoreType, Goto, workerVars
<1>2. /\ pc' \in [Execs -> ExecPcs]
      /\ jobOf' \in [Execs -> Jobs \cup {NoJob}]
      /\ \A f \in Execs : pc'[f] # "idle" => jobOf'[f] \in Jobs
      /\ jobOf[e] \in Jobs
  BY DEF TypeOK, ExecType, Goto
<1> QED BY <1>1, <1>2

\* The locals of a try block that is entered or left are well typed.
LEMMA NoLocalsType == NoLocals \in Locals
BY DEF Locals, NoLocals

\* Leaving the try block resets the locals.
LEMMA LeaveType ==
  ASSUME TypeOK, NEW e \in Execs, local' = [local EXCEPT ![e] = NoLocals]
  PROVE  LocalType'
BY NoLocalsType DEF TypeOK, LocalType

\* Moving on to one of the five updateJobStatus calls keeps the locals' types.
LEMMA UpdateType ==
  ASSUME TypeOK, NEW e \in Execs, NEW u \in 1..5,
         local' = [local EXCEPT ![e].upd = u]
  PROVE  LocalType'
BY DEF TypeOK, LocalType, Locals

\* The records of the handlers, for the steps that change one or two fields.
ReqRecords == [pc : {"idle", "enqueue", "cancel", "retry", "mark", "decide"},
               job : Jobs \cup {NoJob}, approval : Nat,
               decision : Decisions, seen : Statuses \cup {"NONE"}]

\* A handler that begins with a job, or goes on with the one it has, has a job.
LEMMA BeginType ==
  ASSUME ReqType, NEW r \in Requests, NEW j \in Jobs,
         NEW p \in {"enqueue", "cancel", "retry", "mark", "decide"},
         \/ req' = [req EXCEPT ![r].pc = p, ![r].job = j]
         \/ req' = [req EXCEPT ![r].pc = p] /\ req[r].job = j
  PROVE  ReqType'
<1>1. req \in [Requests -> ReqRecords] /\ req[r] \in ReqRecords
  BY DEF ReqType, ReqRecords
<1>2. PICK x : x = [req[r] EXCEPT !.pc = p]
  OBVIOUS
<1>3. x \in ReqRecords /\ x.pc = p /\ x.job = req[r].job
  BY <1>1, <1>2 DEF ReqRecords
<1>4. PICK y : y = [x EXCEPT !.job = j]
  OBVIOUS
<1>5. y \in ReqRecords /\ y.pc = p /\ y.job = j
  BY <1>3, <1>4 DEF ReqRecords
<1>6. PICK z \in {x, y} : req' = [req EXCEPT ![r] = z] /\ z.job = j
  BY <1>1, <1>2, <1>3, <1>4, <1>5
<1>7. z \in ReqRecords
  BY <1>3, <1>5, <1>6
<1>8. req' \in [Requests -> ReqRecords] /\ req'[r] = z
      /\ \A q \in Requests : q # r => req'[q] = req[q]
  BY <1>1, <1>6, <1>7
<1>9. \A q \in Requests : req'[q].pc # "idle" => req'[q].job \in Jobs
  BY <1>6, <1>8 DEF ReqType
<1> QED BY <1>8, <1>9 DEF ReqType, ReqRecords

\* Every step of the poll loop, the executors and the handlers keeps the types.
THEOREM TypeCorrect == Spec => []TypeOK
<1>1. Init => TypeOK
  BY ConstantsAssumption
  DEF Init, TypeOK, Locals, DbType, StoreType, WorkerType, ExecType, LocalType, ReqType, Statuses, Working, Risks, DefaultRisk, Decisions, ExecPcs,
      NoLocals, IdleRequest
<1>2. TypeOK /\ [Next]_vars => TypeOK'
  <2> SUFFICES ASSUME TypeOK, [Next]_vars PROVE TypeOK'
    OBVIOUS
  <2> USE ConstantsAssumption DEF TypeOK
  <2>1. CASE WorkerStep
    <3> USE DEF DbType, StoreType, WorkerType, ExecType, LocalType, ReqType,
               dbVars, repoVars, execVars
    <3>1. CASE PollIssue
      BY <3>1 DEF PollIssue
    <3>2. CASE PollPop
      BY <3>2 DEF PollPop
    <3>3. CASE PollNothing
      BY <3>3 DEF PollNothing
    <3>4. CASE PollReplyLost
      BY <3>4 DEF PollReplyLost
    <3>5. ASSUME NEW e \in Execs, StartJob(e) PROVE TypeOK'
      <4>1. DbType' /\ StoreType' /\ WorkerType' /\ LocalType' /\ ReqType'
        BY <3>5 DEF StartJob
      <4>2. ExecType'
        BY <3>5 DEF StartJob, ExecPcs
      <4> QED BY <4>1, <4>2
    <3>6. CASE ShutDown
      BY <3>6 DEF ShutDown
    <3>7. CASE StopWaiting
      BY <3>7 DEF StopWaiting
    <3>8. CASE Exit \/ Crash
      <4> USE <3>8 DEF Exit, Crash, Die
      <4>1. DbType' /\ WorkerType' /\ ReqType'
        OBVIOUS
      <4>2. StoreType'
        <5>1. {jobOf[e] : e \in Driving} \subseteq Jobs
          BY DEF Driving
        <5> QED BY <5>1
      <4>3. ExecType'
        <5>1. pc' \in [Execs -> ExecPcs] /\ \A e \in Execs : pc'[e] = "idle"
          BY DEF ExecPcs
        <5>2. jobOf' \in [Execs -> Jobs \cup {NoJob}] /\ ctx' \in [Execs -> BOOLEAN]
          OBVIOUS
        <5> QED BY <5>1, <5>2
      <4>4. LocalType'
        BY NoLocalsType
      <4> QED BY <4>1, <4>2, <4>3, <4>4
    <3>9. CASE Restart
      BY <3>9 DEF Restart
    <3>10. CASE PollBusy
      BY <3>10 DEF PollBusy, vars, workerVars
    <3> QED BY <2>1, <3>1, <3>2, <3>3, <3>4, <3>5, <3>6, <3>7, <3>8, <3>9, <3>10
            DEF WorkerStep
  <2>2. ASSUME NEW e \in Execs, ExecStep(e) PROVE TypeOK'
    <3> USE DEF dbVars, repoVars
    <3>1. CASE Load(e)
      <4>1. \E from \in ExecPcs \ {"idle"}, to \in ExecPcs : Goto(e, from, to)
        BY <3>1 DEF Load, GotoUpdate, ExecPcs
      <4>2. DbType' /\ workspace' \subseteq Jobs /\ branch' \subseteq Jobs /\ pr' \subseteq Jobs
        BY <3>1, <4>1, GotoType DEF Load, TypeOK, DbType, StoreType, Statuses, Risks
      <4>3. LocalType'
        BY <3>1, UpdateType, 1 \in 1..5, 2 \in 1..5, 3 \in 1..5 DEF Load, GotoUpdate
      <4>4. ctx' \in [Execs -> BOOLEAN]
        BY <3>1 DEF Load, TypeOK, ExecType
      <4> QED BY <4>1, <4>2, <4>3, <4>4, GotoType DEF TypeOK, StoreType, ExecType
    <3>2. CASE UpdateRead(e)
      <4>1. \E from \in ExecPcs \ {"idle"}, to \in ExecPcs : Goto(e, from, to)
        BY <3>2, TablesType DEF UpdateRead, ExecPcs, TypeOK, LocalType, Locals
      <4>2. DbType' /\ workspace' \subseteq Jobs /\ branch' \subseteq Jobs /\ pr' \subseteq Jobs
        BY <3>2, <4>1, GotoType, TablesType DEF UpdateRead, TypeOK, DbType, StoreType, Statuses, Risks, LocalType, Locals
      <4>3. LocalType'
        BY <3>2 DEF UpdateRead, TypeOK, LocalType
      <4>4. ctx' \in [Execs -> BOOLEAN]
        BY <3>2 DEF UpdateRead, TypeOK, ExecType
      <4> QED BY <4>1, <4>2, <4>3, <4>4, GotoType DEF TypeOK, StoreType, ExecType
    <3>3. CASE UpdateWrite(e)
      <4>1. \E from \in ExecPcs \ {"idle"}, to \in ExecPcs : Goto(e, from, to)
        BY <3>3, TablesType DEF UpdateWrite, ExecPcs, TypeOK, LocalType, Locals
      <4>2. DbType' /\ workspace' \subseteq Jobs /\ branch' \subseteq Jobs /\ pr' \subseteq Jobs
        BY <3>3, <4>1, GotoType, TablesType DEF UpdateWrite, TypeOK, DbType, StoreType, Statuses, Risks, LocalType, Locals
      <4>3. LocalType'
        BY <3>3 DEF UpdateWrite, TypeOK, LocalType
      <4>4. ctx' \in [Execs -> BOOLEAN]
        BY <3>3 DEF UpdateWrite, TypeOK, ExecType
      <4> QED BY <4>1, <4>2, <4>3, <4>4, GotoType DEF TypeOK, StoreType, ExecType
    <3>4. CASE CreateRun(e)
      <4>1. \E from \in ExecPcs \ {"idle"}, to \in ExecPcs : Goto(e, from, to)
        BY <3>4 DEF CreateRun, ExecPcs
      <4>2. DbType' /\ workspace' \subseteq Jobs /\ branch' \subseteq Jobs /\ pr' \subseteq Jobs
        BY <3>4, <4>1, GotoType DEF CreateRun, TypeOK, DbType, StoreType, Statuses, Risks
      <4>3. LocalType'
        BY <3>4 DEF CreateRun, TypeOK, LocalType
      <4>4. ctx' \in [Execs -> BOOLEAN]
        BY <3>4 DEF CreateRun, TypeOK, ExecType
      <4> QED BY <4>1, <4>2, <4>3, <4>4, GotoType DEF TypeOK, StoreType, ExecType
    <3>5. CASE CloneStart(e)
      <4>1. \E from \in ExecPcs \ {"idle"}, to \in ExecPcs : Goto(e, from, to)
        BY <3>5 DEF CloneStart, ExecPcs
      <4>2. DbType' /\ workspace' \subseteq Jobs /\ branch' \subseteq Jobs /\ pr' \subseteq Jobs
        BY <3>5, <4>1, GotoType DEF CloneStart, TypeOK, DbType, StoreType, Statuses, Risks
      <4>3. LocalType'
        BY <3>5 DEF CloneStart, TypeOK, LocalType
      <4>4. ctx' \in [Execs -> BOOLEAN]
        BY <3>5 DEF CloneStart, TypeOK, ExecType
      <4> QED BY <4>1, <4>2, <4>3, <4>4, GotoType DEF TypeOK, StoreType, ExecType
    <3>6. CASE CloneRefused(e)
      <4>1. \E from \in ExecPcs \ {"idle"}, to \in ExecPcs : Goto(e, from, to)
        BY <3>6 DEF CloneRefused, Leave, ExecPcs
      <4>2. DbType' /\ workspace' \subseteq Jobs /\ branch' \subseteq Jobs /\ pr' \subseteq Jobs
        BY <3>6, <4>1, GotoType DEF CloneRefused, TypeOK, DbType, StoreType, Statuses, Risks
      <4>3. LocalType'
        BY <3>6, LeaveType DEF CloneRefused, Leave
      <4>4. ctx' \in [Execs -> BOOLEAN]
        BY <3>6 DEF CloneRefused, TypeOK, ExecType
      <4> QED BY <4>1, <4>2, <4>3, <4>4, GotoType DEF TypeOK, StoreType, ExecType
    <3>7. CASE CloneDone(e)
      <4>1. \E from \in ExecPcs \ {"idle"}, to \in ExecPcs : Goto(e, from, to)
        BY <3>7 DEF CloneDone, GotoUpdate, ExecPcs
      <4>2. DbType' /\ workspace' \subseteq Jobs /\ branch' \subseteq Jobs /\ pr' \subseteq Jobs
        BY <3>7, <4>1, GotoType DEF CloneDone, TypeOK, DbType, StoreType, Statuses, Risks
      <4>3. LocalType'
        BY <3>7, UpdateType, 1 \in 1..5, 2 \in 1..5, 3 \in 1..5 DEF CloneDone, GotoUpdate
      <4>4. ctx' \in [Execs -> BOOLEAN]
        BY <3>7 DEF CloneDone, TypeOK, ExecType
      <4> QED BY <4>1, <4>2, <4>3, <4>4, GotoType DEF TypeOK, StoreType, ExecType
    <3>8. CASE CloneFailed(e)
      <4>1. \E from \in ExecPcs \ {"idle"}, to \in ExecPcs : Goto(e, from, to)
        BY <3>8 DEF CloneFailed, Leave, ExecPcs
      <4>2. DbType' /\ workspace' \subseteq Jobs /\ branch' \subseteq Jobs /\ pr' \subseteq Jobs
        BY <3>8, <4>1, GotoType DEF CloneFailed, TypeOK, DbType, StoreType, Statuses, Risks
      <4>3. LocalType'
        BY <3>8, LeaveType DEF CloneFailed, Leave
      <4>4. ctx' \in [Execs -> BOOLEAN]
        BY <3>8 DEF CloneFailed, TypeOK, ExecType
      <4> QED BY <4>1, <4>2, <4>3, <4>4, GotoType DEF TypeOK, StoreType, ExecType
    <3>9. CASE Plan(e)
      <4>1. \E from \in ExecPcs \ {"idle"}, to \in ExecPcs : Goto(e, from, to)
        BY <3>9 DEF Plan, GotoUpdate, ExecPcs
      <4>2. DbType' /\ workspace' \subseteq Jobs /\ branch' \subseteq Jobs /\ pr' \subseteq Jobs
        BY <3>9, <4>1, GotoType DEF Plan, TypeOK, DbType, StoreType, Statuses, Risks
      <4>3. LocalType'
        BY <3>9, UpdateType, 1 \in 1..5, 2 \in 1..5, 3 \in 1..5 DEF Plan, GotoUpdate
      <4>4. ctx' \in [Execs -> BOOLEAN]
        BY <3>9 DEF Plan, TypeOK, ExecType
      <4> QED BY <4>1, <4>2, <4>3, <4>4, GotoType DEF TypeOK, StoreType, ExecType
    <3>10. CASE Code(e)
      <4>1. \E from \in ExecPcs \ {"idle"}, to \in ExecPcs : Goto(e, from, to)
        BY <3>10 DEF Code, ExecPcs
      <4>2. DbType' /\ workspace' \subseteq Jobs /\ branch' \subseteq Jobs /\ pr' \subseteq Jobs
        BY <3>10, <4>1, GotoType DEF Code, TypeOK, DbType, StoreType, Statuses, Risks
      <4>3. LocalType'
        <5>1. PICK c \in BOOLEAN :
                local' = [local EXCEPT ![e].upd = 4, ![e].changed = c]
          BY <3>10 DEF Code
        <5>2. [local[e] EXCEPT !.upd = 4, !.changed = c] \in Locals
          <6>1. local[e] \in Locals /\ 4 \in 1..5
            BY DEF TypeOK, LocalType
          <6> QED BY <6>1, ChangeType
        <5> QED BY <5>1, <5>2 DEF TypeOK, LocalType
      <4>4. ctx' \in [Execs -> BOOLEAN]
        BY <3>10 DEF Code, TypeOK, ExecType
      <4> QED BY <4>1, <4>2, <4>3, <4>4, GotoType DEF TypeOK, StoreType, ExecType
    <3>11. CASE Test(e)
      <4>1. \E from \in ExecPcs \ {"idle"}, to \in ExecPcs : Goto(e, from, to)
        BY <3>11 DEF Test, ExecPcs
      <4>2. DbType' /\ workspace' \subseteq Jobs /\ branch' \subseteq Jobs /\ pr' \subseteq Jobs
        BY <3>11, <4>1, GotoType DEF Test, TypeOK, DbType, StoreType, Statuses, Risks
      <4>3. LocalType'
        <5>1. PICK c \in BOOLEAN :
                local' = [local EXCEPT ![e].upd = 5, ![e].changed = c]
          BY <3>11 DEF Test
        <5>2. [local[e] EXCEPT !.upd = 5, !.changed = c] \in Locals
          <6>1. local[e] \in Locals /\ 5 \in 1..5
            BY DEF TypeOK, LocalType
          <6> QED BY <6>1, ChangeType
        <5> QED BY <5>1, <5>2 DEF TypeOK, LocalType
      <4>4. ctx' \in [Execs -> BOOLEAN]
        BY <3>11 DEF Test, TypeOK, ExecType
      <4> QED BY <4>1, <4>2, <4>3, <4>4, GotoType DEF TypeOK, StoreType, ExecType
    <3>12. CASE Review(e)
      <4>1. \E from \in ExecPcs \ {"idle"}, to \in ExecPcs : Goto(e, from, to)
        BY <3>12 DEF Review, ExecPcs
      <4>2. DbType' /\ workspace' \subseteq Jobs /\ branch' \subseteq Jobs /\ pr' \subseteq Jobs
        BY <3>12, <4>1, GotoType DEF Review, TypeOK, DbType, StoreType, Statuses, Risks
      <4>3. LocalType'
        <5>1. PICK s \in BOOLEAN :
                local' = [local EXCEPT ![e].reviewed = getDiff(e), ![e].safe = s]
          BY <3>12 DEF Review
        <5>2. [local[e] EXCEPT !.reviewed = getDiff(e), !.safe = s] \in Locals
          BY DEF TypeOK, LocalType, Locals, getDiff
        <5> QED BY <5>1, <5>2 DEF TypeOK, LocalType
      <4>4. ctx' \in [Execs -> BOOLEAN]
        BY <3>12 DEF Review, TypeOK, ExecType
      <4> QED BY <4>1, <4>2, <4>3, <4>4, GotoType DEF TypeOK, StoreType, ExecType
    <3>13. CASE Push(e)
      <4>1. \E from \in ExecPcs \ {"idle"}, to \in ExecPcs : Goto(e, from, to)
        BY <3>13 DEF Push, ExecPcs
      <4>2. DbType' /\ workspace' \subseteq Jobs /\ branch' \subseteq Jobs /\ pr' \subseteq Jobs
        BY <3>13, <4>1, GotoType DEF Push, TypeOK, DbType, StoreType, Statuses, Risks
      <4>3. LocalType'
        BY <3>13 DEF Push, getDiff, TypeOK, LocalType, Locals
      <4>4. ctx' \in [Execs -> BOOLEAN]
        BY <3>13 DEF Push, TypeOK, ExecType
      <4> QED BY <4>1, <4>2, <4>3, <4>4, GotoType DEF TypeOK, StoreType, ExecType
    <3>14. CASE PushRefused(e)
      <4>1. \E from \in ExecPcs \ {"idle"}, to \in ExecPcs : Goto(e, from, to)
        BY <3>14 DEF PushRefused, Leave, ExecPcs
      <4>2. DbType' /\ workspace' \subseteq Jobs /\ branch' \subseteq Jobs /\ pr' \subseteq Jobs
        BY <3>14, <4>1, GotoType DEF PushRefused, TypeOK, DbType, StoreType, Statuses, Risks
      <4>3. LocalType'
        BY <3>14, LeaveType DEF PushRefused, Leave
      <4>4. ctx' \in [Execs -> BOOLEAN]
        BY <3>14 DEF PushRefused, TypeOK, ExecType
      <4> QED BY <4>1, <4>2, <4>3, <4>4, GotoType DEF TypeOK, StoreType, ExecType
    <3>15. CASE OpenPR(e)
      <4>1. \E from \in ExecPcs \ {"idle"}, to \in ExecPcs : Goto(e, from, to)
        BY <3>15 DEF OpenPR, ExecPcs
      <4>2. DbType' /\ workspace' \subseteq Jobs /\ branch' \subseteq Jobs /\ pr' \subseteq Jobs
        BY <3>15, <4>1, GotoType DEF OpenPR, TypeOK, DbType, StoreType, Statuses, Risks
      <4>3. LocalType'
        BY <3>15 DEF OpenPR, TypeOK, LocalType
      <4>4. ctx' \in [Execs -> BOOLEAN]
        BY <3>15 DEF OpenPR, TypeOK, ExecType
      <4> QED BY <4>1, <4>2, <4>3, <4>4, GotoType DEF TypeOK, StoreType, ExecType
    <3>16. CASE DecideFinal(e)
      <4>1. \E from \in ExecPcs \ {"idle"}, to \in ExecPcs : Goto(e, from, to)
        BY <3>16 DEF DecideFinal, ExecPcs
      <4>2. DbType' /\ workspace' \subseteq Jobs /\ branch' \subseteq Jobs /\ pr' \subseteq Jobs
        BY <3>16, <4>1, GotoType DEF DecideFinal, TypeOK, DbType, StoreType, Statuses, Risks
      <4>3. LocalType'
        BY <3>16 DEF DecideFinal, TypeOK, LocalType
      <4>4. ctx' \in [Execs -> BOOLEAN]
        BY <3>16 DEF DecideFinal, TypeOK, ExecType
      <4> QED BY <4>1, <4>2, <4>3, <4>4, GotoType DEF TypeOK, StoreType, ExecType
    <3>17. CASE AskApproval(e)
      <4>1. \E from \in ExecPcs \ {"idle"}, to \in ExecPcs : Goto(e, from, to)
        BY <3>17 DEF AskApproval, ExecPcs
      <4>2. DbType' /\ workspace' \subseteq Jobs /\ branch' \subseteq Jobs /\ pr' \subseteq Jobs
        BY <3>17, <4>1, GotoType DEF AskApproval, TypeOK, DbType, StoreType, Statuses, Risks
      <4>3. LocalType'
        BY <3>17 DEF AskApproval, TypeOK, LocalType
      <4>4. ctx' \in [Execs -> BOOLEAN]
        BY <3>17 DEF AskApproval, TypeOK, ExecType
      <4> QED BY <4>1, <4>2, <4>3, <4>4, GotoType DEF TypeOK, StoreType, ExecType
    <3>18. CASE Finish(e)
      <4>1. \E from \in ExecPcs \ {"idle"}, to \in ExecPcs : Goto(e, from, to)
        BY <3>18 DEF Finish, ExecPcs
      <4>2. DbType' /\ workspace' \subseteq Jobs /\ branch' \subseteq Jobs /\ pr' \subseteq Jobs
        BY <3>18, <4>1, GotoType DEF Finish, TypeOK, DbType, StoreType, Statuses, Risks
      <4>3. LocalType'
        BY <3>18 DEF Finish, TypeOK, LocalType
      <4>4. ctx' \in [Execs -> BOOLEAN]
        BY <3>18 DEF Finish, TypeOK, ExecType
      <4> QED BY <4>1, <4>2, <4>3, <4>4, GotoType DEF TypeOK, StoreType, ExecType
    <3>19. CASE RunSucceeded(e)
      <4>1. \E from \in ExecPcs \ {"idle"}, to \in ExecPcs : Goto(e, from, to)
        BY <3>19 DEF RunSucceeded, Leave, ExecPcs
      <4>2. DbType' /\ workspace' \subseteq Jobs /\ branch' \subseteq Jobs /\ pr' \subseteq Jobs
        BY <3>19, <4>1, GotoType DEF RunSucceeded, TypeOK, DbType, StoreType, Statuses, Risks
      <4>3. LocalType'
        BY <3>19, LeaveType DEF RunSucceeded, Leave
      <4>4. ctx' \in [Execs -> BOOLEAN]
        BY <3>19 DEF RunSucceeded, TypeOK, ExecType
      <4> QED BY <4>1, <4>2, <4>3, <4>4, GotoType DEF TypeOK, StoreType, ExecType
    <3>20. CASE Throw(e)
      <4>1. \E from \in ExecPcs \ {"idle"}, to \in ExecPcs : Goto(e, from, to)
        BY <3>20 DEF Throw, Leave, ExecPcs
      <4>2. DbType' /\ workspace' \subseteq Jobs /\ branch' \subseteq Jobs /\ pr' \subseteq Jobs
        BY <3>20, <4>1, GotoType DEF Throw, TypeOK, DbType, StoreType, Statuses, Risks
      <4>3. LocalType'
        BY <3>20, LeaveType DEF Throw, Leave
      <4>4. ctx' \in [Execs -> BOOLEAN]
        BY <3>20 DEF Throw, TypeOK, ExecType
      <4> QED BY <4>1, <4>2, <4>3, <4>4, GotoType DEF TypeOK, StoreType, ExecType
    <3>21. CASE Catch(e)
      <4>1. \E from \in ExecPcs \ {"idle"}, to \in ExecPcs : Goto(e, from, to)
        BY <3>21 DEF Catch, ExecPcs
      <4>2. DbType' /\ workspace' \subseteq Jobs /\ branch' \subseteq Jobs /\ pr' \subseteq Jobs
        BY <3>21, <4>1, GotoType DEF Catch, TypeOK, DbType, StoreType, Statuses, Risks
      <4>3. LocalType'
        BY <3>21 DEF Catch, TypeOK, LocalType
      <4>4. ctx' \in [Execs -> BOOLEAN]
        BY <3>21 DEF Catch, TypeOK, ExecType
      <4> QED BY <4>1, <4>2, <4>3, <4>4, GotoType DEF TypeOK, StoreType, ExecType
    <3>22. CASE CatchSwallowed(e)
      BY <3>22 DEF CatchSwallowed, DbType, StoreType, WorkerType, ExecType,
                   LocalType, ReqType, workerVars, ExecPcs
    <3>23. CASE Cleanup(e)
      <4>1. DbType' /\ StoreType' /\ WorkerType' /\ LocalType' /\ ReqType'
        BY <3>23 DEF Cleanup, DbType, StoreType, WorkerType, LocalType, ReqType
      <4>2. ExecType'
        BY <3>23 DEF Cleanup, ExecType, ExecPcs
      <4> QED BY <4>1, <4>2
    <3> QED
      BY <2>2, <3>1, <3>2, <3>3, <3>4, <3>5, <3>6, <3>7, <3>8, <3>9, <3>10, <3>11,
         <3>12, <3>13, <3>14, <3>15, <3>16, <3>17, <3>18, <3>19, <3>20, <3>21,
         <3>22, <3>23 DEF ExecStep
  <2>3. ASSUME NEW r \in Requests, ApiStep(r) PROVE TypeOK'
    <3>1. ASSUME ApiFrame PROVE WorkerType' /\ ExecType' /\ LocalType'
      BY <3>1 DEF ApiFrame, WorkerType, ExecType, LocalType, workerVars, execVars
    <3>2. ASSUME Answered(r) PROVE ReqType'
      BY <3>2 DEF Answered, IdleRequest, ReqType, Decisions, Statuses
    <3>3. ASSUME NEW p \in {"enqueue", "cancel", "retry"}, NEW j \in Jobs,
                 Begin(r, p, j)
          PROVE  ReqType'
      BY <3>3, BeginType DEF Begin
    <3> USE <3>1, <3>2, <3>3 DEF DbType, StoreType, dbVars, repoVars, ApiFrame
    <3>4. CASE enqueueJob(r)
      BY <3>4 DEF enqueueJob, ReqType
    <3>5. CASE CancelWrite(r)
      BY <3>5 DEF CancelWrite, ReqType, Statuses
    <3>6. CASE RetryWrite(r)
      <4>1. req[r].job \in Jobs
        BY <3>6 DEF RetryWrite, ReqType
      <4>2. ReqType'
        BY <3>6, <4>1, BeginType DEF RetryWrite
      <4> QED BY <3>6, <4>2 DEF RetryWrite, Statuses
    <3>7. CASE DecideMark(r)
      <4> USE <3>7 DEF DecideMark
      <4>1. StoreType' /\ WorkerType' /\ ExecType' /\ LocalType'
        OBVIOUS
      <4>2. ReqType'
        <5>1. CASE req' = [req EXCEPT ![r].pc = "decide"]
          <6>1. req[r].job \in Jobs
            BY DEF ReqType
          <6> QED BY <5>1, <6>1, BeginType
        <5> QED BY <5>1
      <4>3. DbType'
        <5>1. req[r].job \in Jobs /\ req[r].decision \in Decisions
          BY DEF ReqType
        <5>2. [approvals[req[r].job] EXCEPT ![req[r].approval] = req[r].decision]
                \in Seq(Decisions \cup {"PENDING"})
          BY <5>1, SeqExcept
        <5> QED BY <5>1, <5>2
      <4> QED BY <4>1, <4>2, <4>3
    <3>8. CASE DecideWrite(r)
      BY <3>8, TablesType DEF DecideWrite, ReqType, Statuses, Working
    <3>9. CASE ApiFail(r)
      BY <3>9 DEF ApiFail, ReqType
    <3>10. ASSUME NEW j \in Jobs, CreateJob(r, j) PROVE TypeOK'
      BY <3>10 DEF CreateJob, Statuses
    <3>11. ASSUME NEW j \in Jobs, CancelRead(r, j) PROVE TypeOK'
      BY <3>11 DEF CancelRead
    <3>12. ASSUME NEW j \in Jobs, RetryRead(r, j) PROVE TypeOK'
      BY <3>12 DEF RetryRead
    <3>13. ASSUME NEW j \in Jobs, NEW i \in DOMAIN approvals[j],
                  NEW d \in Decisions, DecideRead(r, j, i, d)
           PROVE TypeOK'
      BY <3>13 DEF DecideRead, ReqType
    <3> QED
      BY <2>3, <3>4, <3>5, <3>6, <3>7, <3>8, <3>9, <3>10, <3>11, <3>12, <3>13 DEF ApiStep
  <2>4. CASE UNCHANGED vars
    BY <2>4 DEF vars, dbVars, repoVars, workerVars, execVars,
                DbType, StoreType, WorkerType, ExecType, LocalType, ReqType
  <2> QED
    BY <2>1, <2>2, <2>3, <2>4 DEF Next
<1> QED
  BY <1>1, <1>2, PTL DEF Spec
-----------------------------------------------------------------------------
(* No hand-over loses a job *)

DrivingPcs == ExecPcs \ {"idle", "runDone", "cleanup"}

\* A step that keeps executor e responsible for its job, whatever it writes to
\* that job's status.
KeepsDriving(e) ==
  /\ \E from \in ExecPcs \ {"idle"}, to \in DrivingPcs : Goto(e, from, to)
  /\ status' = status \/ \E s : status' = [status EXCEPT ![jobOf[e]] = s]

\* All but the last steps of executeJob keep the executor responsible.
LEMMA ExecShapes ==
  ASSUME TypeOK, NEW e \in Execs, ExecStep(e)
  PROVE  \/ KeepsDriving(e) \/ Finish(e) \/ RunSucceeded(e) \/ Catch(e)
         \/ CatchSwallowed(e) \/ Cleanup(e)
<1> USE DEF KeepsDriving, DrivingPcs, ExecPcs, dbVars
<1>1. CASE Load(e)
  BY <1>1 DEF Load, GotoUpdate
<1>2. CASE UpdateRead(e)
  BY <1>2, TablesType DEF UpdateRead, TypeOK, LocalType, Locals
<1>3. CASE UpdateWrite(e)
  BY <1>3, TablesType DEF UpdateWrite, TypeOK, LocalType, Locals
<1>4. CASE CreateRun(e)
  BY <1>4 DEF CreateRun
<1>5. CASE CloneStart(e)
  BY <1>5 DEF CloneStart
<1>6. CASE CloneRefused(e)
  BY <1>6 DEF CloneRefused, Leave
<1>7. CASE CloneDone(e)
  BY <1>7 DEF CloneDone, GotoUpdate
<1>8. CASE CloneFailed(e)
  BY <1>8 DEF CloneFailed, Leave
<1>9. CASE Plan(e)
  BY <1>9 DEF Plan, GotoUpdate
<1>10. CASE Code(e)
  BY <1>10 DEF Code
<1>11. CASE Test(e)
  BY <1>11 DEF Test
<1>12. CASE Review(e)
  BY <1>12 DEF Review
<1>13. CASE Push(e)
  BY <1>13 DEF Push
<1>14. CASE PushRefused(e)
  BY <1>14 DEF PushRefused, Leave
<1>15. CASE OpenPR(e)
  BY <1>15 DEF OpenPR
<1>16. CASE DecideFinal(e)
  BY <1>16 DEF DecideFinal
<1>17. CASE AskApproval(e)
  BY <1>17 DEF AskApproval
<1>18. CASE Throw(e)
  BY <1>18 DEF Throw, Leave
<1> QED
  BY <1>1, <1>2, <1>3, <1>4, <1>5, <1>6, <1>7, <1>8, <1>9, <1>10, <1>11, <1>12, <1>13, <1>14, <1>15, <1>16, <1>17, <1>18 DEF ExecStep

\* A job shown as queued or in progress is driven by the queue, the worker, a
\* request or an executor, or is one of the strandings the model names.
THEOREM NoSilentOrphanHolds == Spec => []NoSilentOrphan
<1>1. Init => NoSilentOrphan
  BY DEF Init, NoSilentOrphan, Working
<1>2. TypeOK /\ TypeOK' /\ NoSilentOrphan /\ [Next]_vars => NoSilentOrphan'
  <2> SUFFICES ASSUME TypeOK, TypeOK', NoSilentOrphan, [Next]_vars,
                      NEW j \in Jobs, status'[j] \in Working \cup {"QUEUED"}
               PROVE  Driven(j)' \/ j \in stranded'
    BY DEF NoSilentOrphan
  <2> USE ConstantsAssumption DEF NoSilentOrphan, Driven
  <2>1. CASE WorkerStep
    <3>1. CASE PollIssue \/ PollBusy \/ PollNothing \/ ShutDown \/ StopWaiting \/ Restart
      BY <3>1 DEF PollIssue, PollBusy, PollNothing, ShutDown, StopWaiting, Restart, vars,
                  dbVars, workerVars, execVars, Driving
    <3>2. CASE PollPop
      BY <3>2 DEF PollPop, dbVars, execVars, Driving, TypeOK, WorkerType
    <3>3. CASE PollReplyLost
      BY <3>3 DEF PollReplyLost, dbVars, execVars, Driving
    <3>4. ASSUME NEW e \in Execs, StartJob(e) PROVE Driven(j)' \/ j \in stranded'
      <4>1. CASE polled = j
        <5>1. e \in Driving' /\ jobOf'[e] = j
          BY <3>4, <4>1 DEF StartJob, Driving, TypeOK, ExecType
        <5> QED BY <5>1
      <4>2. CASE \E f \in Driving : jobOf[f] = j
        <5>1. PICK f \in Driving : jobOf[f] = j
          BY <4>2
        <5>2. f \in Driving' /\ jobOf'[f] = j
          BY <3>4, <5>1 DEF StartJob, Driving, TypeOK, ExecType
        <5> QED BY <5>2
      <4> QED BY <3>4, <4>1, <4>2 DEF StartJob, dbVars
    <3>5. CASE Exit \/ Crash
      <4>1. /\ status' = status /\ queue' = queue /\ req' = req
            /\ stranded' = stranded \cup {jobOf[e] : e \in Driving}
                                    \cup (IF loop = "got" THEN {polled} ELSE {})
        BY <3>5 DEF Exit, Crash, Die, dbVars
      <4> QED BY <4>1 DEF TypeOK, WorkerType
    <3> QED BY <2>1, <3>1, <3>2, <3>3, <3>4, <3>5 DEF WorkerStep
  <2>2. ASSUME NEW e \in Execs, ExecStep(e) PROVE Driven(j)' \/ j \in stranded'
    \* what drives a job other than e's goes on doing so
    <3>1. ASSUME \/ \E from \in ExecPcs, to \in ExecPcs : Goto(e, from, to)
                 \/ CatchSwallowed(e) \/ Cleanup(e),
                 j # jobOf[e] \/ ~(e \in Driving), status'[j] = status[j]
          PROVE  Driven(j)' \/ j \in stranded'
      <4>1. /\ queue' = queue /\ polled' = polled /\ req' = req
            /\ stranded \subseteq stranded'
        BY <3>1 DEF Goto, CatchSwallowed, Cleanup, workerVars
      <4>2. ASSUME NEW f \in Driving, jobOf[f] = j PROVE Driven(j)'
        <5>1. f # e
          BY <3>1, <4>2
        <5>2. f \in Driving' /\ jobOf'[f] = j
          BY <3>1, <4>2, <5>1
          DEF Goto, CatchSwallowed, Cleanup, Driving, TypeOK, ExecType
        <5> QED BY <5>2
      <4> QED BY <3>1, <4>1, <4>2
    <3>2. CASE KeepsDriving(e)
      <4>1. e \in Driving' /\ jobOf'[e] = jobOf[e]
        BY <3>2 DEF KeepsDriving, Goto, DrivingPcs, Driving, TypeOK, ExecType
      <4>2. CASE j = jobOf[e]
        BY <4>1, <4>2
      <4>3. CASE j # jobOf[e]
        <5>1. status'[j] = status[j]
          BY <3>2, <4>3 DEF KeepsDriving, TypeOK, DbType
        <5> QED BY <3>1, <3>2, <4>3, <5>1 DEF KeepsDriving, DrivingPcs
      <4> QED BY <4>2, <4>3
    <3>3. CASE Finish(e) \/ Catch(e)
      <4>1. /\ \E from \in ExecPcs, to \in ExecPcs : Goto(e, from, to)
            /\ status'[jobOf[e]] \notin Working \cup {"QUEUED"}
            /\ j # jobOf[e] => status'[j] = status[j]
        BY <3>3 DEF Finish, Catch, Goto, ExecPcs, Working, TypeOK, DbType, ExecType
      <4> QED BY <3>1, <4>1
    <3>4. CASE RunSucceeded(e)
      <4>1. /\ \E from \in ExecPcs, to \in ExecPcs : Goto(e, from, to)
            /\ ~(e \in Driving) /\ status' = status
        BY <3>4 DEF RunSucceeded, Leave, Goto, ExecPcs, dbVars, Driving
      <4> QED BY <3>1, <4>1
    <3>5. CASE CatchSwallowed(e)
      <4>1. status' = status /\ jobOf[e] \in stranded'
        BY <3>5 DEF CatchSwallowed, dbVars
      <4> QED BY <3>1, <3>5, <4>1
    <3>6. CASE Cleanup(e)
      <4>1. ~(e \in Driving) /\ status' = status
        BY <3>6 DEF Cleanup, dbVars, Driving
      <4> QED BY <3>1, <3>6, <4>1
    <3> QED BY <2>2, <3>2, <3>3, <3>4, <3>5, <3>6, ExecShapes
  <2>3. ASSUME NEW r \in Requests, ApiStep(r) PROVE Driven(j)' \/ j \in stranded'
    \* a handler disturbs only what its own request drives
    <3>1. ASSUME ApiFrame, NEW q, req' = [req EXCEPT ![r] = q],
                 queue \subseteq queue', j \in stranded => j \in stranded' \cup queue',
                 req[r].pc = "enqueue" /\ req[r].job = j
                   => \/ q.pc = "enqueue" /\ q.job = j
                      \/ j \in queue' \cup stranded',
                 Driven(j) \/ j \in stranded
          PROVE  Driven(j)' \/ j \in stranded'
      <4>1. polled' = polled /\ Driving' = Driving /\ jobOf' = jobOf
        BY <3>1 DEF ApiFrame, workerVars, execVars, Driving
      <4>2. ASSUME NEW x \in Requests, req[x].pc = "enqueue", req[x].job = j
            PROVE  Driven(j)' \/ j \in stranded'
        BY <3>1, <4>2 DEF TypeOK, ReqType
      <4> QED BY <3>1, <4>1, <4>2
    <3>2. CASE enqueueJob(r)
      BY <3>1, <3>2 DEF enqueueJob, Answered, dbVars
    <3>3. CASE CancelWrite(r)
      BY <3>1, <3>3 DEF CancelWrite, Answered, Working, TypeOK, DbType
    <3>4. CASE RetryWrite(r)
      <4>1. CASE j = req[r].job
        <5>1. req'[r].pc = "enqueue" /\ req'[r].job = j
          BY <3>4, <4>1 DEF RetryWrite, TypeOK, ReqType
        <5> QED BY <5>1
      <4>2. CASE j # req[r].job
        <5>1. /\ status'[j] = status[j]
              /\ req' = [req EXCEPT ![r] = [req[r] EXCEPT !.pc = "enqueue"]]
          BY <3>4, <4>2 DEF RetryWrite, TypeOK, DbType
        <5> QED BY <3>1, <3>4, <4>2, <5>1 DEF RetryWrite
      <4> QED BY <4>1, <4>2
    <3>5. CASE DecideMark(r)
      <4>1. req' = [req EXCEPT ![r] = [req[r] EXCEPT !.pc = "decide"]]
              \/ req' = [req EXCEPT ![r] = IdleRequest]
        BY <3>5 DEF DecideMark, Answered
      <4> QED BY <3>1, <3>5, <4>1 DEF DecideMark
    <3>6. CASE DecideWrite(r)
      <4>1. CASE j = req[r].job
        BY <3>6, <4>1, TablesType DEF DecideWrite, TypeOK, DbType, ReqType, Working
      <4>2. CASE j # req[r].job
        BY <3>1, <3>6, <4>2 DEF DecideWrite, Answered, TypeOK, DbType
      <4> QED BY <4>1, <4>2
    <3>7. CASE ApiFail(r)
      BY <3>1, <3>7 DEF ApiFail, Answered, dbVars
    <3>8. ASSUME NEW k \in Jobs, NEW p \in {"enqueue", "cancel", "retry"},
                 Begin(r, p, k), ApiFrame, queue' = queue, stranded' = stranded,
                 status'[j] = status[j]
          PROVE  Driven(j)' \/ j \in stranded'
      <4>1. req' = [req EXCEPT ![r] = [req[r] EXCEPT !.pc = p, !.job = k]]
              /\ req[r].pc = "idle"
        BY <3>8 DEF Begin, TypeOK, ReqType
      <4> QED BY <3>1, <3>8, <4>1
    <3>9. ASSUME NEW k \in Jobs, CreateJob(r, k) PROVE Driven(j)' \/ j \in stranded'
      <4>1. CASE j = k
        <5>1. req'[r].pc = "enqueue" /\ req'[r].job = j
          BY <3>9, <4>1 DEF CreateJob, Begin, TypeOK, ReqType
        <5> QED BY <5>1
      <4>2. CASE j # k
        BY <3>8, <3>9, <4>2 DEF CreateJob, TypeOK, DbType
      <4> QED BY <4>1, <4>2
    <3>10. ASSUME NEW k \in Jobs, CancelRead(r, k) \/ RetryRead(r, k)
           PROVE Driven(j)' \/ j \in stranded'
      BY <3>8, <3>10 DEF CancelRead, RetryRead, dbVars
    <3>11. ASSUME NEW k \in Jobs, NEW i \in DOMAIN approvals[k],
                  NEW d \in Decisions, DecideRead(r, k, i, d)
           PROVE  Driven(j)' \/ j \in stranded'
      BY <3>1, <3>11 DEF DecideRead, dbVars
    <3> QED
      BY <2>3, <3>2, <3>3, <3>4, <3>5, <3>6, <3>7, <3>9, <3>10, <3>11 DEF ApiStep
  <2>4. CASE UNCHANGED vars
    BY <2>4 DEF vars, dbVars, workerVars, execVars, Driving
  <2> QED BY <2>1, <2>2, <2>3, <2>4 DEF Next
<1> QED
  BY <1>1, <1>2, TypeCorrect, PTL DEF Spec
-----------------------------------------------------------------------------
(* One execution at a time in a job's directory *)

\* gitCtx is set only behind the clone: a try block that has it never comes
\* back to the first updateJobStatus call, the run or the clone.
CtxInv ==
  \A e \in Execs : ctx[e] =>
    /\ pc[e] \notin {"idle", "load", "run", "clone", "branch"}
    /\ pc[e] \in {"read", "write"} => local[e].upd # 1

MutexInv == CtxInv /\ WorkspaceMutex

\* A step of e that leaves the directories, gitCtx and all jobs alone and does
\* not bring e into the clone unless its first update has just been dealt with.
MovesOn(e) ==
  /\ UNCHANGED <<workspace, ctx, jobOf>>
  /\ \A f \in Execs \ {e} : pc'[f] = pc[f] /\ local'[f] = local[f]
  /\ pc[e] \notin {"idle", "branch"} /\ pc'[e] \notin {"idle", "load", "branch"}
  /\ pc'[e] \in {"run", "clone"} =>
       pc[e] = "run" \/ (pc[e] \in {"read", "write"} /\ local[e].upd = 1)
  /\ pc'[e] \in {"read", "write"} =>
       \/ pc[e] = "load" \/ local'[e].upd # 1
       \/ pc[e] = "read" /\ local'[e].upd = local[e].upd

\* A step that only moves e does so, and leaves the others where they are.
LEMMA GotoMoves ==
  ASSUME TypeOK, NEW e \in Execs, NEW from, NEW to, Goto(e, from, to)
  PROVE  /\ pc[e] = from /\ pc'[e] = to /\ jobOf' = jobOf
         /\ \A f \in Execs \ {e} : pc'[f] = pc[f]
BY DEF TypeOK, ExecType, Goto

\* The local variables of one executor change, to what they are given.
LEMMA LocalMoves ==
  ASSUME TypeOK, NEW e \in Execs, NEW l, local' = [local EXCEPT ![e] = l]
  PROVE  local'[e] = l /\ \A f \in Execs \ {e} : local'[f] = local[f]
BY DEF TypeOK, LocalType

\* Moving on to another updateJobStatus call leaves the other executors' locals alone.
LEMMA UpdMoves ==
  ASSUME TypeOK, NEW e \in Execs, NEW u \in 1..5, local' = [local EXCEPT ![e].upd = u]
  PROVE  local'[e].upd = u /\ \A f \in Execs \ {e} : local'[f] = local[f]
<1>1. local \in [Execs -> Locals] /\ local[e] \in Locals
  BY DEF TypeOK, LocalType
<1>2. [local[e] EXCEPT !.upd = u].upd = u
  BY <1>1 DEF Locals
<1> QED BY <1>1, <1>2

\* All but four steps of executeJob only move on.
LEMMA MoveShapes ==
  ASSUME TypeOK, NEW e \in Execs, ExecStep(e)
  PROVE  MovesOn(e) \/ CloneStart(e) \/ CloneDone(e) \/ CloneFailed(e) \/ Cleanup(e)
<1>0. local[e] \in Locals
  BY DEF TypeOK, LocalType
<1> USE DEF MovesOn, repoVars
<1>1. CASE Load(e)
  <2>1. PICK l : l = [local[e] EXCEPT !.upd = 1]
    OBVIOUS
  <2> QED BY <1>1, <2>1, GotoMoves, LocalMoves DEF Load, GotoUpdate
<1>2. CASE UpdateRead(e)
  <2>1. local[e].upd \in 1..5 /\ local' = local
    BY <1>0, <1>2 DEF UpdateRead, Locals
  <2>2. Updates[local[e].upd].next = "run" <=> local[e].upd = 1
    BY <2>1 DEF Updates
  <2> QED BY <1>2, <2>1, <2>2, TablesType, GotoMoves DEF UpdateRead
<1>3. CASE UpdateWrite(e)
  <2>1. local[e].upd \in 1..5 /\ local' = local
    BY <1>0, <1>3 DEF UpdateWrite, Locals
  <2>2. Updates[local[e].upd].next = "run" <=> local[e].upd = 1
    BY <2>1 DEF Updates
  <2> QED BY <1>3, <2>1, <2>2, TablesType, GotoMoves DEF UpdateWrite
<1>4. CASE CreateRun(e)
  BY <1>4, GotoMoves DEF CreateRun
<1>5. CASE CloneRefused(e)
  BY <1>5, GotoMoves, LocalMoves DEF CloneRefused, Leave
<1>6. CASE Plan(e)
  <2>1. Goto(e, "plan", "read") /\ UNCHANGED <<workspace, ctx>>
    BY <1>6 DEF Plan, GotoUpdate
  <2>2. local'[e].upd = 3 /\ \A f \in Execs \ {e} : local'[f] = local[f]
    BY <1>6, UpdMoves, 3 \in 1..5 DEF Plan, GotoUpdate
  <2> QED BY <2>1, <2>2, GotoMoves
<1>7. CASE Code(e)
  <2>1. Goto(e, "code", "read") /\ UNCHANGED <<workspace, ctx>>
    BY <1>7 DEF Code
  <2>2. PICK c \in BOOLEAN : local' = [local EXCEPT ![e].upd = 4, ![e].changed = c]
    BY <1>7 DEF Code
  <2>3. local'[e].upd = 4 /\ \A f \in Execs \ {e} : local'[f] = local[f]
    BY <1>0, <2>2 DEF TypeOK, LocalType, Locals
  <2> QED BY <2>1, <2>3, GotoMoves
<1>8. CASE Test(e)
  <2>1. Goto(e, "test", "read") /\ UNCHANGED <<workspace, ctx>>
    BY <1>8 DEF Test
  <2>2. PICK c \in BOOLEAN : local' = [local EXCEPT ![e].upd = 5, ![e].changed = c]
    BY <1>8 DEF Test
  <2>3. local'[e].upd = 5 /\ \A f \in Execs \ {e} : local'[f] = local[f]
    BY <1>0, <2>2 DEF TypeOK, LocalType, Locals
  <2> QED BY <2>1, <2>3, GotoMoves
<1>9. CASE Review(e)
  <2>1. Goto(e, "review", "push") /\ UNCHANGED <<workspace, ctx>>
    BY <1>9 DEF Review
  <2>2. PICK s \in BOOLEAN : local' = [local EXCEPT ![e].reviewed = getDiff(e), ![e].safe = s]
    BY <1>9 DEF Review
  <2>3. \A f \in Execs \ {e} : local'[f] = local[f]
    BY <2>2 DEF TypeOK, LocalType
  <2> QED BY <2>1, <2>3, GotoMoves
<1>10. CASE Push(e)
  <2>1. PICK l : local' = [local EXCEPT ![e] = l]
    BY <1>10 DEF Push
  <2> QED BY <1>10, <2>1, GotoMoves, LocalMoves DEF Push
<1>11. CASE PushRefused(e)
  BY <1>11, GotoMoves, LocalMoves DEF PushRefused, Leave
<1>12. CASE OpenPR(e)
  BY <1>12, GotoMoves DEF OpenPR
<1>13. CASE DecideFinal(e)
  BY <1>13, GotoMoves DEF DecideFinal
<1>14. CASE AskApproval(e)
  BY <1>14, GotoMoves DEF AskApproval
<1>15. CASE Finish(e)
  BY <1>15, GotoMoves DEF Finish
<1>16. CASE RunSucceeded(e)
  BY <1>16, GotoMoves, LocalMoves DEF RunSucceeded, Leave
<1>17. CASE Throw(e)
  BY <1>17, GotoMoves, LocalMoves DEF Throw, Leave
<1>18. CASE Catch(e)
  BY <1>18, GotoMoves DEF Catch
<1>19. CASE CatchSwallowed(e)
  BY <1>19 DEF CatchSwallowed, TypeOK, ExecType
<1> QED
  BY <1>1, <1>2, <1>3, <1>4, <1>5, <1>6, <1>7, <1>8, <1>9, <1>10, <1>11, <1>12, <1>13,
     <1>14, <1>15, <1>16, <1>17, <1>18, <1>19 DEF ExecStep

\* Executions of one job never meet in its directory, for any number of
\* executors, retries and crashes.
THEOREM WorkspaceMutexHolds == Spec => []WorkspaceMutex
<1>1. Init => MutexInv
  BY DEF Init, MutexInv, CtxInv, WorkspaceMutex, Holds
<1>2. TypeOK /\ MutexInv /\ [Next]_vars => MutexInv'
  <2> SUFFICES ASSUME TypeOK, MutexInv, [Next]_vars PROVE MutexInv'
    OBVIOUS
  <2> USE DEF MutexInv, CtxInv, WorkspaceMutex, Holds
  <2>1. ASSUME UNCHANGED <<workspace, execVars>> PROVE MutexInv'
    BY <2>1 DEF execVars
  <2>2. CASE WorkerStep
    <3>1. ASSUME NEW e \in Execs, StartJob(e) PROVE MutexInv'
      <4>1. /\ workspace' = workspace /\ ctx' = ctx /\ local' = local
            /\ pc[e] = "idle" /\ pc' = [pc EXCEPT ![e] = "load"]
            /\ jobOf' = [jobOf EXCEPT ![e] = polled]
        BY <3>1 DEF StartJob, repoVars
      <4>2. ~ctx[e] /\ ~Holds(e)'
        BY <4>1 DEF TypeOK, ExecType
      <4> QED BY <4>1, <4>2 DEF TypeOK, ExecType
    <3>2. CASE Exit \/ Crash
      BY <3>2 DEF Exit, Crash, Die
    <3>3. CASE \/ PollIssue \/ PollBusy \/ PollPop \/ PollNothing \/ PollReplyLost
               \/ ShutDown \/ StopWaiting \/ Restart
      BY <2>1, <3>3 DEF PollIssue, PollBusy, PollPop, PollNothing, PollReplyLost, ShutDown,
                        StopWaiting, Restart, vars, repoVars
    <3> QED BY <2>2, <3>1, <3>2, <3>3 DEF WorkerStep
  <2>3. ASSUME NEW e \in Execs, ExecStep(e) PROVE MutexInv'
    <3>1. CASE MovesOn(e)
      <4>1. \A f \in Execs : Holds(f)' <=> Holds(f)
        BY <3>1 DEF MovesOn
      <4>2. WorkspaceMutex'
        BY <3>1, <4>1 DEF MovesOn
      <4>3. CtxInv'
        BY <3>1 DEF MovesOn
      <4> QED BY <4>2, <4>3
    <3>2. CASE CloneStart(e)
      <4>1. /\ ~Holds(e) /\ pc[e] = "clone" /\ pc'[e] = "branch"
            /\ \A f \in Execs : Holds(f) => jobOf[f] # jobOf[e]
        BY <3>2, GotoMoves DEF CloneStart
      <4> QED BY <3>2, <4>1, GotoMoves DEF CloneStart
    <3>3. CASE CloneDone(e)
      <4>1. /\ Goto(e, "branch", "read")
            /\ local' = [local EXCEPT ![e].upd = 2]
            /\ ctx' = [ctx EXCEPT ![e] = TRUE] /\ workspace' = workspace
        BY <3>3 DEF CloneDone, GotoUpdate, repoVars
      <4>2. local'[e].upd = 2 /\ \A f \in Execs \ {e} : local'[f] = local[f]
        BY <4>1, UpdMoves, 2 \in 1..5
      <4>3. \A f \in Execs : Holds(f)' <=> Holds(f)
        BY <4>1, GotoMoves DEF TypeOK, ExecType
      <4>4. WorkspaceMutex'
        BY <4>1, <4>3, GotoMoves
      <4>5. CtxInv'
        BY <4>1, <4>2, GotoMoves DEF TypeOK, ExecType
      <4> QED BY <4>4, <4>5
    <3>4. CASE CloneFailed(e)
      <4>1. /\ Goto(e, "branch", "catch") /\ ctx' = ctx
            /\ workspace' \in {workspace, workspace \ {jobOf[e]}}
            /\ \A f \in Execs \ {e} : local'[f] = local[f]
        BY <3>4, LocalMoves DEF CloneFailed, Leave
      <4>2. /\ ~ctx[e] /\ ~Holds(e)'
            /\ \A f \in Execs \ {e} : Holds(f)' <=> Holds(f)
            /\ \A f \in Execs \ {e} : Holds(f) => jobOf[f] # jobOf[e]
        BY <4>1, GotoMoves
      <4>3. WorkspaceMutex'
        BY <4>1, <4>2, GotoMoves
      <4>4. CtxInv'
        BY <4>1, <4>2, GotoMoves
      <4> QED BY <4>3, <4>4
    <3>5. CASE Cleanup(e)
      BY <3>5 DEF Cleanup, TypeOK, ExecType
    <3> QED BY <2>3, <3>1, <3>2, <3>3, <3>4, <3>5, MoveShapes
  <2>4. ASSUME NEW r \in Requests, ApiStep(r) PROVE MutexInv'
    <3>1. ApiFrame
      BY <2>4 DEF ApiStep, enqueueJob, CancelWrite, RetryWrite, DecideMark, DecideWrite,
                  ApiFail, CreateJob, CancelRead, RetryRead, DecideRead
    <3> QED BY <2>1, <3>1 DEF ApiFrame, repoVars
  <2>5. CASE UNCHANGED vars
    BY <2>1, <2>5 DEF vars, repoVars
  <2> QED BY <2>2, <2>3, <2>4, <2>5 DEF Next
<1> QED
  BY <1>1, <1>2, TypeCorrect, PTL DEF Spec, MutexInv
-----------------------------------------------------------------------------
(* One question to a human, and nothing finished without an answer *)

\* Behind the push, and before the question to a human.
PushedPcs == {"openPR", "decide", "ask"}

\* Only one execution of a job ever gets behind the push, because its branch is
\* there from then on; nobody was asked before, and the question comes behind
\* the pull request.
PushInv ==
  /\ \A e \in Execs : pc[e] \in PushedPcs => jobOf[e] \in branch /\ approvals[jobOf[e]] = << >>
  /\ \A e, f \in Execs :
       pc[e] \in PushedPcs /\ pc[f] \in PushedPcs /\ jobOf[e] = jobOf[f] => e = f
  /\ \A e \in Execs : pc[e] \in {"decide", "ask", "await"} => jobOf[e] \in pr
  /\ \A j \in Jobs : approvals[j] # << >> => j \in branch

\* No job has the risk that merges by itself, so none is completed; a handler
\* about to set a job's status has stored its decision.
DecisionInv ==
  /\ \A j \in Jobs : risk[j] \notin RISK_AUTO_MERGE
  /\ \A e \in Execs : pc[e] # "complete"
  /\ \A r \in Requests : req[r].pc \in {"mark", "decide"} =>
       req[r].approval \in DOMAIN approvals[req[r].job]
  /\ \A r \in Requests : req[r].pc = "decide" =>
       approvals[req[r].job][req[r].approval] # "PENDING"

\* What HumanGate comes to as long as no code assigns the level LOW.
HumanDecides ==
  \A j \in Jobs :
    /\ status[j] \in {"AWAITING_APPROVAL", "APPROVED", "COMPLETED"} => j \in pr
    /\ status[j] \in {"APPROVED", "COMPLETED"}
         => \E i \in DOMAIN approvals[j] : approvals[j][i] # "PENDING"

GateInv == PushInv /\ AskedOnce /\ DecisionInv /\ HumanDecides

\* A step of e that touches neither branches, pull requests, approvals nor
\* requests, ends behind neither push nor decision, raises no risk to the one
\* that merges, and sets no status a human has a say in.
Quiet(e) ==
  /\ UNCHANGED <<approvals, branch, pr, req>>
  /\ \A f \in Execs \ {e} : pc'[f] = pc[f] /\ jobOf'[f] = jobOf[f]
  /\ pc'[e] \notin PushedPcs \cup {"await", "complete"}
  /\ \A j \in Jobs : risk'[j] = risk[j] \/ risk'[j] \notin RISK_AUTO_MERGE
  /\ \A j \in Jobs : status'[j] = status[j] \/ status'[j] \in Working \cup {"FAILED"}

\* A quiet step keeps the gate.
LEMMA QuietKeepsGate ==
  ASSUME TypeOK, GateInv, NEW e \in Execs, Quiet(e)
  PROVE  GateInv'
<1> USE DEF GateInv, Quiet
<1>1. PushInv'
  BY DEF PushInv, PushedPcs
<1>2. AskedOnce'
  BY DEF AskedOnce
<1>3. DecisionInv'
  BY DEF DecisionInv, PushedPcs
<1>4. HumanDecides'
  BY DEF HumanDecides, Working
<1> QED BY <1>1, <1>2, <1>3, <1>4

\* All but five steps of executeJob are quiet.
LEMMA QuietShapes ==
  ASSUME TypeOK, NEW e \in Execs, ExecStep(e)
  PROVE  Quiet(e) \/ Push(e) \/ OpenPR(e) \/ DecideFinal(e) \/ AskApproval(e) \/ Finish(e)
<1> USE DEF Quiet, PushedPcs, repoVars, dbVars
<1>0. ASSUME NEW from, NEW to, Goto(e, from, to) PROVE req' = req
  BY <1>0 DEF Goto
<1>1. CASE Load(e)
  BY <1>0, <1>1, GotoMoves DEF Load, GotoUpdate
<1>2. CASE UpdateRead(e)
  <2>1. local[e].upd \in 1..5
    BY DEF TypeOK, LocalType, Locals
  <2> QED BY <1>0, <1>2, <2>1, GotoMoves, TablesType DEF UpdateRead
<1>3. CASE UpdateWrite(e)
  <2>1. local[e].upd \in 1..5
    BY DEF TypeOK, LocalType, Locals
  <2>2. \A j \in Jobs : status'[j] = status[j] \/ status'[j] \in Working
    BY <1>3, <2>1, TablesType DEF UpdateWrite, TypeOK, DbType
  <2> QED BY <1>0, <1>3, <2>1, <2>2, GotoMoves, TablesType DEF UpdateWrite
<1>4. CASE CreateRun(e)
  BY <1>0, <1>4, GotoMoves DEF CreateRun
<1>5. CASE CloneStart(e)
  BY <1>0, <1>5, GotoMoves DEF CloneStart
<1>6. CASE CloneRefused(e)
  BY <1>0, <1>6, GotoMoves DEF CloneRefused, Leave
<1>7. CASE CloneDone(e)
  BY <1>0, <1>7, GotoMoves DEF CloneDone, GotoUpdate
<1>8. CASE CloneFailed(e)
  BY <1>0, <1>8, GotoMoves DEF CloneFailed, Leave
<1>9. CASE Plan(e)
  <2>1. Goto(e, "plan", "read") /\ UNCHANGED <<status, approvals, branch, pr>>
    BY <1>9 DEF Plan, GotoUpdate
  <2>2. \A j \in Jobs : risk'[j] = risk[j] \/ risk'[j] \notin RISK_AUTO_MERGE
    BY <1>9 DEF Plan, RISK_AUTO_MERGE, TypeOK, DbType
  <2> QED BY <1>0, <2>1, <2>2, GotoMoves
<1>10. CASE Code(e)
  <2>1. Goto(e, "code", "read") /\ UNCHANGED <<dbVars, repoVars>>
    BY <1>10 DEF Code
  <2> QED BY <1>0, <2>1, GotoMoves
<1>11. CASE Test(e)
  <2>1. Goto(e, "test", "read") /\ UNCHANGED <<dbVars, repoVars>>
    BY <1>11 DEF Test
  <2> QED BY <1>0, <2>1, GotoMoves
<1>12. CASE Review(e)
  <2>1. Goto(e, "review", "push") /\ UNCHANGED <<dbVars, repoVars>>
    BY <1>12 DEF Review
  <2> QED BY <1>0, <2>1, GotoMoves
<1>13. CASE PushRefused(e)
  BY <1>0, <1>13, GotoMoves DEF PushRefused, Leave
<1>14. CASE RunSucceeded(e)
  BY <1>0, <1>14, GotoMoves DEF RunSucceeded, Leave
<1>15. CASE Throw(e)
  <2>1. PICK p : Goto(e, p, "catch")
    BY <1>15 DEF Throw, Leave
  <2> QED BY <1>0, <1>15, <2>1, GotoMoves DEF Throw
<1>16. CASE Catch(e)
  <2>1. \A j \in Jobs : status'[j] = status[j] \/ status'[j] = "FAILED"
    BY <1>16 DEF Catch, TypeOK, DbType
  <2> QED BY <1>0, <1>16, <2>1, GotoMoves DEF Catch
<1>17. CASE CatchSwallowed(e)
  BY <1>17 DEF CatchSwallowed, TypeOK, ExecType
<1>18. CASE Cleanup(e)
  BY <1>18 DEF Cleanup, TypeOK, ExecType
<1> QED
  BY <1>1, <1>2, <1>3, <1>4, <1>5, <1>6, <1>7, <1>8, <1>9, <1>10, <1>11, <1>12, <1>13,
     <1>14, <1>15, <1>16, <1>17, <1>18 DEF ExecStep

\* The five steps from the push to the outcome keep the gate closed.
LEMMA FinalStepsKeepGate ==
  ASSUME TypeOK, GateInv, NEW e \in Execs,
         Push(e) \/ OpenPR(e) \/ DecideFinal(e) \/ AskApproval(e) \/ Finish(e)
  PROVE  GateInv'
<1> USE DEF GateInv
<1>0. jobOf \in [Execs -> Jobs \cup {NoJob}] /\ \A f \in Execs : pc[f] # "idle" => jobOf[f] \in Jobs
  BY DEF TypeOK, ExecType
<1>1. CASE Push(e)
  <2>1. /\ Goto(e, "push", "openPR") /\ jobOf[e] \notin branch
        /\ branch' = branch \cup {jobOf[e]}
        /\ UNCHANGED <<status, risk, approvals, pr, req>>
    BY <1>1 DEF Push, dbVars, Goto
  <2>2. PushInv'
    BY <1>0, <2>1, GotoMoves DEF PushInv, PushedPcs
  <2>3. AskedOnce' /\ DecisionInv' /\ HumanDecides'
    BY <2>1, GotoMoves DEF AskedOnce, DecisionInv, HumanDecides
  <2> QED BY <2>2, <2>3
<1>2. CASE OpenPR(e)
  <2>1. /\ Goto(e, "openPR", "decide") /\ pr' = pr \cup {jobOf[e]}
        /\ UNCHANGED <<status, risk, approvals, branch, req>>
    BY <1>2 DEF OpenPR, dbVars, Goto
  <2>2. PushInv'
    BY <2>1, GotoMoves DEF PushInv, PushedPcs
  <2>3. AskedOnce' /\ DecisionInv' /\ HumanDecides'
    BY <2>1, GotoMoves DEF AskedOnce, DecisionInv, HumanDecides
  <2> QED BY <2>2, <2>3
<1>3. CASE DecideFinal(e)
  <2>1. ~canAutoMerge(e)
    BY <1>0, <1>3, GotoMoves DEF DecideFinal, canAutoMerge, DecisionInv
  <2>2. /\ Goto(e, "decide", "ask") /\ UNCHANGED <<status, risk, approvals, branch, pr, req>>
    BY <1>3, <2>1 DEF DecideFinal, dbVars, repoVars, Goto
  <2>3. PushInv'
    BY <2>2, GotoMoves DEF PushInv, PushedPcs
  <2>4. AskedOnce' /\ DecisionInv' /\ HumanDecides'
    BY <2>2, GotoMoves DEF AskedOnce, DecisionInv, HumanDecides
  <2> QED BY <2>3, <2>4
<1>4. CASE AskApproval(e)
  <2>1. /\ Goto(e, "ask", "await") /\ UNCHANGED <<status, risk, branch, pr, req>>
        /\ approvals' = [approvals EXCEPT ![jobOf[e]] = Append(@, "PENDING")]
    BY <1>4 DEF AskApproval, repoVars, Goto
  <2>2. /\ jobOf[e] \in Jobs /\ approvals[jobOf[e]] = << >>
        /\ jobOf[e] \in branch /\ jobOf[e] \in pr
    BY <1>0, <2>1, GotoMoves DEF PushInv, PushedPcs
  <2>3. /\ approvals'[jobOf[e]] = << "PENDING" >>
        /\ \A j \in Jobs : j # jobOf[e] => approvals'[j] = approvals[j]
    BY <2>1, <2>2 DEF TypeOK, DbType
  <2>4. PushInv'
    BY <1>0, <2>1, <2>2, <2>3, GotoMoves DEF PushInv, PushedPcs
  <2>5. AskedOnce'
    BY <2>1, <2>2, <2>3 DEF AskedOnce
  <2>6. \A r \in Requests : req[r].pc \in {"mark", "decide"} =>
          req[r].job # jobOf[e] /\ req[r].job \in Jobs
    BY <2>2 DEF DecisionInv, TypeOK, ReqType
  <2>7. DecisionInv'
    BY <2>1, <2>3, <2>6, GotoMoves DEF DecisionInv
  <2>8. HumanDecides'
    BY <2>1, <2>2, <2>3 DEF HumanDecides
  <2> QED BY <2>4, <2>5, <2>7, <2>8
<1>5. CASE Finish(e)
  <2>1. /\ Goto(e, "await", "runDone") /\ UNCHANGED <<risk, approvals, branch, pr, req>>
        /\ status' = [status EXCEPT ![jobOf[e]] = "AWAITING_APPROVAL"]
    BY <1>5 DEF Finish, repoVars, Goto, DecisionInv
  <2>2. jobOf[e] \in pr
    BY <2>1, GotoMoves DEF PushInv
  <2>3. PushInv' /\ AskedOnce' /\ DecisionInv'
    BY <2>1, GotoMoves DEF PushInv, PushedPcs, AskedOnce, DecisionInv
  <2>4. HumanDecides'
    BY <2>1, <2>2 DEF HumanDecides, TypeOK, DbType
  <2> QED BY <2>3, <2>4
<1> QED BY <1>1, <1>2, <1>3, <1>4, <1>5

\* A handler that stores a decision keeps the approvals one for each question.
LEMMA MarkKeepsApprovals ==
  ASSUME TypeOK, NEW r \in Requests, DecideMark(r)
  PROVE  /\ \A j \in Jobs : Len(approvals'[j]) = Len(approvals[j])
                            /\ DOMAIN approvals'[j] = DOMAIN approvals[j]
                            /\ (approvals'[j] = << >> <=> approvals[j] = << >>)
         /\ \A j \in Jobs : \A i \in DOMAIN approvals[j] :
              approvals[j][i] # "PENDING" => approvals'[j][i] # "PENDING"
         /\ req[r].approval \in DOMAIN approvals[req[r].job]
              => approvals'[req[r].job][req[r].approval] # "PENDING"
<1>1. /\ req[r].job \in Jobs /\ req[r].decision \in Decisions
      /\ approvals' = [approvals EXCEPT ![req[r].job] =
                         [approvals[req[r].job] EXCEPT ![req[r].approval] = req[r].decision]]
      /\ approvals \in [Jobs -> Seq(Decisions \cup {"PENDING"})]
  BY DEF DecideMark, TypeOK, DbType, ReqType
<1>2. PICK old : old = approvals[req[r].job]
  OBVIOUS
<1>3. PICK new : new = [old EXCEPT ![req[r].approval] = req[r].decision]
  OBVIOUS
<1>4. /\ approvals'[req[r].job] = new
      /\ \A j \in Jobs : j # req[r].job => approvals'[j] = approvals[j]
      /\ old \in Seq(Decisions \cup {"PENDING"})
  BY <1>1, <1>2, <1>3
<1>5. new \in Seq(Decisions \cup {"PENDING"}) /\ Len(new) = Len(old)
  <2>1. req[r].decision \in Decisions \cup {"PENDING"}
    BY <1>1
  <2>2. old \in Seq(Decisions \cup {"PENDING"})
    BY <1>4
  <2>3. \A i : \A x \in Decisions \cup {"PENDING"} :
          /\ [old EXCEPT ![i] = x] \in Seq(Decisions \cup {"PENDING"})
          /\ Len([old EXCEPT ![i] = x]) = Len(old)
    BY <2>2, SeqExcept
  <2> QED BY <1>3, <2>1, <2>3
<1>6. /\ DOMAIN new = DOMAIN old /\ (new = << >> <=> old = << >>)
      /\ \A i \in DOMAIN old : new[i] = old[i] \/ new[i] = req[r].decision
      /\ req[r].approval \in DOMAIN old => new[req[r].approval] = req[r].decision
  BY <1>3, <1>4, <1>5
<1>7. req[r].decision # "PENDING"
  BY <1>1 DEF Decisions
<1> QED BY <1>2, <1>4, <1>5, <1>6, <1>7

\* Every step of the poll loop, the executors and the handlers keeps the gate.
LEMMA GateInductive ==
  ASSUME TypeOK, GateInv, [Next]_vars
  PROVE  GateInv'
<1>1. ASSUME UNCHANGED <<status, risk, approvals, branch, pr, pc, jobOf, req>> PROVE GateInv'
  BY <1>1 DEF GateInv, PushInv, AskedOnce, DecisionInv, HumanDecides
<1>2. CASE WorkerStep
  <2>1. ASSUME NEW e \in Execs, StartJob(e) PROVE GateInv'
    <3>1. Quiet(e)
      BY <2>1 DEF StartJob, Quiet, PushedPcs, dbVars, repoVars, TypeOK, ExecType
    <3> QED BY <3>1, QuietKeepsGate
  <2>2. CASE Exit \/ Crash
    <3>1. /\ UNCHANGED <<status, risk, approvals, branch, pr, req>>
          /\ \A e \in Execs : pc'[e] = "idle"
      BY <2>2 DEF Exit, Crash, Die, dbVars, repoVars
    <3> QED BY <3>1 DEF GateInv, PushInv, PushedPcs, AskedOnce, DecisionInv, HumanDecides
  <2>3. CASE \/ PollIssue \/ PollBusy \/ PollPop \/ PollNothing \/ PollReplyLost
             \/ ShutDown \/ StopWaiting \/ Restart
    BY <1>1, <2>3 DEF PollIssue, PollBusy, PollPop, PollNothing, PollReplyLost, ShutDown,
                      StopWaiting, Restart, vars, dbVars, repoVars, execVars
  <2> QED BY <1>2, <2>1, <2>2, <2>3 DEF WorkerStep
<1>3. ASSUME NEW e \in Execs, ExecStep(e) PROVE GateInv'
  BY <1>3, QuietShapes, QuietKeepsGate, FinalStepsKeepGate
<1>4. ASSUME NEW r \in Requests, ApiStep(r) PROVE GateInv'
  <2> USE DEF GateInv
  <2>1. ASSUME ApiFrame PROVE UNCHANGED <<branch, pr, pc, jobOf>>
    BY <2>1 DEF ApiFrame, repoVars, execVars
  \* a handler that neither stores a decision nor is about to act on one
  <2>2. ASSUME UNCHANGED <<branch, pr, pc, jobOf, risk, approvals>>,
               \A q \in Requests \ {r} : req'[q] = req[q],
               req'[r].pc \notin {"mark", "decide"},
               \A j \in Jobs : status'[j] = status[j]
                               \/ status'[j] \notin {"AWAITING_APPROVAL", "APPROVED", "COMPLETED"}
        PROVE  GateInv'
    BY <2>2 DEF PushInv, AskedOnce, DecisionInv, HumanDecides
  <2>3. /\ req \in [Requests -> ReqRecords] /\ status \in [Jobs -> Statuses \cup {"NONE"}]
        /\ \A q \in Requests : req[q].pc # "idle" => req[q].job \in Jobs
    BY DEF TypeOK, ReqType, ReqRecords, DbType
  <2>4. ASSUME Answered(r) PROVE req'[r].pc = "idle" /\ \A q \in Requests \ {r} : req'[q] = req[q]
    BY <2>3, <2>4 DEF Answered, IdleRequest
  <2>5. ASSUME NEW p \in {"enqueue", "cancel", "retry"}, NEW j \in Jobs, Begin(r, p, j)
        PROVE  req'[r].pc = p /\ \A q \in Requests \ {r} : req'[q] = req[q]
    BY <2>3, <2>5 DEF Begin, ReqRecords
  <2>6. CASE enqueueJob(r) \/ ApiFail(r)
    BY <2>1, <2>2, <2>4, <2>6 DEF enqueueJob, ApiFail, dbVars
  <2>7. CASE CancelWrite(r)
    BY <2>1, <2>2, <2>3, <2>4, <2>7 DEF CancelWrite
  <2>8. CASE RetryWrite(r)
    <3>1. req'[r].pc = "enqueue" /\ \A q \in Requests \ {r} : req'[q] = req[q]
      BY <2>3, <2>8 DEF RetryWrite, ReqRecords
    <3>2. \A j \in Jobs : status'[j] \in {status[j], "QUEUED"}
      BY <2>3, <2>8 DEF RetryWrite
    <3> QED BY <2>1, <2>2, <2>8, <3>1, <3>2 DEF RetryWrite
  <2>9. ASSUME NEW j \in Jobs, CreateJob(r, j) \/ CancelRead(r, j) \/ RetryRead(r, j)
        PROVE  GateInv'
    <3>1. \A k \in Jobs : status'[k] \in {status[k], "QUEUED"}
      BY <2>3, <2>9 DEF CreateJob, CancelRead, RetryRead, dbVars
    <3>2. /\ \E p \in {"enqueue", "cancel", "retry"} : Begin(r, p, j)
          /\ ApiFrame /\ UNCHANGED <<risk, approvals>>
      BY <2>9 DEF CreateJob, CancelRead, RetryRead, dbVars
    <3> QED BY <2>1, <2>2, <2>5, <3>1, <3>2
  <2>10. ASSUME NEW j \in Jobs, NEW i \in DOMAIN approvals[j], NEW d \in Decisions,
                DecideRead(r, j, i, d)
         PROVE  GateInv'
    <3>1. /\ UNCHANGED <<status, risk, approvals, branch, pr, pc, jobOf>>
          /\ req'[r].pc = "mark" /\ req'[r].job = j /\ req'[r].approval = i
          /\ \A q \in Requests \ {r} : req'[q] = req[q]
      BY <2>1, <2>3, <2>10 DEF DecideRead, dbVars
    <3> QED BY <3>1 DEF PushInv, AskedOnce, DecisionInv, HumanDecides
  <2>11. CASE DecideMark(r)
    <3>1. /\ UNCHANGED <<status, risk, branch, pr, pc, jobOf>>
          /\ req[r].pc = "mark" /\ req[r].job \in Jobs
          /\ \A q \in Requests \ {r} : req'[q] = req[q]
          /\ \/ req'[r].pc = "idle"
             \/ /\ req'[r].pc = "decide" /\ req'[r].job = req[r].job
                /\ req'[r].approval = req[r].approval
      BY <2>1, <2>3, <2>4, <2>11 DEF DecideMark, ReqRecords
    <3>2. \A q \in Requests : req[q].pc # "idle" => req[q].job \in Jobs
      BY <2>3
    <3>3. PushInv'
      BY <2>11, <3>1, MarkKeepsApprovals DEF PushInv, PushedPcs, TypeOK, ExecType
    <3>4. AskedOnce'
      BY <2>11, <3>1, MarkKeepsApprovals DEF AskedOnce
    <3>5. DecisionInv'
      BY <2>11, <3>1, <3>2, MarkKeepsApprovals DEF DecisionInv
    <3>6. HumanDecides'
      BY <2>11, <3>1, MarkKeepsApprovals DEF HumanDecides
    <3> QED BY <3>3, <3>4, <3>5, <3>6
  <2>12. CASE DecideWrite(r)
    <3>1. /\ UNCHANGED <<branch, pr, pc, jobOf, risk, approvals>>
          /\ req'[r].pc = "idle" /\ \A q \in Requests \ {r} : req'[q] = req[q]
          /\ req[r].pc = "decide" /\ req[r].job \in Jobs
      BY <2>1, <2>3, <2>4, <2>12 DEF DecideWrite
    <3>2. /\ req[r].approval \in DOMAIN approvals[req[r].job]
          /\ approvals[req[r].job][req[r].approval] # "PENDING"
      BY <3>1 DEF DecisionInv
    <3>3. req[r].job \in pr
      <4>1. approvals[req[r].job] # << >>
        BY <3>2
      <4> QED BY <3>1, <4>1 DEF AskedOnce
    <3>4. \A j \in Jobs : j # req[r].job => status'[j] = status[j]
      BY <2>3, <2>12 DEF DecideWrite
    <3>5. status'[req[r].job] \in {"APPROVED", "CODING", "CANCELLED"}
      BY <2>3, <2>12, <3>1, TablesType DEF DecideWrite, ReqRecords
    <3>6. HumanDecides'
      BY <3>1, <3>2, <3>3, <3>4, <3>5 DEF HumanDecides
    <3>7. PushInv' /\ AskedOnce' /\ DecisionInv'
      BY <3>1 DEF PushInv, AskedOnce, DecisionInv
    <3> QED BY <3>6, <3>7
  <2> QED BY <1>4, <2>6, <2>7, <2>8, <2>9, <2>10, <2>11, <2>12 DEF ApiStep
<1>5. CASE UNCHANGED vars
  BY <1>1, <1>5 DEF vars, dbVars, repoVars, execVars
<1> QED BY <1>2, <1>3, <1>4, <1>5 DEF Next

\* The gate holds in every reachable state.
LEMMA GateHolds == Spec => []GateInv
<1>1. Init => GateInv
  <2> SUFFICES ASSUME Init PROVE GateInv
    OBVIOUS
  <2>1. PushInv /\ AskedOnce /\ HumanDecides
    BY DEF Init, PushInv, PushedPcs, AskedOnce, HumanDecides
  <2>2. DecisionInv
    BY DEF Init, DecisionInv, DefaultRisk, RISK_AUTO_MERGE, IdleRequest
  <2> QED BY <2>1, <2>2 DEF GateInv
<1>2. TypeOK /\ GateInv /\ [Next]_vars => GateInv'
  BY GateInductive
<1> QED BY <1>1, <1>2, TypeCorrect, PTL DEF Spec

\* However often a job is retried, crashes or is executed twice, a human is
\* asked about it at most once, and about a pull request that exists.
THEOREM AskedOnceHolds == Spec => []AskedOnce
<1>1. GateInv => AskedOnce
  BY DEF GateInv
<1> QED BY <1>1, GateHolds, PTL

\* A job of a level that does not merge by itself is neither approved nor completed
\* without the decision of a human, and none waits for one without a pull request.
THEOREM HumanGateHolds == Spec => []HumanGate
<1>1. GateInv => HumanGate
  BY DEF GateInv, HumanDecides, HumanGate
<1> QED BY <1>1, GateHolds, PTL
-----------------------------------------------------------------------------
(* The number of jobs a worker runs at once *)

\* The slot for the job a poll may bring is free from the moment the poll is
\* issued, since nothing else starts a job.
SlotInv == loop \in {"await", "got"} => activeJobs < WorkerConcurrency

BoundInv == ConcurrencyBound /\ SlotInv

\* The running executors are finitely many, and counted one by one.
LEMMA BusyCounts ==
  /\ IsFiniteSet(Busy) /\ Cardinality(Busy) \in Nat
  /\ \A e \in Busy : Cardinality(Busy \ {e}) = Cardinality(Busy) - 1
  /\ \A e \in Execs \ Busy : Cardinality(Busy \cup {e}) = Cardinality(Busy) + 1
<1>1. IsFiniteSet(Busy)
  BY ConstantsAssumption, FS_Subset, Busy \subseteq Execs DEF Busy
<1> QED BY <1>1, FS_CardinalityType, FS_RemoveElement, FS_AddElement DEF Busy

\* A worker never runs more jobs than WORKER_CONCURRENCY, although the counter is
\* tested before the await of zpopmin and incremented after it, also while it
\* shuts down.
THEOREM ConcurrencyBoundHolds == Spec => []ConcurrencyBound
<1> USE ConstantsAssumption
<1>1. Init => BoundInv
  <2> SUFFICES ASSUME Init PROVE BoundInv
    OBVIOUS
  <2>1. Busy = {}
    BY DEF Init, Busy
  <2> QED BY <2>1, FS_EmptySet DEF Init, BoundInv, ConcurrencyBound, SlotInv
<1>2. TypeOK /\ BoundInv /\ [Next]_vars => BoundInv'
  <2> SUFFICES ASSUME TypeOK, BoundInv, [Next]_vars PROVE BoundInv'
    OBVIOUS
  <2> USE DEF BoundInv, ConcurrencyBound, SlotInv
  <2>1. ASSUME activeJobs' = activeJobs, Busy' = Busy,
               loop' \in {"await", "got"} => loop \in {"await", "got"}
        PROVE  BoundInv'
    BY <2>1
  <2>2. ASSUME UNCHANGED <<activeJobs, pc, loop>> PROVE BoundInv'
    BY <2>1, <2>2 DEF Busy
  <2>3. CASE WorkerStep
    <3>1. CASE PollIssue
      <4>1. Busy' = Busy
        BY <3>1 DEF PollIssue, execVars, Busy
      <4> QED BY <3>1, <4>1 DEF PollIssue
    <3>2. CASE PollPop \/ PollNothing \/ PollReplyLost
      <4>1. Busy' = Busy
        BY <3>2 DEF PollPop, PollNothing, PollReplyLost, execVars, Busy
      <4> QED BY <2>1, <3>2, <4>1 DEF PollPop, PollNothing, PollReplyLost
    <3>3. ASSUME NEW e \in Execs, StartJob(e) PROVE BoundInv'
      <4>1. Busy' = Busy \cup {e} /\ e \notin Busy
        BY <3>3 DEF StartJob, Busy, TypeOK, ExecType
      <4>2. Cardinality(Busy') = activeJobs + 1
        BY <4>1, BusyCounts
      <4>3. loop = "got" /\ loop' = "check" /\ activeJobs' = activeJobs + 1
        BY <3>3 DEF StartJob
      <4> QED BY <4>2, <4>3 DEF TypeOK, WorkerType
    <3>4. CASE Exit \/ Crash
      <4>1. Busy' = {} /\ activeJobs' = 0 /\ loop' = "check"
        BY <3>4 DEF Exit, Crash, Die, Busy
      <4> QED BY <4>1, FS_EmptySet
    <3>5. CASE ShutDown \/ StopWaiting \/ Restart \/ PollBusy
      BY <2>2, <3>5 DEF ShutDown, StopWaiting, Restart, PollBusy, execVars, workerVars, vars
    <3> QED BY <2>3, <3>1, <3>2, <3>3, <3>4, <3>5 DEF WorkerStep
  <2>4. ASSUME NEW e \in Execs, ExecStep(e) PROVE BoundInv'
    <3>1. CASE Cleanup(e)
      <4>1. Busy' = Busy \ {e} /\ e \in Busy
        BY <3>1 DEF Cleanup, Busy, TypeOK, ExecType
      <4>2. Cardinality(Busy') = activeJobs - 1
        BY <4>1, BusyCounts
      <4>3. activeJobs' = activeJobs - 1 /\ loop' = loop
        BY <3>1 DEF Cleanup
      <4> QED BY <4>2, <4>3 DEF TypeOK, WorkerType
    <3>2. ASSUME NEW from, NEW to, from # "idle", to # "idle", Goto(e, from, to) PROVE BoundInv'
      <4>1. Busy' = Busy
        BY <3>2, GotoMoves DEF Busy
      <4> QED BY <2>1, <3>2, <4>1 DEF Goto, workerVars
    <3>3. CASE KeepsDriving(e)
      BY <3>2, <3>3 DEF KeepsDriving, DrivingPcs
    <3>4. CASE Finish(e) \/ RunSucceeded(e) \/ Catch(e)
      BY <3>2, <3>4 DEF Finish, RunSucceeded, Catch, Leave
    <3>5. CASE CatchSwallowed(e)
      <4>1. Busy' = Busy
        BY <3>5 DEF CatchSwallowed, Busy, TypeOK, ExecType
      <4> QED BY <2>1, <3>5, <4>1 DEF CatchSwallowed, workerVars
    <3> QED BY <2>4, <3>1, <3>3, <3>4, <3>5, ExecShapes
  <2>5. ASSUME NEW r \in Requests, ApiStep(r) PROVE BoundInv'
    <3>1. ApiFrame
      BY <2>5 DEF ApiStep, enqueueJob, CancelWrite, RetryWrite, DecideMark, DecideWrite,
                  ApiFail, CreateJob, CancelRead, RetryRead, DecideRead
    <3> QED BY <2>2, <3>1 DEF ApiFrame, workerVars, execVars
  <2>6. CASE UNCHANGED vars
    BY <2>2, <2>6 DEF vars, workerVars, execVars
  <2> QED BY <2>3, <2>4, <2>5, <2>6 DEF Next
<1>3. BoundInv => ConcurrencyBound
  BY DEF BoundInv
<1> QED BY <1>1, <1>2, <1>3, TypeCorrect, PTL DEF Spec
=============================================================================
