---------------------------- MODULE JobLifecycle ----------------------------
(***************************************************************************)
(* The life of a coding job: the REST handlers of packages/api that create,*)
(* cancel, retry and decide on jobs, the Redis sorted set that queues them *)
(* and the worker of packages/worker that pops and executes them.  Every   *)
(* await whose outcome the control flow depends on is a step of its own,   *)
(* so a status that was read may be stale when it is used.                 *)
(*                                                                         *)
(* Left out: Step, Log and Run rows (written, never read back by the       *)
(* control flow), tokens and cost, prompts, the notification channel (the  *)
(* worker only logs what it hears on it).                                  *)
(***************************************************************************)
EXTENDS Integers, Sequences, FiniteSets

CONSTANTS
  Jobs,               \* rows of table Job
  Execs,              \* invocations of executeJob in one worker process
  Requests,           \* HTTP requests being served by the API
  NoJob,
  Priority,           \* [Jobs -> Nat]: priority given at creation
  Estimates,          \* risks the planner agent may answer with
  WorkerConcurrency,  \* WORKER_CONCURRENCY
  MaxRetries,         \* bound: retry requests of one job (the code has none)
  MaxCrashes          \* bound: times the worker process ends

ASSUME ConstantsAssumption ==
  /\ NoJob \notin Jobs
  /\ Priority \in [Jobs -> Nat]
  /\ Estimates \subseteq {"LOW", "MEDIUM", "HIGH", "CRITICAL"}
  /\ WorkerConcurrency \in Nat \ {0}
  /\ IsFiniteSet(Execs)
  /\ WorkerConcurrency <= Cardinality(Execs)
  /\ MaxRetries \in Nat
  /\ MaxCrashes \in Nat

VARIABLES
  status, risk, approvals,      \* database: Job and Approval rows
  retries,                      \* retries of a job so far
  queue,                        \* Redis: members of autocode:job:queue
  workspace,                    \* non-empty job directories of the volume
  branch, pr,                   \* work branches pushed, pull requests opened
  worker, loop, polled, activeJobs, crashes,
  pc, jobOf, ctx, local,        \* executors: gitCtx set?, locals of the try block
  req,                          \* handlers: program counter and locals
  stranded                      \* history: jobs cut off from what drove them

dbVars     == <<status, risk, approvals, retries>>
repoVars   == <<workspace, branch, pr>>
workerVars == <<worker, loop, polled, activeJobs, crashes>>
execVars   == <<pc, jobOf, ctx, local>>
vars == <<dbVars, queue, repoVars, workerVars, execVars, req, stranded>>

-----------------------------------------------------------------------------
Working  == {"PLANNING", "CODING", "TESTING", "REVIEWING"}
Statuses == Working \cup {"QUEUED", "AWAITING_APPROVAL", "APPROVED", "MERGING",
                          "COMPLETED", "FAILED", "CANCELLED", "ROLLED_BACK"}
Risks     == {"LOW", "MEDIUM", "HIGH", "CRITICAL"}
Decisions == {"APPROVED", "REJECTED", "REQUEST_CHANGES"}

JOB_TRANSITIONS ==
  [ QUEUED            |-> {"PLANNING", "CANCELLED"},
    PLANNING          |-> {"CODING", "FAILED", "CANCELLED"},
    CODING            |-> {"TESTING", "PLANNING", "FAILED", "CANCELLED"},
    TESTING           |-> {"REVIEWING", "CODING", "FAILED", "CANCELLED"},
    REVIEWING         |-> {"AWAITING_APPROVAL", "MERGING", "CODING", "FAILED",
                           "CANCELLED"},
    AWAITING_APPROVAL |-> {"APPROVED", "CODING", "CANCELLED"},
    APPROVED          |-> {"MERGING", "FAILED"},
    MERGING           |-> {"COMPLETED", "FAILED"},
    COMPLETED         |-> {},
    FAILED            |-> {"QUEUED", "ROLLED_BACK"},
    CANCELLED         |-> {},
    ROLLED_BACK       |-> {} ]

isValidTransition(from, to) == to \in JOB_TRANSITIONS[from]

RISK_AUTO_MERGE == {"LOW"}

\* The schema's default.  Plan may raise it; no code of the repository assigns
\* LOW, the only level that merges by itself.
DefaultRisk == "MEDIUM"

cancelable == Working \cup {"QUEUED", "AWAITING_APPROVAL"}

\* newJobStatus of the decide handler
NewJobStatus(d) == CASE d = "APPROVED"        -> "APPROVED"
                     [] d = "REQUEST_CHANGES" -> "CODING"
                     [] OTHER                 -> "CANCELLED"

\* The five updateJobStatus calls of executeJob, in program order: the status
\* asked for and where the executor goes on.
Updates == << [to |-> "PLANNING",  next |-> "run"],
              [to |-> "PLANNING",  next |-> "plan"],
              [to |-> "CODING",    next |-> "code"],
              [to |-> "TESTING",   next |-> "test"],
              [to |-> "REVIEWING", next |-> "review"] >>

Exists(j) == status[j] # "NONE"

NoLocals == [upd |-> 1, changed |-> FALSE, committed |-> FALSE,
             reviewed |-> "none", safe |-> FALSE]

IdleRequest == [pc |-> "idle", job |-> NoJob, approval |-> 0,
                decision |-> "REJECTED", seen |-> "QUEUED"]

Init ==
  /\ status    = [j \in Jobs |-> "NONE"]
  /\ risk      = [j \in Jobs |-> DefaultRisk]
  /\ approvals = [j \in Jobs |-> << >>]
  /\ retries   = [j \in Jobs |-> 0]
  /\ queue = {}
  /\ workspace = {} /\ branch = {} /\ pr = {}
  /\ worker = "up" /\ loop = "check" /\ polled = NoJob
  /\ activeJobs = 0 /\ crashes = 0
  /\ pc    = [e \in Execs |-> "idle"]
  /\ jobOf = [e \in Execs |-> NoJob]
  /\ ctx   = [e \in Execs |-> FALSE]
  /\ local = [e \in Execs |-> NoLocals]
  /\ req   = [r \in Requests |-> IdleRequest]
  /\ stranded = {}

-----------------------------------------------------------------------------
(* The worker's poll loop.  zpopmin is a round trip: issued, served by      *)
(* Redis, its reply received.  Nothing marks a popped job as taken.         *)

PollIssue ==
  /\ worker = "up" /\ loop = "check"
  /\ activeJobs < WorkerConcurrency
  /\ loop' = "await"
  /\ UNCHANGED <<dbVars, queue, repoVars, worker, polled, activeJobs, crashes,
                 execVars, req, stranded>>

\* every slot is taken: the loop sleeps for POLL_INTERVAL_MS and looks again
PollBusy ==
  /\ worker = "up" /\ loop = "check"
  /\ activeJobs >= WorkerConcurrency
  /\ UNCHANGED vars

\* score = -priority, so the minimum is the highest priority
PollPop ==
  /\ loop = "await"
  /\ \E j \in queue :
       /\ \A k \in queue : Priority[k] <= Priority[j]
       /\ queue' = queue \ {j}
       /\ polled' = j
  /\ loop' = "got"
  /\ UNCHANGED <<dbVars, repoVars, worker, activeJobs, crashes, execVars,
                 req, stranded>>

\* the queue was empty, or the command failed before Redis served it
PollNothing ==
  /\ loop = "await"
  /\ loop' = "check"
  /\ UNCHANGED <<dbVars, queue, repoVars, worker, polled, activeJobs, crashes,
                 execVars, req, stranded>>

\* the connection breaks after the pop: the catch of the loop only logs
PollReplyLost ==
  /\ loop = "got"
  /\ loop' = "check"
  /\ polled' = NoJob
  /\ stranded' = stranded \cup {polled}
  /\ UNCHANGED <<dbVars, queue, repoVars, worker, activeJobs, crashes, execVars,
                 req>>

\* activeJobs++ and executeJob(jobId), also while shutting down
StartJob(e) ==
  /\ loop = "got" /\ pc[e] = "idle"
  /\ loop' = "check"
  /\ polled' = NoJob
  /\ activeJobs' = activeJobs + 1
  /\ pc' = [pc EXCEPT ![e] = "load"]
  /\ jobOf' = [jobOf EXCEPT ![e] = polled]
  /\ UNCHANGED <<dbVars, queue, repoVars, worker, crashes, ctx, local, req,
                 stranded>>

ShutDown ==
  /\ worker = "up" /\ crashes < MaxCrashes
  /\ worker' = "draining"
  /\ UNCHANGED <<dbVars, queue, repoVars, loop, polled, activeJobs, crashes,
                 execVars, req, stranded>>

\* No active job is left, or 60 seconds have passed: what follows closes the
\* connections, during which a poll in flight may still start a job.
StopWaiting ==
  /\ worker = "draining"
  /\ worker' = "closing"
  /\ UNCHANGED <<dbVars, queue, repoVars, loop, polled, activeJobs, crashes,
                 execVars, req, stranded>>

Busy == {e \in Execs : pc[e] # "idle"}

\* executors that have not yet written the outcome of their job
Driving == {e \in Execs : pc[e] \notin {"idle", "runDone", "cleanup"}}

\* The process ends (process.exit, a crash, a kill): its memory is gone, the
\* directories of the workspace volume stay.
Die ==
  /\ worker' = "down" /\ loop' = "check" /\ polled' = NoJob
  /\ activeJobs' = 0
  /\ crashes' = crashes + 1
  /\ pc' = [e \in Execs |-> "idle"]
  /\ jobOf' = [e \in Execs |-> NoJob]
  /\ ctx' = [e \in Execs |-> FALSE]
  /\ local' = [e \in Execs |-> NoLocals]
  /\ stranded' = stranded \cup {jobOf[e] : e \in Driving}
                          \cup (IF loop = "got" THEN {polled} ELSE {})
  /\ UNCHANGED <<dbVars, queue, repoVars, req>>

Exit  == worker = "closing" /\ Die

Crash == worker \in {"up", "draining"} /\ crashes < MaxCrashes /\ Die

\* docker-compose: restart: unless-stopped
Restart ==
  /\ worker = "down"
  /\ worker' = "up"
  /\ UNCHANGED <<dbVars, queue, repoVars, loop, polled, activeJobs, crashes,
                 execVars, req, stranded>>

-----------------------------------------------------------------------------
(* executeJob, one step per await that matters.                             *)

\* the frame of a step that only moves executor e from one pc to another
Goto(e, from, to) ==
  /\ pc[e] = from
  /\ pc' = [pc EXCEPT ![e] = to]
  /\ UNCHANGED <<queue, workerVars, jobOf, req, stranded>>

\* the same, on to the updateJobStatus call number u
GotoUpdate(e, from, u) ==
  Goto(e, from, "read") /\ local' = [local EXCEPT ![e].upd = u]

\* the try block is left, and its locals with it
Leave(e, from, to) ==
  Goto(e, from, to) /\ local' = [local EXCEPT ![e] = NoLocals]

\* prisma.job.findUniqueOrThrow
Load(e) ==
  /\ GotoUpdate(e, "load", 1)
  /\ UNCHANGED <<dbVars, repoVars, ctx>>

\* updateJobStatus reads the status and skips an invalid transition silently
UpdateRead(e) ==
  /\ Goto(e, "read", IF isValidTransition(status[jobOf[e]], Updates[local[e].upd].to)
                       THEN "write" ELSE Updates[local[e].upd].next)
  /\ UNCHANGED <<dbVars, repoVars, ctx, local>>

\* ... and writes it, whatever the status is by then
UpdateWrite(e) ==
  /\ Goto(e, "write", Updates[local[e].upd].next)
  /\ status' = [status EXCEPT ![jobOf[e]] = Updates[local[e].upd].to]
  /\ UNCHANGED <<risk, approvals, retries, repoVars, ctx, local>>

\* prisma.run.create
CreateRun(e) ==
  /\ Goto(e, "run", "clone")
  /\ UNCHANGED <<dbVars, repoVars, ctx, local>>

\* Mutant: the clone goes into whatever is there.
CloneStartAnyway(e) ==
  /\ Goto(e, "clone", "branch")
  /\ workspace' = workspace \cup {jobOf[e]}
  /\ UNCHANGED <<dbVars, branch, pr, ctx, local>>

\* git clone refuses a directory that is not empty
CloneStart(e) ==
  /\ jobOf[e] \notin workspace
  /\ Goto(e, "clone", "branch")
  /\ workspace' = workspace \cup {jobOf[e]}
  /\ UNCHANGED <<dbVars, branch, pr, ctx, local>>

CloneRefused(e) ==
  /\ jobOf[e] \in workspace
  /\ Leave(e, "clone", "catch")
  /\ UNCHANGED <<dbVars, repoVars, ctx>>

\* The clone is complete and checkoutLocalBranch done: gitCtx is set.
CloneDone(e) ==
  /\ GotoUpdate(e, "branch", 2)
  /\ ctx' = [ctx EXCEPT ![e] = TRUE]
  /\ UNCHANGED <<dbVars, repoVars>>

\* A failed git clone empties the directory again; a failed checkout leaves
\* it, and gitCtx is still null, so nothing will remove it.
CloneFailed(e) ==
  /\ Leave(e, "branch", "catch")
  /\ workspace' \in {workspace, workspace \ {jobOf[e]}}
  /\ UNCHANGED <<dbVars, branch, pr, ctx>>

\* createPlan, then riskLevel := estimatedRisk when that is HIGH or CRITICAL
Plan(e) ==
  /\ GotoUpdate(e, "plan", 3)
  /\ \E estimatedRisk \in Estimates :
       risk' = IF estimatedRisk \in {"HIGH", "CRITICAL"}
                 THEN [risk EXCEPT ![jobOf[e]] = estimatedRisk] ELSE risk
  /\ UNCHANGED <<status, approvals, retries, repoVars, ctx>>

\* executeCode collects the errors of single files and throws none; it may
\* leave the checkout as it was
Code(e) ==
  /\ Goto(e, "code", "read")
  /\ \E c \in BOOLEAN :
       local' = [local EXCEPT ![e].upd = 4, ![e].changed = c]
  /\ UNCHANGED <<dbVars, repoVars, ctx>>

\* The test/fix loop may rewrite files; failing tests do not stop the job.
Test(e) ==
  /\ Goto(e, "test", "read")
  /\ \E c \in BOOLEAN :
       local' = [local EXCEPT ![e].upd = 5, ![e].changed = c]
  /\ UNCHANGED <<dbVars, repoVars, ctx>>

\* getDiff compares commits: origin/target...workBranch
getDiff(e) == IF local[e].committed THEN "changes" ELSE "no changes"

\* reviewDiff; safe stands for safetyScore >= AUTO_MERGE_SAFETY_THRESHOLD
Review(e) ==
  /\ Goto(e, "review", "push")
  /\ \E s \in BOOLEAN :
       local' = [local EXCEPT ![e].reviewed = getDiff(e), ![e].safe = s]
  /\ UNCHANGED <<dbVars, repoVars, ctx>>

\* Mutant: push --force.
PushForce(e) ==
  /\ local[e].changed
  /\ Goto(e, "push", "openPR")
  /\ local' = [local EXCEPT ![e].committed = TRUE]
  /\ branch' = branch \cup {jobOf[e]}
  /\ UNCHANGED <<dbVars, workspace, pr, ctx>>

\* commitAndPush: the commit is made on a fresh clone of the target branch, so
\* a work branch pushed by an earlier run makes the push non-fast-forward.
Push(e) ==
  /\ local[e].changed /\ jobOf[e] \notin branch
  /\ Goto(e, "push", "openPR")
  /\ local' = [local EXCEPT ![e].committed = TRUE]
  /\ branch' = branch \cup {jobOf[e]}
  /\ UNCHANGED <<dbVars, workspace, pr, ctx>>

\* 'no-changes', or the push is rejected
PushRefused(e) ==
  /\ ~local[e].changed \/ jobOf[e] \in branch
  /\ Leave(e, "push", "catch")
  /\ UNCHANGED <<dbVars, repoVars, ctx>>

\* createPullRequest
OpenPR(e) ==
  /\ Goto(e, "openPR", "decide")
  /\ pr' = pr \cup {jobOf[e]}
  /\ UNCHANGED <<dbVars, workspace, branch, ctx, local>>

\* Mutant: the reviewer agent's safety score alone decides.
canAutoMergeAnyRisk(e) == local[e].safe

canAutoMerge(e) == risk[jobOf[e]] \in RISK_AUTO_MERGE /\ local[e].safe

DecideFinal(e) ==
  /\ Goto(e, "decide", IF canAutoMerge(e) THEN "complete" ELSE "ask")
  /\ UNCHANGED <<dbVars, repoVars, ctx, local>>

\* prisma.approval.create
AskApproval(e) ==
  /\ Goto(e, "ask", "await")
  /\ approvals' = [approvals EXCEPT ![jobOf[e]] = Append(@, "PENDING")]
  /\ UNCHANGED <<status, risk, retries, repoVars, ctx, local>>

\* The job update with the results does not consult isValidTransition.
Finish(e) ==
  /\ \E s \in {"COMPLETED", "AWAITING_APPROVAL"} :
       /\ Goto(e, IF s = "COMPLETED" THEN "complete" ELSE "await", "runDone")
       /\ status' = [status EXCEPT ![jobOf[e]] = s]
  /\ UNCHANGED <<risk, approvals, retries, repoVars, ctx, local>>

\* prisma.run.update SUCCEEDED, return
RunSucceeded(e) ==
  /\ Leave(e, "runDone", "cleanup")
  /\ UNCHANGED <<dbVars, repoVars, ctx>>

\* any await of the try block may reject
Throw(e) ==
  /\ \E p \in {"load", "read", "write", "run", "clone", "plan", "code", "test",
               "review", "push", "openPR", "decide", "ask", "complete", "await",
               "runDone"} : Leave(e, p, "catch")
  /\ UNCHANGED <<dbVars, repoVars, ctx>>

Catch(e) ==
  /\ Goto(e, "catch", "cleanup")
  /\ status' = [status EXCEPT ![jobOf[e]] = "FAILED"]
  /\ UNCHANGED <<risk, approvals, retries, repoVars, ctx, local>>

\* .catch(() => {}): the failed update of the catch block is ignored
CatchSwallowed(e) ==
  /\ pc[e] = "catch"
  /\ pc' = [pc EXCEPT ![e] = "cleanup"]
  /\ stranded' = stranded \cup {jobOf[e]}
  /\ UNCHANGED <<dbVars, queue, repoVars, workerVars, jobOf, ctx, local, req>>

\* Mutant: activeJobs is not decremented.
CleanupKeepsSlot(e) ==
  /\ pc[e] = "cleanup"
  /\ pc' = [pc EXCEPT ![e] = "idle"]
  /\ workspace' \in (IF ctx[e] THEN {workspace, workspace \ {jobOf[e]}}
                              ELSE {workspace})
  /\ jobOf' = [jobOf EXCEPT ![e] = NoJob]
  /\ ctx' = [ctx EXCEPT ![e] = FALSE]
  /\ UNCHANGED <<dbVars, queue, branch, pr, workerVars, local, req, stranded>>

\* The finally block: cleanupWorkspace (errors ignored) if gitCtx is set, then
\* activeJobs--.
Cleanup(e) ==
  /\ pc[e] = "cleanup"
  /\ pc' = [pc EXCEPT ![e] = "idle"]
  /\ workspace' \in (IF ctx[e] THEN {workspace, workspace \ {jobOf[e]}}
                              ELSE {workspace})
  /\ activeJobs' = activeJobs - 1
  /\ jobOf' = [jobOf EXCEPT ![e] = NoJob]
  /\ ctx' = [ctx EXCEPT ![e] = FALSE]
  /\ UNCHANGED <<dbVars, queue, branch, pr, worker, loop, polled, crashes, local,
                 req, stranded>>

ExecStep(e) ==
  \/ Load(e) \/ UpdateRead(e) \/ UpdateWrite(e) \/ CreateRun(e)
  \/ CloneStart(e) \/ CloneRefused(e) \/ CloneDone(e) \/ CloneFailed(e)
  \/ Plan(e) \/ Code(e) \/ Test(e) \/ Review(e) \/ Push(e) \/ PushRefused(e)
  \/ OpenPR(e) \/ DecideFinal(e) \/ AskApproval(e) \/ Finish(e)
  \/ RunSucceeded(e) \/ Throw(e) \/ Catch(e) \/ CatchSwallowed(e) \/ Cleanup(e)

-----------------------------------------------------------------------------
(* The API handlers.  Each reads, answers with an error when the state does *)
(* not allow the request, and otherwise writes without checking again.      *)

ApiFrame == UNCHANGED <<repoVars, workerVars, execVars>>

Begin(r, p, j) ==
  /\ req[r].pc = "idle"
  /\ req' = [req EXCEPT ![r].pc = p, ![r].job = j]

Answered(r) == req' = [req EXCEPT ![r] = IdleRequest]

\* POST /api/jobs: prisma.job.create
CreateJob(r, j) ==
  /\ ~Exists(j)
  /\ Begin(r, "enqueue", j)
  /\ status' = [status EXCEPT ![j] = "QUEUED"]
  /\ ApiFrame /\ UNCHANGED <<risk, approvals, retries, queue, stranded>>

\* ZADD and the answer, for the create and the retry handler
enqueueJob(r) ==
  /\ req[r].pc = "enqueue"
  /\ queue' = queue \cup {req[r].job}
  /\ stranded' = stranded \ {req[r].job}
  /\ Answered(r)
  /\ ApiFrame /\ UNCHANGED dbVars

\* PATCH /api/jobs/:id/cancel
CancelRead(r, j) ==
  /\ status[j] \in cancelable
  /\ Begin(r, "cancel", j)
  /\ ApiFrame /\ UNCHANGED <<dbVars, queue, stranded>>

CancelWrite(r) ==
  /\ req[r].pc = "cancel"
  /\ status' = [status EXCEPT ![req[r].job] = "CANCELLED"]
  /\ Answered(r)
  /\ ApiFrame /\ UNCHANGED <<risk, approvals, retries, queue, stranded>>

\* POST /api/jobs/:id/retry; maxRetries of the job is never looked at
RetryRead(r, j) ==
  /\ status[j] = "FAILED" /\ retries[j] < MaxRetries
  /\ Begin(r, "retry", j)
  /\ retries' = [retries EXCEPT ![j] = @ + 1]
  /\ ApiFrame /\ UNCHANGED <<status, risk, approvals, queue, stranded>>

\* Mutant: the retry handler only updates the row.
RetryWriteWithoutEnqueue(r) ==
  /\ req[r].pc = "retry"
  /\ status' = [status EXCEPT ![req[r].job] = "QUEUED"]
  /\ Answered(r)
  /\ ApiFrame /\ UNCHANGED <<risk, approvals, retries, queue, stranded>>

RetryWrite(r) ==
  /\ req[r].pc = "retry"
  /\ status' = [status EXCEPT ![req[r].job] = "QUEUED"]
  /\ req' = [req EXCEPT ![r].pc = "enqueue"]
  /\ ApiFrame /\ UNCHANGED <<risk, approvals, retries, queue, stranded>>

\* POST /api/approvals/:id/decide: an undecided approval, with its job
DecideRead(r, j, i, d) ==
  /\ approvals[j][i] = "PENDING"
  /\ req[r].pc = "idle"
  /\ req' = [req EXCEPT ![r] = [pc |-> "mark", job |-> j, approval |-> i,
                                decision |-> d, seen |-> status[j]]]
  /\ ApiFrame /\ UNCHANGED <<dbVars, queue, stranded>>

DecideMark(r) ==
  /\ req[r].pc = "mark"
  /\ approvals' = [approvals EXCEPT ![req[r].job][req[r].approval] = req[r].decision]
  /\ IF isValidTransition(req[r].seen, NewJobStatus(req[r].decision))
       THEN req' = [req EXCEPT ![r].pc = "decide"]
       ELSE Answered(r)
  /\ ApiFrame /\ UNCHANGED <<status, risk, retries, queue, stranded>>

\* nothing enqueues the job that goes back to CODING
DecideWrite(r) ==
  /\ req[r].pc = "decide"
  /\ status' = [status EXCEPT ![req[r].job] = NewJobStatus(req[r].decision)]
  /\ stranded' = IF req[r].decision = "REQUEST_CHANGES"
                   THEN stranded \cup {req[r].job} ELSE stranded
  /\ Answered(r)
  /\ ApiFrame /\ UNCHANGED <<risk, approvals, retries, queue>>

\* an await of the handler rejects, or the API process dies
ApiFail(r) ==
  /\ req[r].pc # "idle"
  /\ stranded' = IF req[r].pc = "enqueue"
                   THEN stranded \cup {req[r].job} ELSE stranded
  /\ Answered(r)
  /\ ApiFrame /\ UNCHANGED <<dbVars, queue>>

ApiStep(r) ==
  \/ enqueueJob(r) \/ CancelWrite(r) \/ RetryWrite(r) \/ DecideMark(r)
  \/ DecideWrite(r) \/ ApiFail(r)
  \/ \E j \in Jobs :
       \/ CreateJob(r, j) \/ CancelRead(r, j) \/ RetryRead(r, j)
       \/ \E i \in DOMAIN approvals[j], d \in Decisions : DecideRead(r, j, i, d)

-----------------------------------------------------------------------------
WorkerStep ==
  \/ PollIssue \/ PollBusy \/ PollPop \/ PollNothing \/ PollReplyLost
  \/ (\E e \in Execs : StartJob(e))
  \/ ShutDown \/ StopWaiting \/ Exit \/ Crash \/ Restart

Next ==
  \/ WorkerStep
  \/ \E e \in Execs : ExecStep(e)
  \/ \E r \in Requests : ApiStep(r)

Spec == Init /\ [][Next]_vars

\* The poll loop and the restart policy keep going, and Redis serves infinitely
\* many of the polls issued.  That every await of an executor settles is an
\* assumption about its environment: git clone and git push have no time-out,
\* and the job's timeoutMs is enforced nowhere.  A worker whose slots are all
\* held by such calls takes no job.
Fairness ==
  /\ WF_vars(PollIssue) /\ SF_vars(PollPop)
  /\ WF_vars(\E e \in Execs : StartJob(e))
  /\ WF_vars(StopWaiting) /\ WF_vars(Exit) /\ WF_vars(Restart)
  /\ \A e \in Execs : WF_vars(ExecStep(e))

FairSpec == Spec /\ Fairness

-----------------------------------------------------------------------------
(* Properties *)

ExecPcs == {"idle", "load", "read", "write", "run", "clone", "branch", "plan",
            "code", "test", "review", "push", "openPR", "decide", "ask",
            "complete", "await", "runDone", "catch", "cleanup"}

DbType ==
  /\ status \in [Jobs -> Statuses \cup {"NONE"}]
  /\ risk \in [Jobs -> Risks]
  /\ approvals \in [Jobs -> Seq(Decisions \cup {"PENDING"})]
  /\ retries \in [Jobs -> Nat]

StoreType ==
  /\ queue \subseteq Jobs /\ stranded \subseteq Jobs
  /\ workspace \subseteq Jobs /\ branch \subseteq Jobs /\ pr \subseteq Jobs

WorkerType ==
  /\ worker \in {"up", "draining", "closing", "down"}
  /\ loop \in {"check", "await", "got"}
  /\ polled \in Jobs \cup {NoJob} /\ (loop = "got" <=> polled # NoJob)
  /\ activeJobs \in Int /\ crashes \in Nat

ExecType ==
  /\ pc \in [Execs -> ExecPcs]
  /\ jobOf \in [Execs -> Jobs \cup {NoJob}]
  /\ \A e \in Execs : pc[e] # "idle" => jobOf[e] \in Jobs
  /\ ctx \in [Execs -> BOOLEAN]

Locals == [upd : 1..5, changed : BOOLEAN, committed : BOOLEAN,
           reviewed : {"none", "no changes", "changes"}, safe : BOOLEAN]

LocalType == local \in [Execs -> Locals]

ReqType ==
  /\ req \in [Requests ->
               [pc : {"idle", "enqueue", "cancel", "retry", "mark", "decide"},
                job : Jobs \cup {NoJob}, approval : Nat,
                decision : Decisions, seen : Statuses \cup {"NONE"}]]
  /\ \A r \in Requests : req[r].pc # "idle" => req[r].job \in Jobs

\* Type invariant: the ranges of the database rows, of the worker's variables
\* and of the locals of executors and handlers; an executor or a handler that
\* is running has a job.
TypeOK ==
  DbType /\ StoreType /\ WorkerType /\ ExecType /\ LocalType /\ ReqType

\* A job is driven by the queue, by the reply of a poll, by a request that is
\* about to enqueue it, or by an executor that has not reported its outcome.
Driven(j) ==
  \/ j \in queue
  \/ polled = j
  \/ \E r \in Requests : req[r].pc = "enqueue" /\ req[r].job = j
  \/ \E e \in Driving : jobOf[e] = j

\* A job shown as queued or in progress is always driven by something, or is
\* one of the known strandings (a process that died, a reply or an update that
\* was lost, a request for changes): the hand-overs create/retry -> enqueueJob
\* -> zpopmin -> executeJob have no other gap.
NoSilentOrphan ==
  \A j \in Jobs : status[j] \in Working \cup {"QUEUED"}
                    => Driven(j) \/ j \in stranded

\* activeJobs counts the executors that are running and never exceeds
\* WORKER_CONCURRENCY, although it is tested before the await of zpopmin and
\* incremented after it, and also during a shutdown.
ConcurrencyBound ==
  /\ activeJobs = Cardinality(Busy)
  /\ activeJobs <= WorkerConcurrency

\* Two executions of one job (a double retry) never share its directory, which
\* is named after the job alone: cleanupWorkspace of one cannot delete the
\* files of another.
Holds(e) == ctx[e] \/ pc[e] = "branch"
WorkspaceMutex ==
  /\ \A e \in Execs : Holds(e) => jobOf[e] \in workspace
  /\ \A e, f \in Execs : Holds(e) /\ Holds(f) /\ jobOf[e] = jobOf[f] => e = f

\* However often a job is retried, crashes or runs twice, a human is asked
\* about it at most once, and only about a pull request that exists: the second
\* push of the work branch is refused.
AskedOnce ==
  \A j \in Jobs : /\ Len(approvals[j]) <= 1
                  /\ approvals[j] # << >> => j \in pr

\* A job waits for approval, is approved or is completed only if a pull request
\* was opened for it.  Only the risk level LOW merges by itself (risk-levels.ts,
\* RISK_AUTO_MERGE): a job of any other level is approved or completed only if a
\* human decided on it, whatever its executions, retries and crashes did and
\* however the risk level was raised meanwhile.
HumanGate ==
  \A j \in Jobs :
    /\ status[j] \in {"AWAITING_APPROVAL", "APPROVED", "COMPLETED"} => j \in pr
    /\ status[j] \in {"APPROVED", "COMPLETED"} /\ risk[j] \notin RISK_AUTO_MERGE
         => \E i \in DOMAIN approvals[j] : approvals[j][i] # "PENDING"

\* Every job that is enqueued is popped: the poll loop survives failed polls,
\* failing jobs, shutdowns and crashes of the worker.
QueueDrains == \A j \in Jobs : j \in queue ~> j \notin queue

-----------------------------------------------------------------------------
(* What comments and messages of the code say, and the code does not keep   *)

\* job-states.ts gives CANCELLED and COMPLETED no successor; the final update
\* and the catch block of executeJob overwrite them.
TerminalStatusesAreFinal ==
  [][\A j \in Jobs : status[j] \in {"CANCELLED", "COMPLETED"}
                       => status'[j] = status[j]]_status
=============================================================================
