----------------------------- MODULE ResponseGate -----------------------------
(***************************************************************************)
(* The human gate before a destructive action.  A run of the agents that   *)
(* wants to isolate a host pauses (tools/soar.py); an approver decides an  *)
(* approval of that run in the API (routers/approvals.py), which asks the  *)
(* agents service to go on with it (agentos_client.py); the service        *)
(* carries the actions out inside its tool hooks (hooks.py), which write   *)
(* them to the audit chain (AuditChain).                                   *)
(*                                                                         *)
(* The request goes to /runs/{id}/continue of AgentOS, whose code is agno's *)
(* and not in the repository.  What a resume does there is taken from      *)
(* continue_paused, the one place of the repository that says it, though   *)
(* no code of the repository calls it: every requirement of the run is     *)
(* confirmed, or every one rejected; that the request names one tool makes *)
(* no difference.                                                          *)
(*                                                                         *)
(* An API process handles one decision at a time but its steps, the        *)
(* request to the agents service and the threads there interleave with     *)
(* those of others.  A request can be refused, answered too late or lost   *)
(* with a process.  A run pauses on one tool call or on several, and when  *)
(* it has gone on it may pause again; it may have several approvals.       *)
(***************************************************************************)
EXTENDS Naturals, Sequences, FiniteSets

CONSTANTS
  ApiProcess,    \* processes running apps.api.main
  Thread,        \* threads of the agents service
  Run,           \* runs of the agents
  Approval,      \* approvals
  RunOf,         \* the run_id of each approval
  Tool,          \* calls of destructive tools
  WantedBy,      \* the run that wants each of them
  Tenant,
  TenantOf,      \* the tenant of each run
  NoThread, NoPayload,
  MaxDecisions,  \* bound on the number of decisions
  Faults         \* may requests fail or time out, and processes die?

ASSUME GateAssumption ==
  /\ RunOf \in [Approval -> Run]
  /\ WantedBy \in [Tool -> Run]
  /\ TenantOf \in [Run -> Tenant]
  /\ MaxDecisions \in Nat
  /\ Faults \in BOOLEAN

VARIABLES
  approvals,  \* the status of each approval (aegis.records)
  decided,    \* the statuses given to approvals of each run, in order
  handler,    \* the decision each API process is handling
  calls,      \* requests on their way to the agents service
  pending,    \* the tool calls that wait for a confirmation
  thread,     \* what each thread of the agents service is doing
  performed,  \* how often each tool call was carried out
  witnessed,  \* the outcomes seen by the audit hook since the service started
  lock, last, request, read, trail   \* of AuditChain

Audit == INSTANCE AuditChain WITH Action <- Tool
auditVars == <<lock, last, request, read, trail>>

gateVars == <<approvals, decided, handler, calls>>
agentVars == <<pending, thread, performed, witnessed>>
vars == <<gateVars, agentVars, auditVars>>

Status == {"pending", "approved", "denied"}
Idle == [step |-> "idle"]

(* A decision is known by its place among those of its run, a request by the  *)
(* decision it carries out: nr is nothing a request tells its receiver.       *)
Call == [run : Run, confirmed : BOOLEAN, nr : Nat]

Decision ==
  [step : {"write", "resume", "wait"}, approval : Approval, run : Run,
   confirmed : BOOLEAN, nr : Nat]

(* A thread has the requirements that it found still to carry out. *)
Continuation ==
  [step : {"continue", "tool", "record"}, call : Call, scoped : BOOLEAN,
   todo : SUBSET Tool]

TypeOK ==
  /\ approvals \in [Approval -> Status]
  /\ decided \in [Run -> Seq(Status)]
  /\ handler \in [ApiProcess -> {Idle} \cup Decision]
  /\ calls \subseteq Call
  /\ pending \subseteq Tool
  /\ thread \in [Thread -> {Idle} \cup Continuation]
  /\ performed \in [Tool -> Nat]
  /\ witnessed \in [Audit!Payload -> Nat]

Wanted(r) == {x \in Tool : WantedBy[x] = r}

(* run.active_requirements: a run that has any is paused. *)
Requirements(r) == pending \cap Wanted(r)

(* Every run is paused, on whatever it wants first. *)
Init ==
  /\ approvals = [a \in Approval |-> "pending"]
  /\ decided = [r \in Run |-> << >>]
  /\ handler = [p \in ApiProcess |-> Idle]
  /\ calls = {}
  /\ pending \in SUBSET Tool
  /\ \A r \in Run : Requirements(r) # {}
  /\ thread = [th \in Thread |-> Idle]
  /\ performed = [x \in Tool |-> 0]
  /\ witnessed = [x \in Audit!Payload |-> 0]
  /\ Audit!Init

Busy == {th \in Thread : thread[th] # Idle}

Become(p, h) == handler' = [handler EXCEPT ![p] = h]
Turn(th, s) == thread' = [thread EXCEPT ![th] = s]

-----------------------------------------------------------------------------
(* The API. *)

(* Bound: the decisions taken, and being taken. *)
Decisions ==
  Cardinality({d \in Run \X (1 .. MaxDecisions) :
                 d[2] <= Len(decided[d[1]])})
  + Cardinality({p \in ApiProcess : handler[p].step = "write"})

(* POST /approvals/{id} reads the approval, whatever its status is. *)
DecideApproval(p, a, approve) ==
  /\ handler[p] = Idle
  /\ Decisions < MaxDecisions
  /\ Become(p, [step |-> "write", approval |-> a, run |-> RunOf[a],
                confirmed |-> approve, nr |-> 0])
  /\ UNCHANGED <<approvals, decided, calls, agentVars, auditVars>>

(* mutant: the decision is written as it came *)
StatusOf_AsSent(h) == IF h.confirmed THEN "approve" ELSE "deny"

StatusOf(h) == IF h.confirmed THEN "approved" ELSE "denied"

(* ... and writes the decision, before anything is resumed. *)
WriteDecision(p) ==
  /\ handler[p].step = "write"
  /\ approvals' =
       [approvals EXCEPT ![handler[p].approval] = StatusOf(handler[p])]
  /\ LET r == handler[p].run IN
       /\ decided' = [decided EXCEPT ![r] = Append(@, StatusOf(handler[p]))]
       /\ Become(p, [handler[p] EXCEPT !.step = "resume",
                                       !.nr = Len(decided[r]) + 1])
  /\ UNCHANGED <<calls, agentVars, auditVars>>

(* mutant: the run is told to go on whatever was decided *)
ResumeRun_Always(p) ==
  /\ handler[p].step = "resume"
  /\ calls' = calls \cup {[run |-> handler[p].run, confirmed |-> TRUE,
                           nr |-> handler[p].nr]}
  /\ Become(p, [handler[p] EXCEPT !.step = "wait"])
  /\ UNCHANGED <<approvals, decided, agentVars, auditVars>>

(* resume_run posts to the agents service: ... *)
ResumeRun(p) ==
  /\ handler[p].step = "resume"
  /\ calls' = calls \cup {[run |-> handler[p].run,
                           confirmed |-> handler[p].confirmed,
                           nr |-> handler[p].nr]}
  /\ Become(p, [handler[p] EXCEPT !.step = "wait"])
  /\ UNCHANGED <<approvals, decided, agentVars, auditVars>>

(* the service is not reached, ... *)
ResumeFailed(p) ==
  /\ Faults
  /\ handler[p].step = "resume"
  /\ Become(p, Idle)
  /\ UNCHANGED <<approvals, decided, calls, agentVars, auditVars>>

(* it answers what was asked of it (or breaks the connection as it dies), ... *)
ResumeAnswered(p) ==
  /\ handler[p].step = "wait"
  /\ \A c \in calls \cup {thread[th].call : th \in Busy} :
       ~(c.run = handler[p].run /\ c.nr = handler[p].nr)
  /\ Become(p, Idle)
  /\ UNCHANGED <<approvals, decided, calls, agentVars, auditVars>>

(* or 15 s are over, and the request may still be carried out.  The process   *)
(* may also die at any step of a decision.                                    *)
GiveUp(p) ==
  /\ Faults
  /\ handler[p] # Idle
  /\ Become(p, Idle)
  /\ UNCHANGED <<approvals, decided, calls, agentVars, auditVars>>

-----------------------------------------------------------------------------
(* The agents service: the continuation of a run and the tool hooks. *)

Taken(c, scoped) ==
  IF Requirements(c.run) = {} THEN Idle
  ELSE [step |-> "continue", call |-> c, scoped |-> scoped,
        todo |-> Requirements(c.run)]

(* mutant: a request is delivered again and again *)
ContinuePaused_Redelivered(th, c, scoped) ==
  /\ thread[th] = Idle
  /\ c \in calls
  /\ Turn(th, Taken(c, scoped))
  /\ UNCHANGED <<gateVars, pending, performed, witnessed, auditVars>>

(* A request is taken up by a thread, in the tenant's scope (continue_paused)  *)
(* or in none (AgentOS, which is not told the tenant): the run is read with    *)
(* its requirements, and the request is refused if it has none.                *)
ContinuePaused(th, c, scoped) ==
  /\ thread[th] = Idle
  /\ c \in calls
  /\ calls' = calls \ {c}
  /\ Turn(th, Taken(c, scoped))
  /\ UNCHANGED <<approvals, decided, handler, pending, performed, witnessed,
                 auditVars>>

(* The agent takes the outcome up: the run ends, or it pauses on other calls  *)
(* or on the same ones.                                                       *)
Proceed(r) ==
  \E more \in SUBSET Wanted(r) : pending' = (pending \ Wanted(r)) \cup more

(* mutant: a rejected run goes on as well *)
ContinueRun_Rejected(th) ==
  /\ thread[th].step = "continue"
  /\ pending' = pending \ Wanted(thread[th].call.run)
  /\ Turn(th, [thread[th] EXCEPT !.step = "tool"])
  /\ UNCHANGED <<gateVars, performed, witnessed, auditVars>>

(* All its requirements are confirmed or all rejected, whichever tool was     *)
(* decided on, and the run goes on; nobody looks again whether it is still    *)
(* paused.                                                                    *)
ContinueRun(th) ==
  /\ thread[th].step = "continue"
  /\ LET c == thread[th].call IN
       IF c.confirmed
       THEN /\ pending' = pending \ Wanted(c.run)
            /\ Turn(th, [thread[th] EXCEPT !.step = "tool"])
       ELSE /\ Proceed(c.run)
            /\ Turn(th, Idle)
  /\ UNCHANGED <<gateVars, performed, witnessed, auditVars>>

(* tenant_guard_hook: no tool runs outside a tenant's scope. *)
GuardRefuses(th) ==
  /\ thread[th].step = "tool"
  /\ ~thread[th].scoped
  /\ Proceed(thread[th].call.run)
  /\ Turn(th, Idle)
  /\ UNCHANGED <<gateVars, performed, witnessed, auditVars>>

Outcome(th, x, status) ==
  [tenant |-> TenantOf[thread[th].call.run], action |-> x, status |-> status]

(* mutant: whatever the outcome, success is recorded *)
CallTool_AuditsSuccess(th, x, status) ==
  /\ thread[th].step = "tool"
  /\ thread[th].scoped
  /\ x \in thread[th].todo
  /\ performed' = IF status = "ok" THEN [performed EXCEPT ![x] = @ + 1]
                                   ELSE performed
  /\ witnessed' = [witnessed EXCEPT ![Outcome(th, x, status)] = @ + 1]
  /\ Audit!Record(th, Outcome(th, x, "ok"))
  /\ Turn(th, [thread[th] EXCEPT !.step = "record", !.todo = @ \ {x}])
  /\ UNCHANGED <<gateVars, pending>>

(* audit_hook calls the tool and hands its outcome to the audit chain. *)
CallTool(th, x, status) ==
  /\ thread[th].step = "tool"
  /\ thread[th].scoped
  /\ x \in thread[th].todo
  /\ performed' = IF status = "ok" THEN [performed EXCEPT ![x] = @ + 1]
                                   ELSE performed
  /\ witnessed' = [witnessed EXCEPT ![Outcome(th, x, status)] = @ + 1]
  /\ Audit!Record(th, Outcome(th, x, status))
  /\ Turn(th, [thread[th] EXCEPT !.step = "record", !.todo = @ \ {x}])
  /\ UNCHANGED <<gateVars, pending>>

EnterRecord(th) == Audit!Enter(th) /\ UNCHANGED <<gateVars, agentVars>>

(* The record is written: the next of the confirmed calls is made, and after  *)
(* the last one the run goes on.                                              *)
LeaveRecord(th) ==
  /\ thread[th].step = "record"
  /\ Audit!Leave(th)
  /\ IF thread[th].todo = {}
     THEN /\ Proceed(thread[th].call.run)
          /\ Turn(th, Idle)
     ELSE /\ Turn(th, [thread[th] EXCEPT !.step = "tool"])
          /\ UNCHANGED pending
  /\ UNCHANGED <<gateVars, performed, witnessed>>

(* The agents service dies, with its threads, the requests on their way to it *)
(* and its audit chains; the runs are in the database.                        *)
AgentsCrash ==
  /\ Faults
  /\ Audit!Restart
  /\ calls' = {}
  /\ thread' = [th \in Thread |-> Idle]
  /\ witnessed' = [x \in Audit!Payload |-> 0]
  /\ UNCHANGED <<approvals, decided, handler, pending, performed>>

Next ==
  \/ \E p \in ApiProcess :
       \/ \E a \in Approval, approve \in BOOLEAN : DecideApproval(p, a, approve)
       \/ WriteDecision(p)
       \/ ResumeRun(p)
       \/ ResumeFailed(p)
       \/ ResumeAnswered(p)
       \/ GiveUp(p)
  \/ \E th \in Thread :
       \/ \E c \in calls, scoped \in BOOLEAN : ContinuePaused(th, c, scoped)
       \/ ContinueRun(th)
       \/ GuardRefuses(th)
       \/ \E x \in Tool, status \in {"ok", "error"} : CallTool(th, x, status)
       \/ EnterRecord(th)
       \/ LeaveRecord(th)
  \/ AgentsCrash

(* A thread that has taken up a request goes on: nothing in its way blocks but *)
(* the lock of the audit chain.                                                *)
ThreadGoesOn(th) ==
  \/ ContinueRun(th)
  \/ GuardRefuses(th)
  \/ \E x \in Tool, status \in {"ok", "error"} : CallTool(th, x, status)
  \/ EnterRecord(th)
  \/ LeaveRecord(th)

Fairness == \A th \in Thread : WF_vars(ThreadGoesOn(th))

Spec == Init /\ [][Next]_vars /\ Fairness

-----------------------------------------------------------------------------
(* Properties. *)

Approvals(r) == {k \in 1 .. Len(decided[r]) : decided[r][k] = "approved"}
Approved == {r \in Run : Approvals(r) # {}}

(* No destructive action is carried out before an approval of the run that    *)
(* wants it was recorded as approved, whatever fails or is answered too late  *)
(* (approvals.py writes the decision before it resumes the run).  It need not *)
(* be the approval of that action: the code resumes runs, not tool calls.     *)
ApprovedBeforePerformed ==
  \A x \in Tool : performed[x] > 0 => WantedBy[x] \in Approved

(* Why: whatever is on its way to confirm a run has been approved before, a   *)
(* thread only comes to the tools with a confirmed request, and it carries    *)
(* out what that run wants.                                                   *)
OnlyApprovedOnTheWay ==
  /\ \A p \in ApiProcess :
       handler[p].step \in {"resume", "wait"} /\ handler[p].confirmed =>
         handler[p].run \in Approved
  /\ \A c \in calls : c.confirmed => c.run \in Approved
  /\ \A th \in Thread :
       /\ thread[th] # Idle /\ thread[th].call.confirmed =>
            thread[th].call.run \in Approved
       /\ thread[th] # Idle => thread[th].todo \subseteq Wanted(thread[th].call.run)
       /\ thread[th].step \in {"tool", "record"} => thread[th].call.confirmed

GateInv == ApprovedBeforePerformed /\ OnlyApprovedOnTheWay

(* One decision to approve carries an action out at most once, however many   *)
(* actions the run waits with and however often it pauses: neither timeouts,  *)
(* nor restarts, nor requests that meet in the agents service multiply it.    *)
PerformedOncePerApproval ==
  \A x \in Tool : performed[x] <= Cardinality(Approvals(WantedBy[x]))

(* Why: each approval makes one confirmation, which is a decision that was    *)
(* written, then a request, then a thread that has the action to carry out,   *)
(* and then spent on it.                                                      *)
OnTheWay(x) ==
  {<<"decision", p>> : p \in {q \in ApiProcess :
     /\ handler[q].step = "resume" /\ handler[q].confirmed
     /\ handler[q].run = WantedBy[x]}}
  \cup {<<"request", c>> : c \in {d \in calls :
     d.confirmed /\ d.run = WantedBy[x]}}
  \cup {<<"thread", th>> : th \in {t \in Thread :
     /\ thread[t] # Idle
     /\ x \in thread[t].todo
     /\ thread[t].step = "continue" => thread[t].call.confirmed}}

SpentOnce(x) ==
  /\ IsFiniteSet(OnTheWay(x))
  /\ performed[x] + Cardinality(OnTheWay(x)) <= Cardinality(Approvals(WantedBy[x]))

EachApprovalSpentOnce == \A x \in Tool : SpentOnce(x)

(* The audit chain tells what the tools did: since the service started, every *)
(* outcome the audit hook saw is in the chain of its tenant once, or is just  *)
(* being recorded (hooks.py, "Record every tool call").                       *)
Recorded(x) == {k \in 1 .. Len(trail[x.tenant]) : trail[x.tenant][k].payload = x}
Recording(x) == {th \in Thread : request[th] = x}

EveryCallAudited ==
  \A x \in Audit!Payload :
    witnessed[x] = Cardinality(Recorded(x)) + Cardinality(Recording(x))

(* Runs that are resumed at the same time leave chains that verify. *)
AuditVerifies == Audit!ChainVerifies

(* A thread of the agents service never hangs on the audit lock: what it has  *)
(* taken up it brings to an end.                                              *)
EveryCallEnds == \A th \in Thread : thread[th] # Idle ~> thread[th] = Idle
=============================================================================
