------------------------- MODULE ResponseGateProofs -------------------------
(***************************************************************************)
(* Proofs about ResponseGate, for any number of processes, threads, runs,  *)
(* approvals, tool calls and decisions, and any failures.                  *)
(***************************************************************************)
EXTENDS ResponseGate, FiniteSetTheorems, SequenceTheorems,
        WellFoundedInduction, TLAPS

(* Every step of the gate keeps the types of its state. *)
THEOREM TypeCorrect == Spec => []TypeOK
<1> USE DEF Status, Idle, Decision, Continuation, Call, gateVars, agentVars
<1>1. Init => TypeOK
  BY DEF Init, TypeOK
<1>2. TypeOK /\ [Next]_vars => TypeOK'
  <2> SUFFICES ASSUME TypeOK, [Next]_vars PROVE TypeOK'
    OBVIOUS
  <2>1. ASSUME NEW p \in ApiProcess, NEW a \in Approval, NEW approve \in BOOLEAN,
               DecideApproval(p, a, approve)
        PROVE  TypeOK'
    BY <2>1, GateAssumption DEF DecideApproval, Become, TypeOK
  <2>2. ASSUME NEW p \in ApiProcess, WriteDecision(p) PROVE TypeOK'
    <3>1. handler[p] \in Decision /\ StatusOf(handler[p]) \in Status
      BY <2>2 DEF WriteDecision, TypeOK, StatusOf
    <3>2. PICK h \in Decision :
            h = [handler[p] EXCEPT !.step = "resume", !.nr = Len(decided[handler[p].run]) + 1]
      <4>1. handler[p].run \in Run /\ Len(decided[handler[p].run]) + 1 \in Nat
        BY <3>1 DEF TypeOK
      <4> QED
        BY <3>1, <4>1
    <3>3. approvals' \in [Approval -> Status] /\ decided' \in [Run -> Seq(Status)]
      BY <2>2, <3>1 DEF WriteDecision, TypeOK
    <3>4. handler' \in [ApiProcess -> {Idle} \cup Decision]
      BY <2>2, <3>2 DEF WriteDecision, Become, TypeOK
    <3> QED
      BY <2>2, <3>3, <3>4 DEF WriteDecision, TypeOK
  <2>3. ASSUME NEW p \in ApiProcess, ResumeRun(p) PROVE TypeOK'
    <3>1. handler[p] \in Decision
      BY <2>3 DEF ResumeRun, TypeOK
    <3>2. /\ [handler[p] EXCEPT !.step = "wait"] \in Decision
          /\ [run |-> handler[p].run, confirmed |-> handler[p].confirmed,
              nr |-> handler[p].nr] \in Call
      BY <3>1
    <3> QED
      BY <2>3, <3>2 DEF ResumeRun, Become, TypeOK
  <2>4. ASSUME NEW p \in ApiProcess,
               ResumeFailed(p) \/ ResumeAnswered(p) \/ GiveUp(p)
        PROVE  TypeOK'
    BY <2>4 DEF ResumeFailed, ResumeAnswered, GiveUp, Become, TypeOK
  <2>5. ASSUME NEW th \in Thread, NEW c \in calls, NEW scoped \in BOOLEAN,
               ContinuePaused(th, c, scoped)
        PROVE  TypeOK'
    <3>1. Taken(c, scoped) \in {Idle} \cup Continuation
      BY DEF Taken, Requirements, Wanted, TypeOK
    <3> QED
      BY <2>5, <3>1 DEF ContinuePaused, Turn, TypeOK
  <2>a. ASSUME NEW r, Proceed(r) PROVE pending' \subseteq Tool
    BY <2>a DEF Proceed, Wanted, TypeOK
  <2>6. ASSUME NEW th \in Thread, ContinueRun(th) PROVE TypeOK'
    <3>1. thread[th] \in Continuation
      BY <2>6 DEF ContinueRun, TypeOK
    <3>2. PICK s \in Continuation : s = [thread[th] EXCEPT !.step = "tool"]
      BY <3>1
    <3>3. pending' \subseteq Tool
      BY <2>6, <2>a DEF ContinueRun, TypeOK
    <3>4. thread' \in [Thread -> {Idle} \cup Continuation]
      <4>1. thread' = [thread EXCEPT ![th] = s] \/ thread' = [thread EXCEPT ![th] = Idle]
        BY <2>6, <3>2 DEF ContinueRun, Turn
      <4> QED
        BY <4>1 DEF TypeOK
    <3> QED
      BY <2>6, <3>3, <3>4 DEF ContinueRun, TypeOK
  <2>7. ASSUME NEW th \in Thread, GuardRefuses(th) PROVE TypeOK'
    BY <2>7, <2>a DEF GuardRefuses, Turn, TypeOK
  <2>8. ASSUME NEW th \in Thread, NEW x \in Tool, NEW status \in {"ok", "error"},
               CallTool(th, x, status)
        PROVE  TypeOK'
    <3>1. thread[th] \in Continuation
      BY <2>8 DEF CallTool, TypeOK
    <3>2. PICK s \in Continuation :
            s = [thread[th] EXCEPT !.step = "record", !.todo = @ \ {x}]
      BY <3>1
    <3>3. performed' \in [Tool -> Nat]
      BY <2>8 DEF CallTool, TypeOK
    <3>4. Outcome(th, x, status) \in Audit!Payload
      BY <3>1, GateAssumption DEF Outcome, Audit!Payload
    <3>5. witnessed' \in [Audit!Payload -> Nat]
      BY <2>8, <3>4 DEF CallTool, TypeOK
    <3> QED
      BY <2>8, <3>2, <3>3, <3>5 DEF CallTool, Turn, TypeOK
  <2>9. ASSUME NEW th \in Thread, EnterRecord(th) PROVE TypeOK'
    BY <2>9 DEF EnterRecord, TypeOK
  <2>10. ASSUME NEW th \in Thread, LeaveRecord(th) PROVE TypeOK'
    <3>1. CASE thread[th].todo = {}
      BY <2>10, <2>a, <3>1 DEF LeaveRecord, Turn, TypeOK
    <3>2. CASE thread[th].todo # {}
      <4>1. thread[th] \in Continuation
        BY <2>10 DEF LeaveRecord, TypeOK
      <4>2. PICK s \in Continuation : s = [thread[th] EXCEPT !.step = "tool"]
        BY <4>1
      <4>3. thread' = [thread EXCEPT ![th] = s] /\ pending' = pending
        BY <2>10, <3>2, <4>2 DEF LeaveRecord, Turn
      <4>4. thread' \in [Thread -> {Idle} \cup Continuation]
        BY <4>3 DEF TypeOK
      <4> QED
        BY <2>10, <4>3, <4>4 DEF LeaveRecord, TypeOK
    <3> QED
      BY <3>1, <3>2
  <2>11. CASE AgentsCrash
    BY <2>11 DEF AgentsCrash, TypeOK
  <2>12. CASE UNCHANGED vars
    BY <2>12 DEF vars, TypeOK
  <2> QED
    BY <2>1, <2>2, <2>3, <2>4, <2>5, <2>6, <2>7, <2>8, <2>9, <2>10, <2>11, <2>12
       DEF Next
<1> QED
  BY <1>1, <1>2, PTL DEF Spec

(* What is on its way to confirm a run was approved, and threads carry out    *)
(* what their run wants.                                                      *)
LEMMA GateStays == Spec => []GateInv
<1> USE DEF Idle, Decision, Continuation, Call, gateVars, agentVars, GateInv
<1>1. Init => GateInv
  BY DEF Init, ApprovedBeforePerformed, OnlyApprovedOnTheWay
<1>2. TypeOK /\ TypeOK' /\ GateInv /\ [Next]_vars => GateInv'
  <2> SUFFICES ASSUME TypeOK, TypeOK', GateInv, [Next]_vars PROVE GateInv'
    OBVIOUS
  <2>0. decided' = decided => Approved' = Approved
    BY DEF Approved, Approvals
  <2>1. ASSUME NEW p \in ApiProcess, NEW a \in Approval, NEW approve \in BOOLEAN,
               DecideApproval(p, a, approve)
        PROVE  GateInv'
    BY <2>0, <2>1 DEF DecideApproval, Become, TypeOK, ApprovedBeforePerformed,
                OnlyApprovedOnTheWay
  <2>2. ASSUME NEW p \in ApiProcess, WriteDecision(p) PROVE GateInv'
    <3> DEFINE r == handler[p].run
               s == StatusOf(handler[p])
    <3>1. handler[p] \in Decision /\ r \in Run /\ s \in Status
      BY <2>2 DEF WriteDecision, TypeOK, StatusOf, Status
    <3>2. decided' = [decided EXCEPT ![r] = Append(decided[r], s)]
      BY <2>2 DEF WriteDecision
    <3>3. Approved \subseteq Approved'
      <4>1. SUFFICES ASSUME NEW b \in Approved PROVE b \in Approved'
        OBVIOUS
      <4>2. PICK k \in 1 .. Len(decided[b]) : decided[b][k] = "approved"
        BY <4>1 DEF Approved, Approvals
      <4>3. decided[b] \in Seq(Status) /\ b \in Run
        BY <4>1 DEF Approved, TypeOK
      <4>4. decided'[b] = decided[b] \/ decided'[b] = Append(decided[b], s)
        BY <3>1, <3>2, <4>3 DEF TypeOK
      <4>5. k \in 1 .. Len(decided'[b]) /\ decided'[b][k] = "approved"
        BY <3>1, <4>2, <4>3, <4>4
      <4> QED
        BY <4>3, <4>5 DEF Approved, Approvals
    <3>4. handler[p].confirmed => r \in Approved'
      <4>1. SUFFICES ASSUME handler[p].confirmed PROVE r \in Approved'
        OBVIOUS
      <4>2. s = "approved"
        BY <4>1 DEF StatusOf
      <4>3. decided'[r] = Append(decided[r], s) /\ decided[r] \in Seq(Status)
        BY <3>1, <3>2 DEF TypeOK
      <4>4. /\ Len(decided'[r]) \in 1 .. Len(decided'[r])
            /\ decided'[r][Len(decided'[r])] = "approved"
        BY <4>2, <4>3, <3>1
      <4> QED
        BY <3>1, <4>4 DEF Approved, Approvals
    <3>5. /\ handler'[p].run = r /\ handler'[p].confirmed = handler[p].confirmed
          /\ \A q \in ApiProcess \ {p} : handler'[q] = handler[q]
      BY <2>2, <3>1 DEF WriteDecision, Become, TypeOK
    <3>6. calls' = calls /\ thread' = thread /\ performed' = performed
      BY <2>2 DEF WriteDecision
    <3> HIDE DEF r, s
    <3>7. ApprovedBeforePerformed'
      BY <3>3, <3>6 DEF ApprovedBeforePerformed
    <3>8. \A q \in ApiProcess :
            handler'[q].step \in {"resume", "wait"} /\ handler'[q].confirmed =>
              handler'[q].run \in Approved'
      BY <3>1, <3>3, <3>4, <3>5 DEF OnlyApprovedOnTheWay, TypeOK
    <3>9. \A c \in calls : c.confirmed => c.run \in Approved'
      BY <3>3 DEF OnlyApprovedOnTheWay, TypeOK
    <3>10. \A th \in Thread :
             /\ thread[th] # Idle /\ thread[th].call.confirmed =>
                  thread[th].call.run \in Approved'
             /\ thread[th] # Idle =>
                  thread[th].todo \subseteq Wanted(thread[th].call.run)
             /\ thread[th].step \in {"tool", "record"} => thread[th].call.confirmed
      BY <3>3 DEF OnlyApprovedOnTheWay, TypeOK
    <3> QED
      BY <3>6, <3>7, <3>8, <3>9, <3>10 DEF OnlyApprovedOnTheWay
  <2>3. ASSUME decided' = decided, performed' = performed, OnlyApprovedOnTheWay'
        PROVE  GateInv'
    BY <2>0, <2>3 DEF ApprovedBeforePerformed
  <2>4. ASSUME NEW p \in ApiProcess, ResumeRun(p) PROVE GateInv'
    <3>1. OnlyApprovedOnTheWay'
      BY <2>0, <2>4 DEF ResumeRun, Become, TypeOK, OnlyApprovedOnTheWay
    <3> QED
      BY <2>3, <2>4, <3>1 DEF ResumeRun
  <2>5. ASSUME NEW p \in ApiProcess,
               ResumeFailed(p) \/ ResumeAnswered(p) \/ GiveUp(p)
        PROVE  GateInv'
    <3>1. /\ handler' = [handler EXCEPT ![p] = Idle]
          /\ decided' = decided /\ calls' = calls
          /\ thread' = thread /\ performed' = performed
      BY <2>5 DEF ResumeFailed, ResumeAnswered, GiveUp, Become
    <3>2. OnlyApprovedOnTheWay'
      BY <2>0, <3>1 DEF TypeOK, OnlyApprovedOnTheWay
    <3> QED
      BY <2>3, <3>1, <3>2
  <2>6. ASSUME NEW th \in Thread, NEW c \in calls, NEW scoped \in BOOLEAN,
               ContinuePaused(th, c, scoped)
        PROVE  GateInv'
    <3>1. PICK s : s = Taken(c, scoped)
      OBVIOUS
    <3>2. \/ s = Idle
          \/ /\ s # Idle /\ s.step = "continue" /\ s.call = c
             /\ s.todo \subseteq Wanted(c.run)
      BY <3>1 DEF Taken, Requirements
    <3>3. /\ thread' = [thread EXCEPT ![th] = s] /\ calls' = calls \ {c}
          /\ handler' = handler /\ decided' = decided /\ performed' = performed
      BY <2>6, <3>1 DEF ContinuePaused, Turn
    <3>4. /\ thread'[th] = s
          /\ \A t \in Thread \ {th} : thread'[t] = thread[t]
      BY <3>3 DEF TypeOK
    <3>5. OnlyApprovedOnTheWay'
      BY <2>0, <3>2, <3>3, <3>4 DEF OnlyApprovedOnTheWay
    <3> QED
      BY <2>3, <3>3, <3>5
  <2>7. ASSUME NEW th \in Thread, ContinueRun(th) PROVE GateInv'
    <3>1. thread[th] \in Continuation
      BY <2>7 DEF ContinueRun, TypeOK
    <3>2. /\ handler' = handler /\ calls' = calls
          /\ decided' = decided /\ performed' = performed
      BY <2>7 DEF ContinueRun
    <3>3. CASE thread[th].call.confirmed
      <4>1. thread' = [thread EXCEPT ![th] = [thread[th] EXCEPT !.step = "tool"]]
        BY <2>7, <3>3 DEF ContinueRun, Turn
      <4>2. /\ thread'[th].call = thread[th].call
            /\ thread'[th].todo = thread[th].todo
            /\ thread'[th] # Idle /\ thread[th] # Idle
            /\ \A t \in Thread \ {th} : thread'[t] = thread[t]
        BY <3>1, <4>1 DEF TypeOK
      <4>3. OnlyApprovedOnTheWay'
        BY <2>0, <3>2, <3>3, <4>2 DEF OnlyApprovedOnTheWay
      <4> QED
        BY <2>3, <3>2, <4>3
    <3>4. CASE ~thread[th].call.confirmed
      <4>1. thread' = [thread EXCEPT ![th] = Idle]
        BY <2>7, <3>4 DEF ContinueRun, Turn
      <4>2. OnlyApprovedOnTheWay'
        BY <2>0, <3>2, <4>1 DEF TypeOK, OnlyApprovedOnTheWay
      <4> QED
        BY <2>3, <3>2, <4>2
    <3> QED
      BY <3>3, <3>4
  <2>8. ASSUME NEW th \in Thread, GuardRefuses(th) PROVE GateInv'
    <3>1. OnlyApprovedOnTheWay'
      BY <2>0, <2>8 DEF GuardRefuses, Turn, TypeOK, OnlyApprovedOnTheWay
    <3> QED
      BY <2>3, <2>8, <3>1 DEF GuardRefuses
  <2>9. ASSUME NEW th \in Thread, NEW x \in Tool, NEW status \in {"ok", "error"},
               CallTool(th, x, status)
        PROVE  GateInv'
    <3>1. PICK t \in Continuation : t = thread[th]
      BY <2>9 DEF CallTool, TypeOK
    <3>2. /\ t.call.confirmed /\ t.call.run \in Approved
          /\ t.todo \subseteq Wanted(t.call.run) /\ x \in t.todo
      BY <2>9, <3>1 DEF CallTool, OnlyApprovedOnTheWay
    <3>3. decided' = decided /\ handler' = handler /\ calls' = calls
      BY <2>9 DEF CallTool
    <3>4. ApprovedBeforePerformed'
      <4>1. WantedBy[x] \in Approved
        BY <3>2 DEF Wanted
      <4> QED
        BY <2>0, <2>9, <3>3, <4>1 DEF CallTool, TypeOK, ApprovedBeforePerformed
    <3>5. PICK s : s = [t EXCEPT !.step = "record", !.todo = t.todo \ {x}]
      OBVIOUS
    <3>6. s # Idle /\ s.step = "record" /\ s.call = t.call /\ s.todo \subseteq t.todo
      BY <3>1, <3>5
    <3>7. /\ thread'[th] = s
          /\ \A u \in Thread \ {th} : thread'[u] = thread[u]
      BY <2>9, <3>1, <3>5 DEF CallTool, Turn, TypeOK
    <3>8. OnlyApprovedOnTheWay'
      BY <2>0, <3>2, <3>3, <3>6, <3>7 DEF OnlyApprovedOnTheWay
    <3> QED
      BY <3>4, <3>8
  <2>10. ASSUME NEW th \in Thread, EnterRecord(th) PROVE GateInv'
    BY <2>0, <2>10 DEF EnterRecord, ApprovedBeforePerformed,
                 OnlyApprovedOnTheWay
  <2>11. ASSUME NEW th \in Thread, LeaveRecord(th) PROVE GateInv'
    <3>1. PICK t \in Continuation : t = thread[th]
      BY <2>11 DEF LeaveRecord, TypeOK
    <3>2. PICK s : s = IF t.todo = {} THEN Idle ELSE [t EXCEPT !.step = "tool"]
      OBVIOUS
    <3>3. /\ thread' = [thread EXCEPT ![th] = s] /\ t.step = "record"
          /\ handler' = handler /\ decided' = decided /\ calls' = calls
          /\ performed' = performed
      BY <2>11, <3>1, <3>2 DEF LeaveRecord, Turn
    <3>4. \/ s = Idle
          \/ s # Idle /\ s.step = "tool" /\ s.call = t.call /\ s.todo = t.todo
      BY <3>1, <3>2
    <3>5. /\ thread'[th] = s
          /\ \A u \in Thread \ {th} : thread'[u] = thread[u]
      BY <3>3 DEF TypeOK
    <3>6. OnlyApprovedOnTheWay'
      BY <2>0, <3>1, <3>3, <3>4, <3>5 DEF OnlyApprovedOnTheWay
    <3> QED
      BY <2>3, <3>3, <3>6
  <2>12. CASE AgentsCrash
    <3>1. OnlyApprovedOnTheWay'
      BY <2>0, <2>12 DEF AgentsCrash, TypeOK, OnlyApprovedOnTheWay
    <3> QED
      BY <2>3, <2>12, <3>1 DEF AgentsCrash
  <2>13. CASE UNCHANGED vars
    BY <2>0, <2>13 DEF vars, ApprovedBeforePerformed, OnlyApprovedOnTheWay
  <2> QED
    BY <2>1, <2>2, <2>4, <2>5, <2>6, <2>7, <2>8, <2>9, <2>10, <2>11, <2>12, <2>13
       DEF Next
<1> QED
  BY <1>1, <1>2, TypeCorrect, PTL DEF Spec

(* No destructive action is carried out before an approval of its run was     *)
(* recorded as approved: not by a late or repeated request, not after a crash, *)
(* not by a thread that met another one, and not when the run paused again.   *)
THEOREM ApprovalComesFirst == Spec => []ApprovedBeforePerformed
<1>1. GateInv => ApprovedBeforePerformed
  BY DEF GateInv
<1> QED
  BY <1>1, GateStays, PTL

-----------------------------------------------------------------------------
(* Counting.  What was exchanged for one element is no more than it was, ...   *)
LEMMA Exchanged ==
  ASSUME NEW S, IsFiniteSet(S), NEW T, NEW x \in S, NEW y,
         T \subseteq (S \ {x}) \cup {y}
  PROVE  IsFiniteSet(T) /\ Cardinality(T) <= Cardinality(S)
<1>1. IsFiniteSet(S \ {x}) /\ Cardinality(S \ {x}) = Cardinality(S) - 1
  BY FS_RemoveElement
<1>2. /\ IsFiniteSet((S \ {x}) \cup {y})
      /\ \/ Cardinality((S \ {x}) \cup {y}) = Cardinality(S \ {x})
         \/ Cardinality((S \ {x}) \cup {y}) = Cardinality(S \ {x}) + 1
  BY <1>1, FS_AddElement
<1>3. IsFiniteSet(T) /\ Cardinality(T) <= Cardinality((S \ {x}) \cup {y})
  BY <1>2, FS_Subset
<1>4. Cardinality(S) \in Nat /\ Cardinality(T) \in Nat
  BY <1>3, FS_CardinalityType
<1> QED
  BY <1>1, <1>2, <1>3, <1>4

(* ... what lost one is less by one, ...                                       *)
LEMMA Lost ==
  ASSUME NEW S, IsFiniteSet(S), NEW T, NEW x \in S, T \subseteq S \ {x}
  PROVE  IsFiniteSet(T) /\ Cardinality(T) + 1 <= Cardinality(S)
<1>1. IsFiniteSet(S \ {x}) /\ Cardinality(S \ {x}) = Cardinality(S) - 1
  BY FS_RemoveElement
<1>2. IsFiniteSet(T) /\ Cardinality(T) <= Cardinality(S \ {x})
  BY <1>1, FS_Subset
<1>3. Cardinality(S) \in Nat /\ Cardinality(T) \in Nat
  BY <1>2, FS_CardinalityType
<1> QED
  BY <1>1, <1>2, <1>3

(* ... and what gained one is at most one more.                                *)
LEMMA Gained ==
  ASSUME NEW S, IsFiniteSet(S), NEW T, NEW x, T \subseteq S \cup {x}
  PROVE  IsFiniteSet(T) /\ Cardinality(T) <= Cardinality(S) + 1
<1>1. /\ IsFiniteSet(S \cup {x})
      /\ \/ Cardinality(S \cup {x}) = Cardinality(S)
         \/ Cardinality(S \cup {x}) = Cardinality(S) + 1
  BY FS_AddElement
<1>2. IsFiniteSet(T) /\ Cardinality(T) <= Cardinality(S \cup {x})
  BY <1>1, FS_Subset
<1>3. Cardinality(S) \in Nat /\ Cardinality(T) \in Nat
  BY <1>2, FS_CardinalityType
<1> QED
  BY <1>1, <1>2, <1>3

(* The places of a sequence that hold one of the elements of G: what is        *)
(* appended adds one if it is in G, and none otherwise.                        *)
Places(s, G) == {k \in 1 .. Len(s) : s[k] \in G}

LEMMA PlacesGrow ==
  ASSUME NEW Of, NEW s \in Seq(Of), NEW x \in Of, NEW G
  PROVE  /\ IsFiniteSet(Places(s, G)) /\ Cardinality(Places(s, G)) \in Nat
         /\ x \in G =>
              Cardinality(Places(Append(s, x), G)) = Cardinality(Places(s, G)) + 1
         /\ x \notin G => Places(Append(s, x), G) = Places(s, G)
<1>1. /\ Len(s) \in Nat /\ Len(Append(s, x)) = Len(s) + 1
      /\ \A k \in 1 .. Len(s) : Append(s, x)[k] = s[k]
      /\ Append(s, x)[Len(s) + 1] = x
  OBVIOUS
<1>2. IsFiniteSet(Places(s, G)) /\ Cardinality(Places(s, G)) \in Nat
  <2>1. IsFiniteSet(1 .. Len(s)) /\ Places(s, G) \subseteq 1 .. Len(s)
    BY <1>1, FS_Interval DEF Places
  <2> QED
    BY <2>1, FS_Subset, FS_CardinalityType
<1>3. ASSUME x \in G
      PROVE  Cardinality(Places(Append(s, x), G)) = Cardinality(Places(s, G)) + 1
  <2>1. Places(Append(s, x), G) = Places(s, G) \cup {Len(s) + 1}
    BY <1>1, <1>3 DEF Places
  <2>2. Len(s) + 1 \notin Places(s, G)
    BY <1>1 DEF Places
  <2> QED
    BY <1>2, <2>1, <2>2, FS_AddElement
<1>4. ASSUME x \notin G PROVE Places(Append(s, x), G) = Places(s, G)
  BY <1>1, <1>4 DEF Places
<1> QED
  BY <1>2, <1>3, <1>4

LEMMA NoPlaces ==
  ASSUME NEW G
  PROVE  IsFiniteSet(Places(<< >>, G)) /\ Cardinality(Places(<< >>, G)) = 0
<1>1. Places(<< >>, G) = {}
  BY DEF Places
<1> QED
  BY <1>1, FS_EmptySet

-----------------------------------------------------------------------------
(* An action is carried out at most once for each approval of its run, for     *)
(* any number of API processes, threads, actions and decisions, whatever is    *)
(* lost, late or asked twice and however often the run pauses: a confirmation  *)
(* is in one place at a time, and what a thread calls it strikes off its list. *)
THEOREM NeverMoreThanApproved == Spec => []PerformedOncePerApproval
<1> USE DEF Idle, Decision, Continuation, Call, gateVars, agentVars
<1>0. TypeOK =>
        \A x \in Tool : /\ IsFiniteSet(Approvals(WantedBy[x]))
                            /\ Cardinality(Approvals(WantedBy[x])) \in Nat
                            /\ performed[x] \in Nat
  <2> SUFFICES ASSUME TypeOK, NEW x \in Tool
               PROVE  /\ IsFiniteSet(Approvals(WantedBy[x]))
                      /\ Cardinality(Approvals(WantedBy[x])) \in Nat
                      /\ performed[x] \in Nat
    OBVIOUS
  <2>1. PICK s \in Seq(Status) : s = decided[WantedBy[x]]
    BY GateAssumption DEF TypeOK
  <2>2. Approvals(WantedBy[x]) = Places(s, {"approved"})
    BY <2>1 DEF Approvals, Places
  <2>3. "pending" \in Status
    BY DEF Status
  <2> QED
    BY <2>2, <2>3, PlacesGrow DEF TypeOK
<1>1. Init => EachApprovalSpentOnce
  <2> SUFFICES ASSUME Init, NEW x \in Tool PROVE SpentOnce(x)
    BY DEF EachApprovalSpentOnce
  <2>1. Approvals(WantedBy[x]) = {} /\ OnTheWay(x) = {} /\ performed[x] = 0
    BY GateAssumption DEF Init, Approvals, OnTheWay
  <2> QED
    BY <2>1, FS_EmptySet DEF SpentOnce
<1>2. TypeOK /\ EachApprovalSpentOnce /\ [Next]_vars => EachApprovalSpentOnce'
  <2> SUFFICES ASSUME TypeOK, EachApprovalSpentOnce, [Next]_vars,
                      NEW x \in Tool
               PROVE  SpentOnce(x)'
    BY DEF EachApprovalSpentOnce
  <2>0. SpentOnce(x)
    BY DEF EachApprovalSpentOnce
  <2> DEFINE Kept == decided' = decided /\ performed' = performed
  <2>a. ASSUME decided' = decided PROVE Approvals(WantedBy[x])' = Approvals(WantedBy[x])
    BY <2>a DEF Approvals
  <2>b. ASSUME Kept, OnTheWay(x)' \subseteq OnTheWay(x) PROVE SpentOnce(x)'
    <3>1. PICK S, T : S = OnTheWay(x) /\ T = OnTheWay(x)'
      OBVIOUS
    <3>2. IsFiniteSet(S) /\ T \subseteq S
      BY <2>0, <2>b, <3>1 DEF SpentOnce
    <3>3. /\ IsFiniteSet(T) /\ Cardinality(T) <= Cardinality(S)
          /\ Cardinality(T) \in Nat /\ Cardinality(S) \in Nat
      BY <3>2, FS_Subset, FS_CardinalityType
    <3> QED
      BY <1>0, <2>0, <2>a, <2>b, <3>1, <3>3 DEF SpentOnce
  <2>c. ASSUME Kept, NEW d \in OnTheWay(x), NEW y,
               OnTheWay(x)' \subseteq (OnTheWay(x) \ {d}) \cup {y}
        PROVE  SpentOnce(x)'
    <3>1. PICK S, T, v : S = OnTheWay(x) /\ T = OnTheWay(x)' /\ v = d
      OBVIOUS
    <3>2. IsFiniteSet(S) /\ v \in S /\ T \subseteq (S \ {v}) \cup {y}
      BY <2>0, <2>c, <3>1 DEF SpentOnce
    <3>3. IsFiniteSet(T) /\ Cardinality(T) <= Cardinality(S)
      BY <3>2, Exchanged
    <3>4. Cardinality(T) \in Nat /\ Cardinality(S) \in Nat
      BY <3>2, <3>3, FS_CardinalityType
    <3> QED
      BY <1>0, <2>0, <2>a, <2>c, <3>1, <3>3, <3>4 DEF SpentOnce
  <2>1. ASSUME NEW p \in ApiProcess, NEW b \in Approval, NEW approve \in BOOLEAN,
               DecideApproval(p, b, approve)
        PROVE  SpentOnce(x)'
    <3>1. OnTheWay(x)' \subseteq OnTheWay(x)
      BY <2>1 DEF DecideApproval, Become, TypeOK, OnTheWay
    <3> QED
      BY <2>1, <2>b, <3>1 DEF DecideApproval
  <2>2. ASSUME NEW p \in ApiProcess, WriteDecision(p) PROVE SpentOnce(x)'
    <3>1. PICK h \in Decision : h = handler[p]
      BY <2>2 DEF WriteDecision, TypeOK
    <3>2. PICK r \in Status : r = StatusOf(h)
      BY <3>1 DEF StatusOf, Status
    <3>3. PICK g : g = [h EXCEPT !.step = "resume", !.nr = Len(decided[h.run]) + 1]
      OBVIOUS
    <3>4. /\ decided' = [decided EXCEPT ![h.run] = Append(decided[h.run], r)]
          /\ handler' = [handler EXCEPT ![p] = g]
          /\ calls' = calls /\ thread' = thread /\ performed' = performed
          /\ h.step = "write"
      BY <2>2, <3>1, <3>2, <3>3 DEF WriteDecision, Become
    <3>5. g.run = h.run /\ g.confirmed = h.confirmed
      BY <3>1, <3>3
    <3>6. CASE WantedBy[x] = h.run /\ h.confirmed
      <4>1. OnTheWay(x)' \subseteq OnTheWay(x) \cup {<<"decision", p>>}
        BY <3>4 DEF TypeOK, OnTheWay
      <4>2. PICK S, T : S = OnTheWay(x) /\ T = OnTheWay(x)'
        OBVIOUS
      <4>3. IsFiniteSet(S) /\ T \subseteq S \cup {<<"decision", p>>}
        BY <2>0, <4>1, <4>2 DEF SpentOnce
      <4>4. IsFiniteSet(T) /\ Cardinality(T) <= Cardinality(S) + 1
        BY <4>3, Gained
      <4>5. Cardinality(T) \in Nat /\ Cardinality(S) \in Nat
        BY <4>3, <4>4, FS_CardinalityType
      <4>6. Cardinality(Approvals(WantedBy[x])') = Cardinality(Approvals(WantedBy[x])) + 1
        <5>1. PICK s \in Seq(Status) : s = decided[WantedBy[x]]
          BY GateAssumption DEF TypeOK
        <5>2. decided'[WantedBy[x]] = Append(s, r) /\ r = "approved"
          BY <3>1, <3>2, <3>4, <3>6, <5>1 DEF TypeOK, StatusOf
        <5>3. /\ Approvals(WantedBy[x]) = Places(s, {"approved"})
              /\ Approvals(WantedBy[x])' = Places(Append(s, r), {"approved"})
          BY <5>1, <5>2 DEF Approvals, Places
        <5> QED
          BY <5>2, <5>3, PlacesGrow
      <4> QED
        BY <1>0, <2>0, <3>4, <4>2, <4>4, <4>5, <4>6 DEF SpentOnce
    <3>7. CASE ~(WantedBy[x] = h.run /\ h.confirmed)
      <4>1. OnTheWay(x)' \subseteq OnTheWay(x)
        BY <3>4, <3>5, <3>7 DEF TypeOK, OnTheWay
      <4>2. Approvals(WantedBy[x])' = Approvals(WantedBy[x])
        <5>1. PICK s \in Seq(Status) : s = decided[WantedBy[x]]
          BY GateAssumption DEF TypeOK
        <5>2. \/ decided'[WantedBy[x]] = s
              \/ decided'[WantedBy[x]] = Append(s, r) /\ r = "denied"
          BY <3>1, <3>2, <3>4, <3>7, <5>1, GateAssumption DEF TypeOK, StatusOf
        <5>3. /\ Approvals(WantedBy[x]) = Places(s, {"approved"})
              /\ \/ Approvals(WantedBy[x])' = Places(s, {"approved"})
                 \/ /\ Approvals(WantedBy[x])' = Places(Append(s, r), {"approved"})
                    /\ r = "denied"
          BY <5>1, <5>2 DEF Approvals, Places
        <5> QED
          BY <5>3, PlacesGrow
      <4>3. PICK S, T : S = OnTheWay(x) /\ T = OnTheWay(x)'
        OBVIOUS
      <4>4. IsFiniteSet(S) /\ T \subseteq S
        BY <2>0, <4>1, <4>3 DEF SpentOnce
      <4>5. /\ IsFiniteSet(T) /\ Cardinality(T) <= Cardinality(S)
            /\ Cardinality(T) \in Nat /\ Cardinality(S) \in Nat
        BY <4>4, FS_Subset, FS_CardinalityType
      <4> QED
        BY <1>0, <2>0, <3>4, <4>2, <4>3, <4>5 DEF SpentOnce
    <3> QED
      BY <3>6, <3>7
  <2>3. ASSUME NEW p \in ApiProcess, ResumeRun(p) PROVE SpentOnce(x)'
    <3>1. PICK h \in Decision : h = handler[p]
      BY <2>3 DEF ResumeRun, TypeOK
    <3>2. PICK c \in Call : c = [run |-> h.run, confirmed |-> h.confirmed, nr |-> h.nr]
      OBVIOUS
    <3>3. PICK g : g = [h EXCEPT !.step = "wait"]
      OBVIOUS
    <3>4. /\ handler' = [handler EXCEPT ![p] = g] /\ calls' = calls \cup {c}
          /\ thread' = thread /\ Kept /\ h.step = "resume" /\ g.step = "wait"
          /\ c.run = h.run /\ c.confirmed = h.confirmed
      BY <2>3, <3>1, <3>2, <3>3 DEF ResumeRun, Become
    <3>5. CASE WantedBy[x] = h.run /\ h.confirmed
      <4>1. <<"decision", p>> \in OnTheWay(x)
        BY <3>1, <3>4, <3>5 DEF OnTheWay
      <4>2. OnTheWay(x)' \subseteq (OnTheWay(x) \ {<<"decision", p>>})
                                      \cup {<<"request", c>>}
        BY <3>4 DEF TypeOK, OnTheWay
      <4> QED
        BY <2>c, <3>4, <4>1, <4>2
    <3>6. CASE ~(WantedBy[x] = h.run /\ h.confirmed)
      <4>1. OnTheWay(x)' \subseteq OnTheWay(x)
        BY <3>4, <3>6 DEF TypeOK, OnTheWay
      <4> QED
        BY <2>b, <3>4, <4>1
    <3> QED
      BY <3>5, <3>6
  <2>4. ASSUME NEW p \in ApiProcess,
               ResumeFailed(p) \/ ResumeAnswered(p) \/ GiveUp(p)
        PROVE  SpentOnce(x)'
    <3>1. /\ handler' = [handler EXCEPT ![p] = Idle]
          /\ calls' = calls /\ thread' = thread /\ Kept
      BY <2>4 DEF ResumeFailed, ResumeAnswered, GiveUp, Become
    <3>2. OnTheWay(x)' \subseteq OnTheWay(x)
      BY <3>1 DEF TypeOK, OnTheWay
    <3> QED
      BY <2>b, <3>1, <3>2
  <2>5. ASSUME NEW th \in Thread, NEW c \in calls, NEW scoped \in BOOLEAN,
               ContinuePaused(th, c, scoped)
        PROVE  SpentOnce(x)'
    <3>1. PICK s : s = Taken(c, scoped)
      OBVIOUS
    <3>2. \/ s = Idle
          \/ /\ s.step = "continue" /\ s.call = c
             /\ s.todo \subseteq Wanted(c.run)
      BY <3>1 DEF Taken, Requirements
    <3>3. /\ thread' = [thread EXCEPT ![th] = s] /\ calls' = calls \ {c}
          /\ handler' = handler /\ Kept
      BY <2>5, <3>1 DEF ContinuePaused, Turn
    <3>4. CASE WantedBy[x] = c.run /\ c.confirmed
      <4>1. <<"request", c>> \in OnTheWay(x)
        BY <3>4 DEF OnTheWay
      <4>2. OnTheWay(x)' \subseteq (OnTheWay(x) \ {<<"request", c>>})
                                      \cup {<<"thread", th>>}
        BY <3>3 DEF TypeOK, OnTheWay
      <4> QED
        BY <2>c, <3>3, <4>1, <4>2
    <3>5. CASE ~(WantedBy[x] = c.run /\ c.confirmed)
      <4>1. OnTheWay(x)' \subseteq OnTheWay(x)
        <5>1. \/ s = Idle
              \/ x \notin s.todo
              \/ s.step = "continue" /\ ~s.call.confirmed
          BY <3>2, <3>5 DEF Wanted
        <5> QED
          BY <3>3, <5>1 DEF TypeOK, OnTheWay
      <4> QED
        BY <2>b, <3>3, <4>1
    <3> QED
      BY <3>4, <3>5
  <2>6. ASSUME NEW th \in Thread, ContinueRun(th) PROVE SpentOnce(x)'
    <3>1. PICK t \in Continuation : t = thread[th]
      BY <2>6 DEF ContinueRun, TypeOK
    <3>2. PICK s : s = IF t.call.confirmed THEN [t EXCEPT !.step = "tool"] ELSE Idle
      OBVIOUS
    <3>3. /\ thread' = [thread EXCEPT ![th] = s] /\ t.step = "continue"
          /\ handler' = handler /\ calls' = calls /\ Kept
      BY <2>6, <3>1, <3>2 DEF ContinueRun, Turn
    <3>4. s = Idle \/ (t.call.confirmed /\ s.todo = t.todo)
      BY <3>1, <3>2
    <3>5. OnTheWay(x)' \subseteq OnTheWay(x)
      BY <3>1, <3>3, <3>4 DEF TypeOK, OnTheWay
    <3> QED
      BY <2>b, <3>3, <3>5
  <2>7. ASSUME NEW th \in Thread, GuardRefuses(th) \/ LeaveRecord(th)
        PROVE  SpentOnce(x)'
    <3>1. PICK t \in Continuation : t = thread[th]
      BY <2>7 DEF GuardRefuses, LeaveRecord, TypeOK
    <3>2. PICK s : s = [t EXCEPT !.step = "tool"]
      OBVIOUS
    <3>3. /\ \/ thread' = [thread EXCEPT ![th] = Idle]
             \/ thread' = [thread EXCEPT ![th] = s]
          /\ t.step \in {"tool", "record"}
          /\ handler' = handler /\ calls' = calls /\ Kept
      BY <2>7, <3>1, <3>2 DEF GuardRefuses, LeaveRecord, Turn
    <3>4. s.todo = t.todo /\ t # Idle
      BY <3>1, <3>2, <3>3
    <3>5. /\ thread'[th] = Idle \/ thread'[th].todo = thread[th].todo
          /\ thread[th] # Idle /\ thread[th].step # "continue"
          /\ \A u \in Thread \ {th} : thread'[u] = thread[u]
      BY <3>1, <3>3, <3>4 DEF TypeOK
    <3>6. OnTheWay(x)' \subseteq OnTheWay(x)
      BY <3>3, <3>5 DEF OnTheWay
    <3> QED
      BY <2>b, <3>3, <3>6
  <2>8. ASSUME NEW th \in Thread, NEW y \in Tool, NEW status \in {"ok", "error"},
               CallTool(th, y, status)
        PROVE  SpentOnce(x)'
    <3>1. PICK t \in Continuation : t = thread[th]
      BY <2>8 DEF CallTool, TypeOK
    <3>2. PICK s : s = [t EXCEPT !.step = "record", !.todo = t.todo \ {y}]
      OBVIOUS
    <3>3. /\ thread' = [thread EXCEPT ![th] = s] /\ t.step = "tool"
          /\ y \in t.todo /\ handler' = handler /\ calls' = calls
          /\ decided' = decided
          /\ \/ performed' = performed
             \/ performed' = [performed EXCEPT ![y] = performed[y] + 1]
      BY <2>8, <3>1, <3>2 DEF CallTool, Turn
    <3>4. s.todo = t.todo \ {y} /\ t # Idle
      BY <3>1, <3>2
    <3>5. CASE x = y
      <4>1. <<"thread", th>> \in OnTheWay(x)
        BY <3>1, <3>3, <3>4, <3>5 DEF OnTheWay
      <4>2. OnTheWay(x)' \subseteq OnTheWay(x) \ {<<"thread", th>>}
        BY <3>3, <3>4, <3>5 DEF TypeOK, OnTheWay
      <4>3. PICK S, T : S = OnTheWay(x) /\ T = OnTheWay(x)'
        OBVIOUS
      <4>4. IsFiniteSet(S) /\ <<"thread", th>> \in S /\ T \subseteq S \ {<<"thread", th>>}
        BY <2>0, <4>1, <4>2, <4>3 DEF SpentOnce
      <4>5. IsFiniteSet(T) /\ Cardinality(T) + 1 <= Cardinality(S)
        BY <4>4, Lost
      <4>6. Cardinality(T) \in Nat /\ Cardinality(S) \in Nat
        BY <4>4, <4>5, FS_CardinalityType
      <4>7. performed'[x] = performed[x] \/ performed'[x] = performed[x] + 1
        BY <3>3, <3>5 DEF TypeOK
      <4> QED
        BY <1>0, <2>0, <2>a, <3>3, <4>3, <4>5, <4>6, <4>7 DEF SpentOnce
    <3>6. CASE x # y
      <4>1. OnTheWay(x)' \subseteq OnTheWay(x)
        BY <3>1, <3>3, <3>4 DEF TypeOK, OnTheWay
      <4>2. performed'[x] = performed[x]
        BY <3>3, <3>6 DEF TypeOK
      <4>3. PICK S, T : S = OnTheWay(x) /\ T = OnTheWay(x)'
        OBVIOUS
      <4>4. IsFiniteSet(S) /\ T \subseteq S
        BY <2>0, <4>1, <4>3 DEF SpentOnce
      <4>5. /\ IsFiniteSet(T) /\ Cardinality(T) <= Cardinality(S)
            /\ Cardinality(T) \in Nat /\ Cardinality(S) \in Nat
        BY <4>4, FS_Subset, FS_CardinalityType
      <4> QED
        BY <1>0, <2>0, <2>a, <3>3, <4>2, <4>3, <4>5 DEF SpentOnce
    <3> QED
      BY <3>5, <3>6
  <2>9. CASE AgentsCrash
    <3>1. OnTheWay(x)' \subseteq OnTheWay(x)
      BY <2>9 DEF AgentsCrash, OnTheWay
    <3> QED
      BY <2>b, <2>9, <3>1 DEF AgentsCrash
  <2>10. CASE UNCHANGED gateVars /\ UNCHANGED agentVars
    <3>1. OnTheWay(x)' \subseteq OnTheWay(x)
      BY <2>10 DEF OnTheWay
    <3> QED
      BY <2>b, <2>10, <3>1
  <2> QED
    BY <2>1, <2>2, <2>3, <2>4, <2>5, <2>6, <2>7, <2>8, <2>9, <2>10
       DEF Next, vars, EnterRecord
<1>3. TypeOK /\ EachApprovalSpentOnce => PerformedOncePerApproval
  <2> SUFFICES ASSUME TypeOK, EachApprovalSpentOnce, NEW x \in Tool
               PROVE  performed[x] <= Cardinality(Approvals(WantedBy[x]))
    BY DEF PerformedOncePerApproval
  <2>1. SpentOnce(x)
    BY DEF EachApprovalSpentOnce
  <2>2. PICK S : S = OnTheWay(x)
    OBVIOUS
  <2>3. Cardinality(S) \in Nat
    BY <2>1, <2>2, FS_CardinalityType DEF SpentOnce
  <2> QED
    BY <1>0, <2>1, <2>2, <2>3 DEF SpentOnce
<1> QED
  BY <1>1, <1>2, <1>3, TypeCorrect, PTL DEF Spec

-----------------------------------------------------------------------------
(* The audit chain the gate uses, for any number of threads, tenants and      *)
(* records and any number of restarts.                                        *)

(* NoThread stands for the lock being free. *)
FreeIsNoThread == NoThread \notin Thread

(* Every step of the audit log keeps the types of its state. *)
THEOREM ChainTypeCorrect == FreeIsNoThread /\ Audit!Spec => []Audit!TypeOK
<1> SUFFICES ASSUME FreeIsNoThread PROVE Audit!Spec => []Audit!TypeOK
  OBVIOUS
<1> USE DEF Audit!Hash, Audit!GENESIS, FreeIsNoThread
<1>1. Audit!Init => Audit!TypeOK
  BY DEF Audit!Init, Audit!TypeOK
<1>2. Audit!TypeOK /\ [Audit!Next]_(Audit!vars) => Audit!TypeOK'
  <2> SUFFICES ASSUME Audit!TypeOK, [Audit!Next]_(Audit!vars) PROVE Audit!TypeOK'
    OBVIOUS
  <2>1. ASSUME NEW th \in Thread, NEW x \in Audit!Payload, Audit!Record(th, x) PROVE Audit!TypeOK'
    BY <2>1 DEF Audit!Record, Audit!TypeOK
  <2>2. ASSUME NEW th \in Thread, Audit!Enter(th) PROVE Audit!TypeOK'
    <3>1. request[th] \in Audit!Payload
      BY <2>2 DEF Audit!Enter, Audit!TypeOK
    <3>2. request[th].tenant \in Tenant
      BY <3>1 DEF Audit!Payload
    <3> QED
      BY <2>2, <3>2 DEF Audit!Enter, Audit!TypeOK
  <2>3. ASSUME NEW th \in Thread, Audit!Leave(th) PROVE Audit!TypeOK'
    <3>1. PICK x \in Audit!Payload : x = request[th]
      BY <2>3 DEF Audit!TypeOK, Audit!Leave
    <3>2. x.tenant \in Tenant
      BY DEF Audit!Payload
    <3> DEFINE h == Audit!ComputeHash(read[th], x)
               r == [payload |-> x, prev_hash |-> read[th], hash |-> h]
    <3>3. h \in Audit!Hash /\ read[th] \in Audit!Hash
      BY <2>3 DEF Audit!ComputeHash, Audit!TypeOK
    <3>4. r \in Audit!AuditRecord
      BY <3>3 DEF Audit!AuditRecord
    <3>5. /\ last' = [last EXCEPT ![x.tenant] = h]
          /\ trail' = [trail EXCEPT ![x.tenant] = Append(trail[x.tenant], r)]
      BY <2>3, <3>1 DEF Audit!Leave
    <3> HIDE DEF h, r
    <3>6. last' \in [Tenant -> Audit!Hash]
      BY <3>2, <3>3, <3>5 DEF Audit!TypeOK
    <3>7. trail' \in [Tenant -> Seq(Audit!AuditRecord)]
      BY <3>2, <3>4, <3>5 DEF Audit!TypeOK
    <3> QED
      BY <2>3, <3>6, <3>7 DEF Audit!Leave, Audit!TypeOK
  <2>4. CASE Audit!Restart
    BY <2>4 DEF Audit!Restart, Audit!TypeOK
  <2>5. CASE UNCHANGED Audit!vars
    BY <2>5 DEF Audit!vars, Audit!TypeOK
  <2> QED
    BY <2>1, <2>2, <2>3, <2>4, <2>5 DEF Audit!Next
<1> QED
  BY <1>1, <1>2, PTL DEF Audit!Spec

(* A chain that verifies goes on verifying when the record that continues its *)
(* newest one is appended (record, with the lock held).                       *)
LEMMA VerifyAppend ==
  ASSUME NEW s \in Seq(Audit!AuditRecord), Audit!Verify(s), NEW x \in Audit!Payload,
         NEW r \in Audit!AuditRecord,
         r.payload = x, r.prev_hash = Audit!Newest(s), r.hash = Audit!ComputeHash(Audit!Newest(s), x)
  PROVE  Audit!Verify(Append(s, r)) /\ Audit!Newest(Append(s, r)) = r.hash
<1> DEFINE u == Append(s, r)
<1>1. /\ u # << >> /\ Len(u) = Len(s) + 1 /\ u[Len(u)] = r
      /\ \A k \in 1 .. Len(s) : u[k] = s[k]
  OBVIOUS
<1>2. \A k \in 1 .. Len(s) : Audit!PrevHash(u, k) = Audit!PrevHash(s, k)
  BY <1>1 DEF Audit!PrevHash
<1>3. Audit!PrevHash(u, Len(u)) = Audit!Newest(s)
  <2>1. CASE s = << >>
    BY <2>1, <1>1 DEF Audit!PrevHash, Audit!Newest
  <2>2. CASE s # << >>
    <3>1. Len(s) \in 1 .. Len(s) /\ Len(u) # 1
      BY <2>2, <1>1
    <3> QED
      BY <2>2, <3>1, <1>1 DEF Audit!PrevHash, Audit!Newest
  <2> QED
    BY <2>1, <2>2
<1> HIDE DEF u
<1>4. ASSUME NEW k \in 1 .. Len(u)
      PROVE  /\ u[k].prev_hash = Audit!PrevHash(u, k)
             /\ u[k].hash = Audit!ComputeHash(Audit!PrevHash(u, k), u[k].payload)
  <2>1. CASE k = Len(u)
    BY <2>1, <1>1, <1>3
  <2>2. CASE k # Len(u)
    <3>1. k \in 1 .. Len(s)
      BY <2>2, <1>1
    <3> QED
      BY <3>1, <1>1, <1>2 DEF Audit!Verify
  <2> QED
    BY <2>1, <2>2
<1>5. Audit!Verify(u) /\ Audit!Newest(u) = r.hash
  BY <1>1, <1>4 DEF Audit!Verify, Audit!Newest
<1> QED
  BY <1>5 DEF u

(* However many threads record at once, and however often the process         *)
(* restarts, the records it returned for a tenant verify, are the tenant's    *)
(* own and are continued by the next one.                                     *)
THEOREM ChainsVerify == FreeIsNoThread /\ Audit!Spec => []Audit!ChainVerifies
<1> SUFFICES ASSUME FreeIsNoThread PROVE Audit!Spec => []Audit!ChainVerifies
  OBVIOUS
<1>1. Audit!Init => Audit!AuditInv
  BY DEF Audit!Init, Audit!AuditInv, Audit!ChainVerifies, Audit!ReadIsNewest, Audit!Verify, Audit!Newest
<1>2. Audit!TypeOK /\ Audit!AuditInv /\ [Audit!Next]_(Audit!vars) => Audit!AuditInv'
  <2> SUFFICES ASSUME Audit!TypeOK, Audit!AuditInv, [Audit!Next]_(Audit!vars) PROVE Audit!AuditInv'
    OBVIOUS
  <2> USE DEF Audit!AuditInv
  <2>1. ASSUME NEW th \in Thread, NEW x \in Audit!Payload, Audit!Record(th, x)
        PROVE  Audit!AuditInv'
    <3>1. Audit!ChainVerifies'
      BY <2>1 DEF Audit!Record, Audit!ChainVerifies
    <3>2. Audit!ReadIsNewest'
      BY <2>1 DEF Audit!Record, Audit!ReadIsNewest, Audit!TypeOK
    <3> QED
      BY <3>1, <3>2
  <2>2. ASSUME NEW th \in Thread, Audit!Enter(th) PROVE Audit!AuditInv'
    <3>1. Audit!ChainVerifies'
      BY <2>2 DEF Audit!Enter, Audit!ChainVerifies
    <3>2. Audit!ReadIsNewest'
      BY <2>2 DEF Audit!Enter, Audit!ReadIsNewest, Audit!TypeOK
    <3> QED
      BY <3>1, <3>2
  <2>3. ASSUME NEW th \in Thread, Audit!Leave(th) PROVE Audit!AuditInv'
    <3>1. lock # NoThread
      BY <2>3 DEF Audit!Leave, FreeIsNoThread
    <3>2. PICK x \in Audit!Payload : x = request[th]
      BY <2>3, <3>1 DEF Audit!TypeOK, Audit!Leave
    <3> DEFINE t == x.tenant
               s == trail[t]
               h == Audit!ComputeHash(Audit!Newest(s), x)
               r == [payload |-> x, prev_hash |-> Audit!Newest(s), hash |-> h]
    <3>3. t \in Tenant
      BY DEF Audit!Payload
    <3>4. read[th] = Audit!Newest(s)
      BY <2>3, <3>1, <3>2, <3>3 DEF Audit!ReadIsNewest, Audit!ChainVerifies, Audit!Leave
    <3>5. r \in Audit!AuditRecord /\ s \in Seq(Audit!AuditRecord) /\ h \in Audit!Hash
      <4>1. s \in Seq(Audit!AuditRecord) /\ Audit!Newest(s) \in Audit!Hash
        BY <2>3, <3>3, <3>4 DEF Audit!TypeOK
      <4>2. h \in Audit!Hash
        BY <4>1 DEF Audit!ComputeHash, Audit!Hash
      <4> QED
        BY <4>1, <4>2 DEF Audit!AuditRecord
    <3>6. /\ last' = [last EXCEPT ![t] = h]
          /\ trail' = [trail EXCEPT ![t] = Append(s, r)]
          /\ lock' = NoThread
      BY <2>3, <3>2, <3>4 DEF Audit!Leave
    <3>7. r.payload = x /\ r.prev_hash = Audit!Newest(s) /\ r.hash = h
      OBVIOUS
    <3> HIDE DEF r
    <3>8. Audit!Verify(Append(s, r)) /\ Audit!Newest(Append(s, r)) = h
      BY <3>3, <3>5, <3>7, VerifyAppend DEF Audit!ChainVerifies
    <3>9. \A k \in 1 .. Len(Append(s, r)) : Append(s, r)[k].payload.tenant = t
      BY <3>3, <3>5, <3>7 DEF Audit!ChainVerifies
    <3> HIDE DEF h, s, t
    <3>10. trail'[t] = Append(s, r) /\ last'[t] = h
      BY <3>3, <3>6 DEF Audit!TypeOK
    <3>11. \A u \in Tenant \ {t} : trail'[u] = trail[u] /\ last'[u] = last[u]
      BY <3>3, <3>6 DEF Audit!TypeOK
    <3>12. Audit!ChainVerifies'
      BY <3>8, <3>9, <3>10, <3>11, ZenonT(30) DEF Audit!ChainVerifies
    <3> QED
      BY <3>6, <3>12 DEF Audit!ReadIsNewest
  <2>4. CASE Audit!Restart
    BY <2>4 DEF Audit!Restart, Audit!ChainVerifies, Audit!ReadIsNewest, Audit!Verify, Audit!Newest
  <2>5. CASE UNCHANGED Audit!vars
    BY <2>5 DEF Audit!vars, Audit!ChainVerifies, Audit!ReadIsNewest
  <2> QED
    BY <2>1, <2>2, <2>3, <2>4, <2>5 DEF Audit!Next
<1>3. Audit!AuditInv => Audit!ChainVerifies
  BY DEF Audit!AuditInv
<1> QED
  BY <1>1, <1>2, <1>3, ChainTypeCorrect, PTL DEF Audit!Spec

(* verify detects tampering as long as the newest hash is known: two chains   *)
(* of one length that verify and end in the same hash are the same, record    *)
(* for record.  (A chain cut short verifies too, and so does one that was     *)
(* computed anew: the length and the newest hash must come from elsewhere.)   *)
THEOREM TamperEvident ==
  ASSUME NEW s \in Seq(Audit!AuditRecord), NEW r \in Seq(Audit!AuditRecord),
         Audit!Verify(s), Audit!Verify(r), Len(s) = Len(r), Audit!Newest(s) = Audit!Newest(r)
  PROVE  s = r
<1> DEFINE D == {d \in Nat : d < Len(s) /\ s[Len(s) - d] # r[Len(s) - d]}
<1>1. SUFFICES ASSUME D # {} PROVE FALSE
  <2>1. \A k \in 1 .. Len(s) : Len(s) - k \in Nat /\ Len(s) - k < Len(s)
                              /\ Len(s) - (Len(s) - k) = k
    OBVIOUS
  <2>2. \A k \in 1 .. Len(s) : s[k] = r[k]
    BY <1>1, <2>1
  <2> QED
    BY <2>2
<1>2. PICK d \in D : \A e \in D : ~(<<e, d>> \in OpToRel(<, Nat))
  <2>1. IsWellFoundedOn(OpToRel(<, Nat), Nat)
    BY NatLessThanWellFounded
  <2> QED
    BY <1>1, <2>1, WFMin
<1>3. \A e \in D : ~(e < d)
  BY <1>2, Zenon DEF OpToRel
<1> DEFINE m == Len(s) - d
<1>4. /\ m \in 1 .. Len(s) /\ s[m] # r[m] /\ d \in Nat
      /\ s[m] \in Audit!AuditRecord /\ r[m] \in Audit!AuditRecord
  OBVIOUS
<1>5. s[m].hash = r[m].hash
  <2>1. CASE d = 0
    BY <2>1, <1>4 DEF Audit!Newest
  <2>2. CASE d # 0
    <3>1. d - 1 \in Nat /\ d - 1 < d /\ d - 1 < Len(s) /\ Len(s) - (d - 1) = m + 1
      BY <2>2, <1>4
    <3>2. s[m + 1] = r[m + 1]
      BY <3>1, <1>3
    <3>3. m + 1 \in 1 .. Len(s) /\ m + 1 # 1 /\ (m + 1) - 1 = m
      BY <3>1, <1>4
    <3>4. s[m + 1].prev_hash = s[m].hash /\ r[m + 1].prev_hash = r[m].hash
      BY <3>3, ZenonT(60) DEF Audit!Verify, Audit!PrevHash
    <3> QED
      BY <3>2, <3>4
  <2> QED
    BY <2>1, <2>2
<1> HIDE DEF m
<1>6. /\ s[m].prev_hash = Audit!PrevHash(s, m) /\ r[m].prev_hash = Audit!PrevHash(r, m)
      /\ Append(s[m].prev_hash, s[m].payload) = Append(r[m].prev_hash, r[m].payload)
  BY <1>4, <1>5 DEF Audit!Verify, Audit!ComputeHash
<1>7. s[m].prev_hash = r[m].prev_hash /\ s[m].payload = r[m].payload
  <2>1. /\ s[m].prev_hash \in Seq(Audit!Payload) /\ r[m].prev_hash \in Seq(Audit!Payload)
        /\ s[m].payload \in Audit!Payload /\ r[m].payload \in Audit!Payload
    BY <1>4 DEF Audit!AuditRecord, Audit!Hash
  <2> QED
    BY <1>6, <2>1, AppendInjective
<1>8. s[m] = r[m]
  BY <1>4, <1>5, <1>7 DEF Audit!AuditRecord
<1> QED
  BY <1>4, <1>8

-----------------------------------------------------------------------------
(* Every step of the gate is a step of the audit chain or leaves it alone.    *)
THEOREM GateUsesChain == Spec => Audit!Spec
<1>1. Init => Audit!Init
  BY DEF Init
<1>2. TypeOK /\ [Next]_vars => [Audit!Next]_(Audit!vars)
  <2> SUFFICES ASSUME TypeOK, [Next]_vars PROVE [Audit!Next]_(Audit!vars)
    OBVIOUS
  <2>1. ASSUME NEW th \in Thread, NEW a \in Tool, NEW status \in {"ok", "error"},
               CallTool(th, a, status)
        PROVE  Audit!Next
    <3>1. thread[th] \in Continuation
      BY <2>1 DEF CallTool, TypeOK, Idle
    <3>2. Outcome(th, a, status) \in Audit!Payload
      BY <3>1, GateAssumption DEF Outcome, Audit!Payload, Continuation, Call
    <3> QED
      BY <2>1, <3>2 DEF CallTool, Audit!Next
  <2>2. ASSUME NEW th \in Thread, EnterRecord(th) \/ LeaveRecord(th)
        PROVE  Audit!Next
    BY <2>2 DEF EnterRecord, LeaveRecord, Audit!Next
  <2>3. CASE AgentsCrash
    BY <2>3 DEF AgentsCrash, Audit!Next
  <2>4. CASE UNCHANGED auditVars
    BY <2>4 DEF auditVars, Audit!vars
  <2> QED
    BY <2>1, <2>2, <2>3, <2>4
       DEF Next, vars, DecideApproval, WriteDecision, ResumeRun, ResumeFailed,
           ResumeAnswered, GiveUp, ContinuePaused, ContinueRun, GuardRefuses
<1> QED
  BY <1>1, <1>2, TypeCorrect, PTL DEF Spec, Audit!Spec

(* Runs that are resumed at the same time leave chains that verify.           *)
THEOREM ResumedRunsVerify == FreeIsNoThread /\ Spec => []AuditVerifies
  BY GateUsesChain, ChainsVerify, PTL DEF AuditVerifies

-----------------------------------------------------------------------------
(* NoPayload stands for a thread that is not in record.                       *)
NoneIsNoPayload == NoPayload \notin Audit!Payload

(* The audit chain tells all the tools did: however many threads record at    *)
(* once and however often the service dies, every outcome its audit hook saw  *)
(* since it started is in the chain of its tenant once, or is just being      *)
(* recorded (hooks.py, audit_hook).                                           *)
THEOREM AuditTellsAll ==
  FreeIsNoThread /\ NoneIsNoPayload /\ Spec => []EveryCallAudited
<1> SUFFICES ASSUME FreeIsNoThread, NoneIsNoPayload
             PROVE  Spec => []EveryCallAudited
  OBVIOUS
<1> USE DEF FreeIsNoThread, NoneIsNoPayload
<1> DEFINE Told(x) ==
             /\ IsFiniteSet(Recording(x))
             /\ witnessed[x] = Cardinality(Recorded(x)) + Cardinality(Recording(x))
           AllTold == \A x \in Audit!Payload : Told(x)
<1>0. Audit!TypeOK =>
        \A x \in Audit!Payload : Cardinality(Recorded(x)) \in Nat
  <2> SUFFICES ASSUME Audit!TypeOK, NEW x \in Audit!Payload
               PROVE  Cardinality(Recorded(x)) \in Nat
    OBVIOUS
  <2>1. Len(trail[x.tenant]) \in Nat
    BY DEF Audit!TypeOK, Audit!Payload
  <2>2. PICK n, R : n = Len(trail[x.tenant]) /\ R = Recorded(x)
    OBVIOUS
  <2>3. n \in Nat /\ R \subseteq 1 .. n
    BY <2>1, <2>2 DEF Recorded
  <2>4. IsFiniteSet(1 .. n)
    BY <2>3, FS_Interval
  <2> QED
    BY <2>2, <2>3, <2>4, FS_Subset, FS_CardinalityType
<1>1. Init => AllTold
  <2> SUFFICES ASSUME Init, NEW x \in Audit!Payload PROVE Told(x)
    OBVIOUS
  <2>1. Recorded(x) = {} /\ Recording(x) = {} /\ witnessed[x] = 0
    BY DEF Init, Audit!Init, Audit!Payload, Recorded, Recording
  <2> QED
    BY <2>1, FS_EmptySet
<1>2. TypeOK /\ Audit!TypeOK /\ AllTold /\ [Next]_vars => AllTold'
  <2> SUFFICES ASSUME TypeOK, Audit!TypeOK, AllTold, [Next]_vars,
                      NEW x \in Audit!Payload
               PROVE  Told(x)'
    OBVIOUS
  <2>0. Told(x)
    OBVIOUS
  <2>a. ASSUME witnessed' = witnessed, trail' = trail, request' = request
        PROVE  Told(x)'
    <3>1. Recorded(x)' = Recorded(x) /\ Recording(x)' = Recording(x)
      BY <2>a DEF Recorded, Recording
    <3> QED
      BY <2>0, <2>a, <3>1
  <2>1. ASSUME NEW th \in Thread, NEW a \in Tool, NEW status \in {"ok", "error"},
               CallTool(th, a, status)
        PROVE  Told(x)'
    <3>1. PICK y : y = Outcome(th, a, status)
      OBVIOUS
    <3>2. /\ request[th] = NoPayload /\ trail' = trail
          /\ request' = [request EXCEPT ![th] = y]
          /\ witnessed' = [witnessed EXCEPT ![y] = witnessed[y] + 1]
      BY <2>1, <3>1 DEF CallTool, Audit!Record
    <3>3. Recorded(x)' = Recorded(x)
      BY <3>2 DEF Recorded
    <3>4. CASE x = y
      <4>1. /\ Recording(x)' = Recording(x) \cup {th}
            /\ th \notin Recording(x)
        BY <3>2, <3>4 DEF Recording, Audit!TypeOK
      <4>2. witnessed'[x] = witnessed[x] + 1
        BY <3>2, <3>4 DEF TypeOK
      <4>3. PICK S, T, R : S = Recording(x) /\ T = Recording(x)' /\ R = Recorded(x)
        OBVIOUS
      <4>4. IsFiniteSet(T) /\ Cardinality(T) = Cardinality(S) + 1
        BY <2>0, <4>1, <4>3, FS_AddElement
      <4>5. Cardinality(S) \in Nat
        BY <2>0, <4>3, FS_CardinalityType
      <4>6. Cardinality(R) \in Nat
        BY <1>0, <4>3
      <4> QED
        BY <2>0, <3>3, <4>2, <4>3, <4>4, <4>5, <4>6
    <3>5. CASE x # y
      <4>1. Recording(x)' = Recording(x)
        BY <3>2, <3>5 DEF Recording, Audit!TypeOK
      <4>2. witnessed'[x] = witnessed[x]
        BY <3>2, <3>5 DEF TypeOK
      <4> QED
        BY <2>0, <3>3, <4>1, <4>2
    <3> QED
      BY <3>4, <3>5
  <2>2. ASSUME NEW th \in Thread, EnterRecord(th) PROVE Told(x)'
    BY <2>2, <2>a DEF EnterRecord, Audit!Enter, agentVars
  <2>3. ASSUME NEW th \in Thread, LeaveRecord(th) PROVE Told(x)'
    <3>1. PICK y : y = request[th]
      OBVIOUS
    <3>2. y \in Audit!Payload
      BY <2>3, <3>1 DEF LeaveRecord, Audit!Leave, Audit!TypeOK
    <3>3. PICK r : r = [payload |-> y, prev_hash |-> read[th],
                        hash |-> Audit!ComputeHash(read[th], y)]
      OBVIOUS
    <3>4. /\ trail' = [trail EXCEPT ![y.tenant] = Append(trail[y.tenant], r)]
          /\ request' = [request EXCEPT ![th] = NoPayload]
          /\ witnessed' = witnessed
      BY <2>3, <3>1, <3>3 DEF LeaveRecord, Audit!Leave
    <3>5. y.tenant \in Tenant /\ x.tenant \in Tenant /\ r.payload = y
      BY <3>2, <3>3 DEF Audit!Payload
    <3>6. PICK s \in Seq(Audit!AuditRecord) : s = trail[x.tenant]
      BY <3>5 DEF Audit!TypeOK
    <3>7. r \in Audit!AuditRecord
      BY <2>3, <3>2, <3>3 DEF Audit!AuditRecord, Audit!TypeOK, Audit!Hash,
                              Audit!ComputeHash
    <3>8. PICK G : G = {q \in Audit!AuditRecord : q.payload = x}
      OBVIOUS
    <3>9. Recorded(x) = Places(s, G)
      BY <3>6, <3>8 DEF Recorded, Places
    <3>10. CASE x = y
      <4>1. trail'[x.tenant] = Append(s, r)
        BY <3>4, <3>5, <3>6, <3>10 DEF Audit!TypeOK
      <4>2. PICK u : u = Append(s, r)
        OBVIOUS
      <4>3. u \in Seq(Audit!AuditRecord)
        BY <3>7, <4>2
      <4>4. Recorded(x)' = Places(u, G)
        BY <3>8, <4>1, <4>2, <4>3 DEF Recorded, Places
      <4>5. /\ Cardinality(Places(u, G)) = Cardinality(Places(s, G)) + 1
            /\ Cardinality(Places(s, G)) \in Nat
        BY <3>5, <3>7, <3>8, <3>10, <4>2, PlacesGrow
      <4>6. Recording(x)' = Recording(x) \ {th} /\ th \in Recording(x)
        BY <3>1, <3>4, <3>10 DEF Recording, Audit!TypeOK
      <4>7. PICK S, T : S = Recording(x) /\ T = Recording(x)'
        OBVIOUS
      <4>8. /\ IsFiniteSet(T) /\ Cardinality(T) = Cardinality(S) - 1
            /\ Cardinality(S) \in Nat
        BY <2>0, <4>6, <4>7, FS_RemoveElement, FS_CardinalityType
      <4> QED
        BY <2>0, <3>4, <3>9, <4>4, <4>5, <4>7, <4>8
    <3>11. CASE x # y
      <4>1. Recording(x)' = Recording(x)
        BY <3>1, <3>4, <3>11 DEF Recording, Audit!TypeOK
      <4>2. Recorded(x)' = Recorded(x)
        <5>1. trail'[x.tenant] = s \/ trail'[x.tenant] = Append(s, r)
          BY <3>4, <3>5, <3>6 DEF Audit!TypeOK
        <5>2. PICK u : u = Append(s, r)
          OBVIOUS
        <5>3. u \in Seq(Audit!AuditRecord)
          BY <3>7, <5>2
        <5>4. Recorded(x)' = Places(s, G) \/ Recorded(x)' = Places(u, G)
          BY <3>6, <3>8, <5>1, <5>2, <5>3, SMTT(20) DEF Recorded, Places
        <5>5. Places(u, G) = Places(s, G)
          BY <3>5, <3>7, <3>8, <3>11, <5>2, PlacesGrow
        <5> QED
          BY <3>9, <5>4, <5>5
      <4> QED
        BY <2>0, <3>4, <4>1, <4>2
    <3> QED
      BY <3>10, <3>11
  <2>4. CASE AgentsCrash
    <3>1. /\ trail' = [t \in Tenant |-> << >>] /\ witnessed'[x] = 0
          /\ request' = [th \in Thread |-> NoPayload]
      BY <2>4 DEF AgentsCrash, Audit!Restart
    <3>2. Recorded(x)' = {} /\ Recording(x)' = {}
      BY <3>1 DEF Recorded, Recording, Audit!Payload
    <3> QED
      BY <3>1, <3>2, FS_EmptySet
  <2>5. CASE UNCHANGED <<witnessed, auditVars>>
    BY <2>5, <2>a DEF auditVars
  <2> QED
    BY <2>1, <2>2, <2>3, <2>4, <2>5
       DEF Next, vars, agentVars, DecideApproval, WriteDecision, ResumeRun,
           ResumeFailed, ResumeAnswered, GiveUp, ContinuePaused, ContinueRun,
           GuardRefuses
<1>3. AllTold => EveryCallAudited
  BY DEF EveryCallAudited
<1>4. Audit!Spec => []Audit!TypeOK
  BY ChainTypeCorrect
<1> HIDE DEF AllTold
<1> QED
  BY <1>1, <1>2, <1>3, <1>4, TypeCorrect, GateUsesChain, PTL DEF Spec
=============================================================================
