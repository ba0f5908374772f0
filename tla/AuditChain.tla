----------------------------- MODULE AuditChain -----------------------------
(***************************************************************************)
(* The audit log of one process (aegis_core/audit.py): every tenant has a  *)
(* chain of records, each carrying the hash of the one before it, and      *)
(* threads append to the chains under one lock.                            *)
(*                                                                         *)
(* SHA-256 is taken to be collision free.  A digest is therefore modelled  *)
(* by what was digested: the chain of payloads that leads to it.           *)
(***************************************************************************)
EXTENDS Naturals, Sequences

CONSTANTS
  Thread,     \* threads that call record
  Tenant,
  Action,     \* what a record says was done
  NoThread,   \* the lock is free
  NoPayload   \* a thread that is not in record

(* AuditRecord.payload, without actor and time. *)
Payload == [tenant : Tenant, action : Action, status : {"ok", "error"}]

Hash == Seq(Payload)
GENESIS == << >>
ComputeHash(prev, x) == Append(prev, x)

AuditRecord == [payload : Payload, prev_hash : Hash, hash : Hash]

VARIABLES
  lock,     \* the thread that holds AuditChain._lock
  last,     \* AuditChain._last: the hash of each tenant's newest record
  request,  \* the payload each thread is recording
  read,     \* the hash the thread that holds the lock has read
  trail     \* the records returned to this process's threads, in order

vars == <<lock, last, request, read, trail>>

TypeOK ==
  /\ lock \in Thread \cup {NoThread}
  /\ last \in [Tenant -> Hash]
  /\ request \in [Thread -> Payload \cup {NoPayload}]
  /\ read \in [Thread -> Hash]
  /\ trail \in [Tenant -> Seq(AuditRecord)]
  /\ lock # NoThread => request[lock] # NoPayload

Init ==
  /\ lock = NoThread
  /\ last = [t \in Tenant |-> GENESIS]
  /\ request = [th \in Thread |-> NoPayload]
  /\ read = [th \in Thread |-> GENESIS]
  /\ trail = [t \in Tenant |-> << >>]

(* A thread calls record. *)
Record(th, x) ==
  /\ request[th] = NoPayload
  /\ request' = [request EXCEPT ![th] = x]
  /\ UNCHANGED <<lock, last, read, trail>>

(* mutant: every record starts a chain *)
Enter_Afresh(th) ==
  /\ request[th] # NoPayload
  /\ lock = NoThread
  /\ lock' = th
  /\ UNCHANGED <<last, request, read, trail>>

(* It takes the lock and reads the tenant's newest hash, ... *)
Enter(th) ==
  /\ request[th] # NoPayload
  /\ lock = NoThread
  /\ lock' = th
  /\ read' = [read EXCEPT ![th] = last[request[th].tenant]]
  /\ UNCHANGED <<last, request, trail>>

(* mutant: the lock is kept *)
Leave_KeepsLock(th) ==
  /\ lock = th
  /\ request[th] # NoPayload
  /\ LET x == request[th]
         h == ComputeHash(read[th], x)
     IN /\ last' = [last EXCEPT ![x.tenant] = h]
        /\ trail' = [trail EXCEPT ![x.tenant] =
             Append(@, [payload |-> x, prev_hash |-> read[th], hash |-> h])]
  /\ request' = [request EXCEPT ![th] = NoPayload]
  /\ read' = [read EXCEPT ![th] = GENESIS]
  /\ UNCHANGED lock

(* ... stores the new one, lets the lock go and returns the record. *)
Leave(th) ==
  /\ lock = th
  /\ LET x == request[th]
         h == ComputeHash(read[th], x)
     IN /\ last' = [last EXCEPT ![x.tenant] = h]
        /\ trail' = [trail EXCEPT ![x.tenant] =
             Append(@, [payload |-> x, prev_hash |-> read[th], hash |-> h])]
  /\ lock' = NoThread
  /\ request' = [request EXCEPT ![th] = NoPayload]
  /\ read' = [read EXCEPT ![th] = GENESIS]

(* The chains live in memory: a process that dies starts them anew. *)
Restart ==
  /\ lock' = NoThread
  /\ last' = [t \in Tenant |-> GENESIS]
  /\ request' = [th \in Thread |-> NoPayload]
  /\ read' = [th \in Thread |-> GENESIS]
  /\ trail' = [t \in Tenant |-> << >>]

Next ==
  \/ \E th \in Thread :
       \/ \E x \in Payload : Record(th, x)
       \/ Enter(th)
       \/ Leave(th)
  \/ Restart

Spec == Init /\ [][Next]_vars

-----------------------------------------------------------------------------
(* AuditChain.verify: the records form an unbroken chain from GENESIS. *)
PrevHash(s, k) == IF k = 1 THEN GENESIS ELSE s[k - 1].hash

Verify(s) ==
  \A k \in 1 .. Len(s) :
    /\ s[k].prev_hash = PrevHash(s, k)
    /\ s[k].hash = ComputeHash(PrevHash(s, k), s[k].payload)

Newest(s) == IF s = << >> THEN GENESIS ELSE s[Len(s)].hash

(* However the threads of a process interleave, the records it has returned   *)
(* for a tenant verify, they are all the tenant's own, and the next one will  *)
(* continue them: no two threads ever extend the same record.                 *)
ChainVerifies ==
  \A t \in Tenant :
    /\ Verify(trail[t])
    /\ last[t] = Newest(trail[t])
    /\ \A k \in 1 .. Len(trail[t]) : trail[t][k].payload.tenant = t

(* Whoever holds the lock has read the newest hash of its tenant. *)
ReadIsNewest ==
  lock # NoThread => read[lock] = last[request[lock].tenant]

(* The two together are inductive: no lock, no chain. *)
AuditInv == ChainVerifies /\ ReadIsNewest
=============================================================================
