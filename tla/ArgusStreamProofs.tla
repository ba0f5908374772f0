------------------------- MODULE ArgusStreamProofs -------------------------
(***************************************************************************)
(* Proofs about ArgusStream, for any number of questions and events, any   *)
(* size of the pool and any failures.                                      *)
(***************************************************************************)
EXTENDS ArgusStream, Integers, SequenceTheorems, TLAPS

(* What lies in the queue when m of n texts have been taken out: the others,  *)
(* in order, and the sentinel at the end if it is there at all.               *)
InQueue(q, m, n) ==
  /\ \A i \in 1 .. Len(q) : q[i].kind = "text" => q[i].n \in m + 1 .. n
  /\ \A i, j \in 1 .. Len(q) :
       i < j /\ q[i].kind = "text" /\ q[j].kind = "text" => q[i].n < q[j].n
  /\ \A k \in m + 1 .. n : \E i \in 1 .. Len(q) : q[i] = Text(k)
  /\ \A i \in 1 .. Len(q) : q[i].kind = "sentinel" => i = Len(q)

(* What m texts have become: some are shown, the rest is on the wire, perhaps *)
(* with the frame that closes the response after it; e is where the generator *)
(* is.                                                                        *)
Sent(sh, w, m, e) ==
  /\ Len(sh) <= m
  /\ \A i \in 1 .. Len(sh) : sh[i] = Text(i)
  /\ \/ Len(w) = m - Len(sh)
     \/ e = "end" /\ Len(w) = m - Len(sh) + 1 /\ w[Len(w)] = Stop
  /\ \A i \in 1 .. m - Len(sh) : w[i] = Text(Len(sh) + i)

(* What "No response generated." has become. *)
NoticeSent(sh, w, e) ==
  \/ sh = << >> /\ w = <<NoResponse>>
  \/ sh = << >> /\ w = <<NoResponse, Stop>> /\ e = "end"
  \/ sh = <<NoResponse>> /\ w = << >>
  \/ sh = <<NoResponse>> /\ w = <<Stop>> /\ e = "end"

(* The answer of s while the console reads, m texts of it having been taken.  *)
Flow(s, m) ==
  /\ InQueue(queue[s], m, said[s])
  /\ worker[s] # "done" =>
       \A i \in 1 .. Len(queue[s]) : queue[s][i].kind # "sentinel"
  /\ \/ /\ Sent(shown[s], wire[s], m, sse[s])
        /\ m = 0 <=> sse[s] = "silent"
     \/ /\ NoticeSent(shown[s], wire[s], sse[s])
        /\ m = 0 /\ sse[s] \in {"stop", "end"}
  /\ sse[s] \in {"stop", "end"} =>
       queue[s] = << >> /\ m = said[s] /\ worker[s] \in {"done", "failed"}

(* Nothing runs before the first step; only a response that was closed is     *)
(* over; the console has its end only when there is one.                      *)
StreamOk(s) ==
  /\ worker[s] = "none" =>
       said[s] = 0 /\ queue[s] = << >> /\ sse[s] = "silent"
  /\ stage[s] = "over" => sse[s] = "end"
  /\ console[s] = "answered" => stage[s] \in {"refused", "over"}
  /\ console[s] = "reading" => \E m \in 0 .. said[s] : Flow(s, m)

StreamInv == \A s \in Stream : StreamOk(s)

(* Who is in line waits, and is there once. *)
LineInv ==
  /\ \A i \in 1 .. Len(line) : stage[line[i]] \in Waiting
  /\ \A i, j \in 1 .. Len(line) : i # j => line[i] # line[j]

-----------------------------------------------------------------------------
(* What is put comes last, ...                                                *)
LEMMA PutText ==
  ASSUME NEW q \in Seq(Item), NEW m \in Nat, NEW n \in Nat, m <= n,
         InQueue(q, m, n), \A i \in 1 .. Len(q) : q[i].kind # "sentinel"
  PROVE  /\ InQueue(Append(q, Text(n + 1)), m, n + 1)
         /\ \A i \in 1 .. Len(Append(q, Text(n + 1))) :
              Append(q, Text(n + 1))[i].kind # "sentinel"
<1>0. Text(n + 1) \in Item
  BY DEF Item, Text
<1>1. PICK x : x = Text(n + 1)
  OBVIOUS
<1>2. x.kind = "text" /\ x.n = n + 1 /\ x \in Item
  BY <1>0, <1>1 DEF Text
<1>3. PICK u : u = Append(q, x)
  OBVIOUS
<1>4. /\ Len(u) = Len(q) + 1 /\ u[Len(q) + 1] = x /\ Len(q) \in Nat
      /\ \A i \in 1 .. Len(q) : u[i] = q[i]
  BY <1>2, <1>3
<1>5. \A i \in 1 .. Len(u) : u[i].kind = "text" => u[i].n \in m + 1 .. n + 1
  BY <1>2, <1>4 DEF InQueue
<1>6. ASSUME NEW i \in 1 .. Len(u), NEW j \in 1 .. Len(u),
             i < j, u[i].kind = "text", u[j].kind = "text"
      PROVE  u[i].n < u[j].n
  <2>1. i \in 1 .. Len(q) /\ u[i] = q[i] /\ q[i].n \in m + 1 .. n
    BY <1>4, <1>6 DEF InQueue
  <2>2. CASE j = Len(u)
    BY <1>2, <1>4, <2>1, <2>2
  <2>3. CASE j # Len(u)
    <3>1. j \in 1 .. Len(q) /\ u[j] = q[j]
      BY <1>4, <2>3
    <3> QED
      BY <1>6, <2>1, <3>1 DEF InQueue
  <2> QED
    BY <2>2, <2>3
<1>7. ASSUME NEW k \in m + 1 .. n + 1 PROVE \E i \in 1 .. Len(u) : u[i] = Text(k)
  <2>1. CASE k = n + 1
    <3>1. Len(q) + 1 \in 1 .. Len(u) /\ u[Len(q) + 1] = Text(k)
      BY <1>1, <1>4, <2>1
    <3> QED
      BY <3>1
  <2>2. CASE k # n + 1
    <3>1. k \in m + 1 .. n
      BY <2>2
    <3>2. PICK i \in 1 .. Len(q) : q[i] = Text(k)
      BY <3>1 DEF InQueue
    <3>3. i \in 1 .. Len(u) /\ u[i] = Text(k)
      BY <1>4, <3>2
    <3> QED
      BY <3>3
  <2> QED
    BY <2>1, <2>2
<1>8. \A i \in 1 .. Len(u) : u[i].kind # "sentinel"
  BY <1>2, <1>4
<1> QED
  BY <1>1, <1>3, <1>5, <1>6, <1>7, <1>8 DEF InQueue

LEMMA PutNoText ==
  ASSUME NEW q \in Seq(Item), NEW m \in Nat, NEW n \in Nat, NEW x \in Item,
         InQueue(q, m, n), \A i \in 1 .. Len(q) : q[i].kind # "sentinel",
         x.kind # "text"
  PROVE  /\ InQueue(Append(q, x), m, n)
         /\ x.kind # "sentinel" =>
              \A i \in 1 .. Len(Append(q, x)) : Append(q, x)[i].kind # "sentinel"
<1>1. PICK u : u = Append(q, x)
  OBVIOUS
<1>2. /\ Len(u) = Len(q) + 1 /\ u[Len(q) + 1] = x /\ Len(q) \in Nat
      /\ \A i \in 1 .. Len(q) : u[i] = q[i]
  BY <1>1
<1>3. ASSUME NEW k \in m + 1 .. n PROVE \E i \in 1 .. Len(u) : u[i] = Text(k)
  <2>1. PICK i \in 1 .. Len(q) : q[i] = Text(k)
    BY DEF InQueue
  <2>2. i \in 1 .. Len(u) /\ u[i] = Text(k)
    BY <1>2, <2>1
  <2> QED
    BY <2>2
<1>4. \A i \in 1 .. Len(u) : i \in 1 .. Len(q) \/ i = Len(u)
  BY <1>2
<1>5. \A i \in 1 .. Len(u) : u[i].kind = "text" => u[i].n \in m + 1 .. n
  BY <1>2, <1>4 DEF InQueue
<1>6. \A i, j \in 1 .. Len(u) :
        i < j /\ u[i].kind = "text" /\ u[j].kind = "text" => u[i].n < u[j].n
  BY <1>2, <1>4 DEF InQueue
<1>7. /\ \A i \in 1 .. Len(u) : u[i].kind = "sentinel" => i = Len(u)
      /\ x.kind # "sentinel" => \A i \in 1 .. Len(u) : u[i].kind # "sentinel"
  BY <1>2, <1>4
<1> QED
  BY <1>1, <1>3, <1>5, <1>6, <1>7 DEF InQueue

(* ... and what is taken is the next text, some other event, or the sentinel  *)
(* when there is nothing left.                                                *)
LEMMA TakeFirst ==
  ASSUME NEW q \in Seq(Item), NEW m \in Nat, NEW n \in Nat, m <= n,
         InQueue(q, m, n), q # << >>
  PROVE  /\ Head(q).kind = "text" =>
              Head(q).n = m + 1 /\ m + 1 <= n /\ InQueue(Tail(q), m + 1, n)
         /\ Head(q).kind = "other" => InQueue(Tail(q), m, n)
         /\ Head(q).kind = "sentinel" => m = n /\ Tail(q) = << >>
<1>1. PICK u : u = Tail(q)
  OBVIOUS
<1>2. /\ Len(q) \in Nat /\ Len(q) >= 1 /\ Len(u) = Len(q) - 1 /\ Head(q) = q[1]
      /\ \A i \in 1 .. Len(u) : u[i] = q[i + 1]
      /\ q[1] \in Item
  BY <1>1
<1>3. ASSUME NEW k \in m + 1 .. n, q[1] # Text(k)
      PROVE  \E i \in 1 .. Len(u) : u[i] = Text(k)
  <2>1. PICK j \in 1 .. Len(q) : q[j] = Text(k)
    BY DEF InQueue
  <2>2. j - 1 \in 1 .. Len(u) /\ u[j - 1] = Text(k)
    BY <1>2, <1>3, <2>1
  <2> QED
    BY <2>2
<1>4. /\ \A i, j \in 1 .. Len(u) :
           i < j /\ u[i].kind = "text" /\ u[j].kind = "text" => u[i].n < u[j].n
      /\ \A i \in 1 .. Len(u) : u[i].kind = "sentinel" => i = Len(u)
      /\ \A i \in 1 .. Len(u) : u[i].kind = "text" => u[i].n \in m + 1 .. n
  <2>1. \A i \in 1 .. Len(u) : i \in Nat /\ i + 1 \in 1 .. Len(q)
    BY <1>2
  <2>2. ASSUME NEW i \in 1 .. Len(u), NEW j \in 1 .. Len(u),
               i < j, u[i].kind = "text", u[j].kind = "text"
        PROVE  u[i].n < u[j].n
    <3>1. i + 1 < j + 1 /\ u[i] = q[i + 1] /\ u[j] = q[j + 1]
      BY <1>2, <2>1, <2>2
    <3> QED
      BY <2>1, <2>2, <3>1 DEF InQueue
  <2>3. ASSUME NEW i \in 1 .. Len(u), u[i].kind = "sentinel" PROVE i = Len(u)
    <3>1. i + 1 = Len(q)
      BY <1>2, <2>1, <2>3 DEF InQueue
    <3> QED
      BY <1>2, <3>1
  <2>4. ASSUME NEW i \in 1 .. Len(u), u[i].kind = "text" PROVE u[i].n \in m + 1 .. n
    BY <1>2, <2>1, <2>4 DEF InQueue
  <2> QED
    BY <2>2, <2>3, <2>4
<1>5. ASSUME q[1].kind = "text"
      PROVE  q[1].n = m + 1 /\ m + 1 <= n /\ InQueue(u, m + 1, n)
  <2>1. q[1].n \in m + 1 .. n /\ 1 \in 1 .. Len(q)
    BY <1>2, <1>5 DEF InQueue
  <2>2. m + 1 \in m + 1 .. n /\ m + 1 <= n
    BY <2>1
  <2>3. PICK j \in 1 .. Len(q) : q[j] = Text(m + 1)
    BY <2>2 DEF InQueue
  <2>4. q[1].n = m + 1
    <3>1. q[j].kind = "text" /\ q[j].n = m + 1
      BY <2>3 DEF Text
    <3>2. CASE j = 1
      BY <3>1, <3>2
    <3>3. CASE 1 < j
      BY <1>5, <2>1, <3>1, <3>3 DEF InQueue
    <3> QED
      BY <3>2, <3>3
  <2>5. \A i \in 1 .. Len(u) : u[i].kind = "text" => u[i].n \in (m + 1) + 1 .. n
    <3>1. SUFFICES ASSUME NEW i \in 1 .. Len(u), u[i].kind = "text"
                   PROVE  u[i].n \in (m + 1) + 1 .. n
      OBVIOUS
    <3>2. i + 1 \in 1 .. Len(q) /\ u[i] = q[i + 1] /\ 1 < i + 1
      BY <1>2
    <3>3. q[1].n < q[i + 1].n
      BY <1>5, <2>1, <3>1, <3>2 DEF InQueue
    <3>4. u[i].n \in m + 1 .. n
      BY <1>4, <3>1
    <3> QED
      BY <2>4, <3>2, <3>3, <3>4
  <2>6. ASSUME NEW k \in (m + 1) + 1 .. n
        PROVE  \E i \in 1 .. Len(u) : u[i] = Text(k)
    <3>1. q[1] # Text(k) /\ k \in m + 1 .. n
      BY <2>4 DEF Text
    <3> QED
      BY <1>3, <3>1
  <2> QED
    BY <1>4, <2>2, <2>4, <2>5, <2>6 DEF InQueue
<1>6. ASSUME q[1].kind = "other" PROVE InQueue(u, m, n)
  <2>1. \A k \in m + 1 .. n : q[1] # Text(k)
    BY <1>6 DEF Text
  <2> QED
    BY <1>3, <1>4, <2>1 DEF InQueue
<1>7. ASSUME q[1].kind = "sentinel" PROVE m = n /\ u = << >>
  <2>1. 1 \in 1 .. Len(q) /\ Len(q) = 1
    BY <1>2, <1>7 DEF InQueue
  <2>2. u = << >>
    BY <1>2, <2>1
  <2>3. ASSUME m + 1 <= n PROVE FALSE
    <3>1. m + 1 \in m + 1 .. n /\ q[1] # Text(m + 1)
      BY <1>7, <2>3 DEF Text
    <3> QED
      BY <1>2, <1>3, <2>1, <3>1
  <2> QED
    BY <2>2, <2>3
<1> QED
  BY <1>1, <1>2, <1>5, <1>6, <1>7

(* The next text follows those on the wire, and so does what closes them.     *)
LEMMA SendText ==
  ASSUME NEW sh \in Seq(Frame), NEW w \in Seq(Frame), NEW m \in Nat,
         NEW e, e # "end", Sent(sh, w, m, e)
  PROVE  /\ \A g : Sent(sh, Append(w, Text(m + 1)), m + 1, g)
         /\ Sent(sh, Append(w, Stop), m, "end")
<1>1. /\ Len(w) \in Nat /\ Len(sh) \in Nat /\ Len(w) = m - Len(sh) /\ Len(sh) <= m
      /\ \A i \in 1 .. Len(w) : w[i] = Text(Len(sh) + i)
      /\ \A i \in 1 .. Len(sh) : sh[i] = Text(i)
  BY DEF Sent
<1>2. ASSUME NEW x
      PROVE  /\ Len(Append(w, x)) = Len(w) + 1 /\ Append(w, x)[Len(w) + 1] = x
             /\ \A i \in 1 .. Len(w) : Append(w, x)[i] = w[i]
  OBVIOUS
<1>3. Sent(sh, Append(w, Stop), m, "end")
  BY <1>1, <1>2 DEF Sent
<1>4. ASSUME NEW g
      PROVE  Sent(sh, Append(w, Text(m + 1)), m + 1, g)
  <2>1. PICK x : x = Text(m + 1)
    OBVIOUS
  <2>2. PICK v : v = Append(w, x)
    OBVIOUS
  <2>3. /\ Len(v) = (m + 1) - Len(sh) /\ Len(sh) <= m + 1
        /\ v[Len(w) + 1] = Text(Len(sh) + (Len(w) + 1))
        /\ \A i \in 1 .. Len(w) : v[i] = w[i]
    <3>1. Len(sh) + (Len(w) + 1) = m + 1
      BY <1>1
    <3> QED
      BY <1>1, <1>2, <2>1, <2>2, <3>1
  <2>4. \A i \in 1 .. (m + 1) - Len(sh) : v[i] = Text(Len(sh) + i)
    <3>1. SUFFICES ASSUME NEW i \in 1 .. (m + 1) - Len(sh)
                   PROVE  v[i] = Text(Len(sh) + i)
      OBVIOUS
    <3>2. i \in 1 .. Len(w) \/ i = Len(w) + 1
      BY <1>1
    <3> QED
      BY <1>1, <2>3, <3>2
  <2> QED
    BY <1>1, <2>1, <2>2, <2>3, <2>4 DEF Sent
<1> QED
  BY <1>3, <1>4

LEMMA AppendToOne ==
  ASSUME NEW S, NEW f \in S, NEW g \in S
  PROVE  Append(<<f>>, g) = <<f, g>>
<1>1. PICK u, v : u = Append(<<f>>, g) /\ v = <<f, g>>
  OBVIOUS
<1>2. <<f>> \in Seq(S) /\ v \in Seq(S)
  BY <1>1
<1>3. /\ u \in Seq(S) /\ Len(u) = 2 /\ Len(v) = 2
      /\ u[1] = f /\ u[2] = g /\ v[1] = f /\ v[2] = g
  BY <1>1, <1>2
<1>4. \A i \in 1 .. Len(u) : u[i] = v[i]
  <2>1. \A i \in 1 .. 2 : i = 1 \/ i = 2
    OBVIOUS
  <2> QED
    BY <1>3, <2>1
<1>5. u = v
  BY <1>2, <1>3, <1>4, SeqEqual
<1> QED
  BY <1>1, <1>5

(* The console reads the texts from the wire in their order.                  *)
LEMMA ReadText ==
  ASSUME NEW sh \in Seq(Frame), NEW w \in Seq(Frame), NEW m \in Nat,
         NEW e, Sent(sh, w, m, e), w # << >>
  PROVE  \/ /\ Head(w) = Text(Len(sh) + 1) /\ Len(sh) + 1 <= m
            /\ Sent(Append(sh, Head(w)), Tail(w), m, e)
         \/ /\ Head(w) = Stop /\ Len(sh) = m
            /\ Sent(sh, Tail(w), m, e)
<1>1. /\ Len(w) \in Nat /\ Len(w) >= 1 /\ Len(sh) \in Nat /\ Len(sh) <= m
      /\ Head(w) = w[1]
      /\ Len(Tail(w)) = Len(w) - 1
      /\ \A i \in 1 .. Len(w) - 1 : Tail(w)[i] = w[i + 1]
  BY DEF Sent
<1>2. CASE Len(sh) < m
  <2>1. w[1] = Text(Len(sh) + 1)
    BY <1>1, <1>2 DEF Sent
  <2>2. PICK u : u = Append(sh, w[1])
    OBVIOUS
  <2>3. /\ Len(u) = Len(sh) + 1 /\ u[Len(sh) + 1] = w[1]
        /\ \A i \in 1 .. Len(sh) : u[i] = sh[i]
    BY <2>2
  <2>4. \A i \in 1 .. Len(u) : u[i] = Text(i)
    BY <1>1, <2>1, <2>3 DEF Sent
  <2>5. PICK v : v = Tail(w)
    OBVIOUS
  <2>6. \A i \in 1 .. m - Len(u) : v[i] = Text(Len(u) + i)
    <3>1. SUFFICES ASSUME NEW i \in 1 .. m - Len(u) PROVE v[i] = Text(Len(u) + i)
      OBVIOUS
    <3>2. /\ i + 1 \in 1 .. m - Len(sh) /\ i \in 1 .. Len(w) - 1
          /\ Len(sh) + (i + 1) = Len(u) + i
      BY <1>1, <2>3 DEF Sent
    <3>3. w[i + 1] = Text(Len(sh) + (i + 1))
      BY <3>2 DEF Sent
    <3> QED
      BY <1>1, <2>5, <3>2, <3>3
  <2>7. \/ Len(v) = m - Len(u)
        \/ e = "end" /\ Len(v) = m - Len(u) + 1 /\ v[Len(v)] = Stop
    <3>1. CASE Len(w) = m - Len(sh)
      BY <1>1, <2>3, <2>5, <3>1
    <3>2. CASE e = "end" /\ Len(w) = m - Len(sh) + 1 /\ w[Len(w)] = Stop
      <4>1. Len(v) = Len(w) - 1 /\ Len(v) \in 1 .. Len(w) - 1
        BY <1>1, <1>2, <2>5, <3>2
      <4>2. v[Len(v)] = w[Len(v) + 1] /\ Len(v) + 1 = Len(w)
        BY <1>1, <2>5, <4>1
      <4> QED
        BY <1>1, <2>3, <3>2, <4>1, <4>2
    <3> QED
      BY <3>1, <3>2 DEF Sent
  <2>8. Sent(u, v, m, e)
    BY <1>1, <1>2, <2>3, <2>4, <2>6, <2>7 DEF Sent
  <2> QED
    BY <1>1, <1>2, <2>1, <2>2, <2>5, <2>8
<1>3. CASE Len(sh) = m
  <2>1. Len(w) = 1 /\ w[1] = Stop
    BY <1>1, <1>3 DEF Sent
  <2>2. Sent(sh, Tail(w), m, e)
    BY <1>1, <1>3, <2>1 DEF Sent
  <2> QED
    BY <1>1, <1>3, <2>1, <2>2
<1> QED
  BY <1>1, <1>2, <1>3

-----------------------------------------------------------------------------
(* A step of one question. *)
StepOf(r) ==
  \/ Arrive(r)
  \/ Verified(r)
  \/ Refused(r)
  \/ WorkerStep(r)
  \/ GeneratorStep(r)
  \/ ConsoleStep(r)
  \/ LoseConnection(r)
  \/ Leave(r)

(* What is kept of a question. *)
StageKept(s) == stage'[s] = stage[s]
RunKept(s) == /\ worker'[s] = worker[s] /\ events'[s] = events[s]
              /\ said'[s] = said[s] /\ queue'[s] = queue[s]
AnswerKept(s) == /\ sse'[s] = sse[s] /\ wire'[s] = wire[s]
                 /\ console'[s] = console[s] /\ shown'[s] = shown[s]

LEMMA FramesAndItems ==
  /\ NoResponse \in Frame /\ Unavailable \in Frame /\ Stop \in Frame
  /\ Other \in Item /\ Sentinel \in Item
  /\ \A n \in Nat : Text(n) \in Item /\ Text(n) \in Frame
BY DEF NoResponse, Unavailable, Stop, Other, Sentinel, Text, Item, Frame

(* The frame a step of the generator yields is a frame. *)
LEMMA YieldTypes ==
  ASSUME TypeOK, NEW s \in Stream, NEW f \in Frame, Yield(s, f)
  PROVE  /\ stage' \in [Stream -> {"new"} \cup Waiting \cup Pooled \cup Over]
         /\ line' \in Seq(Stream)
         /\ wire' \in [Stream -> Seq(Frame)]
<1>1. CASE console[s] = "reading"
  <2>1. /\ wire' = [wire EXCEPT ![s] = Append(wire[s], f)]
        /\ stage' = [stage EXCEPT ![s] = "step?"]
        /\ line' = Append(line, s)
    BY <1>1 DEF Yield
  <2>2. Append(wire[s], f) \in Seq(Frame)
    BY DEF TypeOK
  <2> QED
    BY <2>1, <2>2 DEF TypeOK, Waiting
<1>2. CASE console[s] # "reading"
  BY <1>2 DEF Yield, TypeOK, Over
<1> QED
  BY <1>1, <1>2

(* Every step keeps the types of the state. *)
THEOREM TypeCorrect == Spec => []TypeOK
<1>1. Init => TypeOK
  BY StreamAssumption DEF Init, TypeOK
<1>2. TypeOK /\ [Next]_vars => TypeOK'
  <2> SUFFICES ASSUME TypeOK, [Next]_vars PROVE TypeOK'
    OBVIOUS
  <2> USE DEF Waiting, Pooled, Over
  <2>1. CASE Admit
    <3>1. Head(line) \in Stream /\ Tail(line) \in Seq(Stream)
      BY <2>1 DEF Admit, TypeOK
    <3> QED
      BY <2>1, <3>1 DEF Admit, TypeOK, runVars
  <2>2. ASSUME NEW s \in Stream,
               Arrive(s) \/ Verified(s) \/ Refused(s) \/ EndResponse(s)
        PROVE  TypeOK'
    <3>1. PICK g \in {"verify?", "step?", "refused", "over"} :
            stage' = [stage EXCEPT ![s] = g]
      BY <2>2 DEF Arrive, Verified, Refused, EndResponse
    <3>2. stage' \in [Stream -> {"new"} \cup Waiting \cup Pooled \cup Over]
      BY <3>1 DEF TypeOK
    <3>3. line' = line \/ line' = Append(line, s)
      BY <2>2 DEF Arrive, Verified, Refused, EndResponse
    <3>4. line' \in Seq(Stream)
      <4>1. line \in Seq(Stream)
        BY DEF TypeOK
      <4> QED
        BY <3>3, <4>1
    <3>5. UNCHANGED <<runVars, queue, sse, wire, console, shown>>
      BY <2>2 DEF Arrive, Verified, Refused, EndResponse
    <3> QED
      BY <3>2, <3>4, <3>5 DEF TypeOK, runVars
  <2>3. ASSUME NEW s \in Stream, StartWorker(s) \/ Return(s) PROVE TypeOK'
    BY <2>3 DEF StartWorker, Return, TypeOK, poolVars
  <2>4. ASSUME NEW s \in Stream, NEW item \in {Text(said[s] + 1), Other},
               PutEvent(s, item)
        PROVE  TypeOK'
    <3>1. said[s] \in Nat /\ events[s] + 1 \in 0 .. MaxEvents
      BY <2>4, StreamAssumption DEF PutEvent, TypeOK
    <3>2. PICK x \in Item : x = item
      BY <3>1, FramesAndItems
    <3>3. queue' \in [Stream -> Seq(Item)]
      BY <2>4, <3>2 DEF PutEvent, TypeOK
    <3>4. said' \in [Stream -> Nat] /\ events' \in [Stream -> 0 .. MaxEvents]
      BY <2>4, <3>1 DEF PutEvent, TypeOK
    <3> QED
      BY <2>4, <3>3, <3>4 DEF PutEvent, TypeOK, poolVars
  <2>5. ASSUME NEW s \in Stream, Raise(s) \/ PutSentinel(s) PROVE TypeOK'
    <3>1. said[s] \in Nat /\ Text(said[s] + 1) \in Item /\ Sentinel \in Item
      BY FramesAndItems DEF TypeOK
    <3>2. PICK x, y : x = Text(said[s] + 1) /\ y = Sentinel
      OBVIOUS
    <3>3. \/ queue' = [queue EXCEPT ![s] = Append(queue[s], x)]
          \/ queue' = [queue EXCEPT ![s] = Append(queue[s], y)]
      BY <2>5, <3>2 DEF Raise, PutSentinel
    <3>4. queue' \in [Stream -> Seq(Item)]
      <4>1. queue \in [Stream -> Seq(Item)]
        BY DEF TypeOK
      <4>2. Append(queue[s], x) \in Seq(Item) /\ Append(queue[s], y) \in Seq(Item)
        BY <3>1, <3>2, <4>1
      <4> QED
        BY <3>3, <4>1, <4>2
    <3>5. said' \in [Stream -> Nat]
      <4>1. said' = said \/ said' = [said EXCEPT ![s] = said[s] + 1]
        BY <2>5 DEF Raise, PutSentinel
      <4>2. said \in [Stream -> Nat]
        BY DEF TypeOK
      <4> QED
        BY <4>1, <4>2
    <3>6. worker' \in [Stream -> {"none", "running", "ending", "done", "failed"}]
      BY <2>5, ZenonT(60) DEF Raise, PutSentinel, TypeOK
    <3> QED
      BY <2>5, <3>4, <3>5, <3>6 DEF Raise, PutSentinel, TypeOK, poolVars
  <2>6. ASSUME NEW s \in Stream, ChatFails(s) PROVE TypeOK'
    <3>1. Text(1) \in Frame
      BY FramesAndItems
    <3>2. Yield(s, Text(1))
      BY <2>6 DEF ChatFails
    <3> QED
      BY <2>6, <3>1, <3>2, YieldTypes DEF ChatFails, TypeOK
  <2>7. ASSUME NEW s \in Stream, NEW item, Taken(s, item)
        PROVE  queue' \in [Stream -> Seq(Item)]
    <3>1. Tail(queue[s]) \in Seq(Item)
      BY <2>7 DEF Taken, TypeOK
    <3> QED
      BY <2>7, <3>1 DEF Taken, TypeOK
  <2>8. ASSUME NEW s \in Stream, DropOther(s) PROVE TypeOK'
    BY <2>7, <2>8 DEF DropOther, TypeOK, poolVars, runVars
  <2>9. ASSUME NEW s \in Stream, YieldText(s) PROVE TypeOK'
    <3>1. PICK n \in 1 .. said[s] : Taken(s, Text(n)) /\ Yield(s, Text(n))
      BY <2>9 DEF YieldText
    <3>2. Text(n) \in Frame
      BY FramesAndItems DEF TypeOK
    <3> QED
      BY <2>7, <2>9, <3>1, <3>2, YieldTypes DEF YieldText, TypeOK, runVars
  <2>10. ASSUME NEW s \in Stream, TakeSentinel(s) PROVE TypeOK'
    <3>1. PICK f \in Frame : Yield(s, f)
      BY <2>10, FramesAndItems DEF TakeSentinel
    <3> QED
      BY <2>7, <2>10, <3>1, YieldTypes DEF TakeSentinel, TypeOK, runVars
  <2>11. ASSUME NEW s \in Stream, YieldStop(s) PROVE TypeOK'
    BY <2>11, FramesAndItems, YieldTypes DEF YieldStop, TypeOK, runVars
  <2>12. ASSUME NEW s \in Stream, ReadFrame(s) PROVE TypeOK'
    <3>1. PICK f \in Frame : f = Head(wire[s])
      BY <2>12 DEF ReadFrame, TypeOK
    <3>2. Tail(wire[s]) \in Seq(Frame) /\ Append(shown[s], f) \in Seq(Frame)
      BY <2>12 DEF ReadFrame, TypeOK
    <3>3. wire' \in [Stream -> Seq(Frame)]
      BY <2>12, <3>2 DEF ReadFrame, TypeOK
    <3>4. shown' = shown \/ shown' = [shown EXCEPT ![s] = Append(shown[s], f)]
      BY <2>12, <3>1 DEF ReadFrame
    <3>5. shown' \in [Stream -> Seq(Frame)]
      BY <3>2, <3>4 DEF TypeOK
    <3> QED
      BY <2>12, <3>3, <3>5 DEF ReadFrame, TypeOK, poolVars, runVars
  <2>13. ASSUME NEW s \in Stream, ReadEnd(s) \/ Leave(s) PROVE TypeOK'
    <3>1. PICK c \in {"answered", "gone"} : console' = [console EXCEPT ![s] = c]
      BY <2>13 DEF ReadEnd, Leave
    <3>2. wire' = wire \/ wire' = [wire EXCEPT ![s] = << >>]
      BY <2>13 DEF ReadEnd, Leave
    <3>3. wire' \in [Stream -> Seq(Frame)]
      <4>1. wire \in [Stream -> Seq(Frame)] /\ << >> \in Seq(Frame)
        BY DEF TypeOK
      <4> QED
        BY <3>2, <4>1
    <3> QED
      BY <2>13, <3>1, <3>3 DEF ReadEnd, Leave, TypeOK, poolVars, runVars
  <2>14. ASSUME NEW s \in Stream, LoseConnection(s) PROVE TypeOK'
    <3>0. PICK f \in Frame : f = Unavailable
      BY FramesAndItems
    <3>1. PICK u \in Seq(Frame) : u = <<Unavailable>>
      <4>1. <<f>> \in Seq(Frame)
        OBVIOUS
      <4> QED
        BY <3>0, <4>1
    <3>2. shown' \in [Stream -> Seq(Frame)]
      BY <2>14, <3>1 DEF LoseConnection, TypeOK
    <3> QED
      BY <2>14, <3>2 DEF LoseConnection, TypeOK, poolVars, runVars
  <2>15. CASE UNCHANGED vars
    BY <2>15 DEF vars, poolVars, runVars, TypeOK
  <2> QED
    BY <2>1, <2>2, <2>3, <2>4, <2>5, <2>6, <2>8, <2>9, <2>10, <2>11, <2>12,
       <2>13, <2>14, <2>15 DEF Next, WorkerStep, GeneratorStep, ConsoleStep
<1> QED
  BY <1>1, <1>2, PTL DEF Spec

(* A step of one question leaves the others alone. *)
LEMMA OthersKept ==
  ASSUME TypeOK, NEW r \in Stream, StepOf(r), NEW s \in Stream, s # r
  PROVE  StageKept(s) /\ RunKept(s) /\ AnswerKept(s)
<1> USE DEF StageKept, RunKept, AnswerKept, TypeOK, poolVars, runVars
<1>1. ASSUME NEW f, Yield(r, f) PROVE stage'[s] = stage[s] /\ wire'[s] = wire[s]
  BY <1>1 DEF Yield
<1>2. CASE Arrive(r) \/ Verified(r) \/ Refused(r)
  BY <1>2 DEF Arrive, Verified, Refused
<1>3. CASE WorkerStep(r)
  BY <1>3 DEF WorkerStep, PutEvent, Return, Raise, PutSentinel
<1>4. CASE StartWorker(r) \/ DropOther(r) \/ EndResponse(r)
  BY <1>4 DEF StartWorker, DropOther, Taken, EndResponse
<1>5. CASE ChatFails(r)
  BY <1>1, <1>5 DEF ChatFails
<1>6. CASE YieldText(r)
  BY <1>1, <1>6 DEF YieldText, Taken
<1>7. CASE TakeSentinel(r)
  BY <1>1, <1>7 DEF TakeSentinel, Taken
<1>8. CASE YieldStop(r)
  BY <1>1, <1>8 DEF YieldStop
<1>9. CASE ConsoleStep(r)
  BY <1>9 DEF ConsoleStep, ReadFrame, ReadEnd
<1>10. CASE LoseConnection(r) \/ Leave(r)
  BY <1>10 DEF LoseConnection, Leave
<1> QED
  BY <1>2, <1>3, <1>4, <1>5, <1>6, <1>7, <1>8, <1>9, <1>10 DEF StepOf, GeneratorStep

-----------------------------------------------------------------------------
(* Who is in line waits there for a thread, once. *)
LEMMA LineKept == TypeOK /\ LineInv /\ [Next]_vars => LineInv'
<1> SUFFICES ASSUME TypeOK, LineInv, [Next]_vars PROVE LineInv'
  OBVIOUS
<1>0. line \in Seq(Stream) /\ stage \in [Stream -> {"new"} \cup Waiting \cup Pooled \cup Over]
  BY DEF TypeOK
<1>1. ASSUME NEW s \in Stream, NEW g \in Waiting, stage[s] \notin Waiting,
             stage' = [stage EXCEPT ![s] = g], line' = Append(line, s)
      PROVE  LineInv'
  <2>1. /\ Len(line') = Len(line) + 1 /\ line'[Len(line) + 1] = s
        /\ Len(line) \in Nat
        /\ \A i \in 1 .. Len(line) : line'[i] = line[i] /\ line[i] \in Stream
    BY <1>0, <1>1
  <2>2. \A i \in 1 .. Len(line) : line[i] # s
    BY <1>1 DEF LineInv
  <2>3. \A i \in 1 .. Len(line') : i \in 1 .. Len(line) \/ i = Len(line) + 1
    BY <2>1
  <2>4. \A i \in 1 .. Len(line') : stage'[line'[i]] \in Waiting
    BY <1>0, <1>1, <2>1, <2>3 DEF LineInv
  <2>5. \A i, j \in 1 .. Len(line') : i # j => line'[i] # line'[j]
    BY <2>1, <2>2, <2>3 DEF LineInv
  <2> QED
    BY <2>4, <2>5 DEF LineInv
<1>2. ASSUME NEW s \in Stream, NEW g, stage[s] \notin Waiting,
             stage' = [stage EXCEPT ![s] = g], line' = line
      PROVE  LineInv'
  <2>1. \A i \in 1 .. Len(line) : line[i] # s /\ line[i] \in Stream
    BY <1>0, <1>2 DEF LineInv
  <2> QED
    BY <1>0, <1>2, <2>1 DEF LineInv
<1>3. ASSUME stage' = stage, line' = line PROVE LineInv'
  BY <1>3 DEF LineInv
<1>4. CASE Admit
  <2>1. /\ Len(line) \in Nat /\ Len(line) >= 1 /\ Len(line') = Len(line) - 1
        /\ \A i \in 1 .. Len(line') : line'[i] = line[i + 1] /\ line[i + 1] \in Stream
        /\ Head(line) = line[1]
    BY <1>0, <1>4 DEF Admit
  <2>2. \A i \in 1 .. Len(line') : i + 1 \in 1 .. Len(line) /\ 1 # i + 1
    BY <2>1
  <2>3. 1 \in 1 .. Len(line)
    BY <2>1
  <2>4. \A i \in 1 .. Len(line') : line'[i] # Head(line)
    BY <2>1, <2>2, <2>3 DEF LineInv
  <2>5. \A s \in Stream : s # Head(line) => stage'[s] = stage[s]
    BY <1>0, <1>4 DEF Admit
  <2>6. \A i \in 1 .. Len(line') : stage'[line'[i]] \in Waiting
    BY <2>1, <2>2, <2>4, <2>5 DEF LineInv
  <2>7. \A i, j \in 1 .. Len(line') : i # j => line'[i] # line'[j]
    <3>1. SUFFICES ASSUME NEW i \in 1 .. Len(line'), NEW j \in 1 .. Len(line'), i # j
                   PROVE  line'[i] # line'[j]
      OBVIOUS
    <3>2. i + 1 # j + 1
      BY <2>1, <3>1
    <3> QED
      BY <2>1, <2>2, <3>2 DEF LineInv
  <2> QED
    BY <2>6, <2>7 DEF LineInv
<1>5. ASSUME NEW s \in Stream, NEW f, Yield(s, f), stage[s] = "step" PROVE LineInv'
  BY <1>1, <1>2, <1>5 DEF Yield, Waiting
<1>6. ASSUME NEW s \in Stream, Arrive(s) \/ Verified(s) PROVE LineInv'
  BY <1>1, <1>6 DEF Arrive, Verified, Waiting
<1>7. ASSUME NEW s \in Stream, Refused(s) \/ EndResponse(s) PROVE LineInv'
  BY <1>2, <1>7 DEF Refused, EndResponse, Waiting
<1>8. ASSUME NEW s \in Stream, WorkerStep(s) \/ StartWorker(s) \/ DropOther(s)
      PROVE  LineInv'
  BY <1>3, <1>8 DEF WorkerStep, PutEvent, Return, Raise, PutSentinel, StartWorker,
                    DropOther, poolVars
<1>9. ASSUME NEW s \in Stream,
             ChatFails(s) \/ YieldText(s) \/ TakeSentinel(s) \/ YieldStop(s)
      PROVE  LineInv'
  BY <1>5, <1>9 DEF ChatFails, YieldText, TakeSentinel, YieldStop, Taken
<1>10. ASSUME NEW s \in Stream, ConsoleStep(s) \/ LoseConnection(s) \/ Leave(s)
       PROVE  LineInv'
  BY <1>3, <1>10 DEF ConsoleStep, ReadFrame, ReadEnd, LoseConnection, Leave, poolVars
<1>11. CASE UNCHANGED vars
  BY <1>3, <1>11 DEF vars, poolVars
<1> QED
  BY <1>4, <1>6, <1>7, <1>8, <1>9, <1>10, <1>11 DEF Next, GeneratorStep

(* What is kept of a question keeps its part of the invariant, ... *)
LEMMA OkKept ==
  ASSUME NEW s \in Stream, StreamOk(s),
         StageKept(s), RunKept(s), AnswerKept(s)
  PROVE  StreamOk(s)'
BY DEF StreamOk, Flow, StageKept, RunKept, AnswerKept

(* ... and so does a turn of the question to another stage before its end.     *)
LEMMA OkMoved ==
  ASSUME NEW s \in Stream, StreamOk(s), RunKept(s), AnswerKept(s),
         stage[s] \notin {"refused", "over"}, stage'[s] # "over"
  PROVE  StreamOk(s)'
BY DEF StreamOk, Flow, RunKept, AnswerKept

(* The frames a step of the generator sends, and where it goes. *)
LEMMA Yielded ==
  ASSUME TypeOK, NEW s \in Stream, NEW f, Yield(s, f)
  PROVE  /\ console[s] = "reading" =>
              wire'[s] = Append(wire[s], f) /\ stage'[s] = "step?"
         /\ console[s] # "reading" => wire'[s] = wire[s] /\ stage'[s] = "dropped"
BY DEF Yield, TypeOK

(* The worker puts texts and the sentinel in order. *)
LEMMA WorkerOk ==
  ASSUME TypeOK, NEW s \in Stream, StreamOk(s), WorkerStep(s)
  PROVE  StreamOk(s)'
<1> USE FramesAndItems
<1>0. PICK q, n : q = queue[s] /\ n = said[s]
  OBVIOUS
<1>1. q \in Seq(Item) /\ n \in Nat
  BY <1>0 DEF TypeOK
<1>2. StageKept(s) /\ AnswerKept(s)
  BY DEF WorkerStep, PutEvent, Return, Raise, PutSentinel, StageKept, AnswerKept, poolVars
<1>3. worker[s] \in {"running", "ending"} /\ worker'[s] \in {"running", "ending", "done"}
  BY DEF WorkerStep, PutEvent, Return, Raise, PutSentinel, TypeOK
<1>4. ASSUME console[s] = "reading", NEW m \in 0 .. n, Flow(s, m)
      PROVE  \E k \in 0 .. said'[s] : Flow(s, k)'
  <2>1. /\ InQueue(q, m, n) /\ \A i \in 1 .. Len(q) : q[i].kind # "sentinel"
        /\ sse[s] \notin {"stop", "end"}
    BY <1>0, <1>3, <1>4 DEF Flow
  <2>2. PICK x, y, z : x = Text(n + 1) /\ y = Other /\ z = Sentinel
    OBVIOUS
  <2>3. /\ x \in Item /\ y \in Item /\ z \in Item
        /\ y.kind = "other" /\ z.kind = "sentinel"
    BY <1>1, <2>2 DEF Other, Sentinel
  <2>4. \/ /\ queue'[s] = Append(q, x) /\ said'[s] = n + 1 /\ worker'[s] # "done"
        \/ /\ queue'[s] = Append(q, y) /\ said'[s] = n /\ worker'[s] # "done"
        \/ /\ queue'[s] = q /\ said'[s] = n /\ worker'[s] # "done"
        \/ /\ queue'[s] = Append(q, z) /\ said'[s] = n /\ worker'[s] = "done"
    <3>1. ASSUME NEW item \in {Text(said[s] + 1), Other}, PutEvent(s, item)
          PROVE  \/ queue'[s] = Append(q, x) /\ said'[s] = n + 1 /\ worker'[s] # "done"
                 \/ queue'[s] = Append(q, y) /\ said'[s] = n /\ worker'[s] # "done"
      <4>1. Text(said[s] + 1) # Other
        BY DEF Text, Other
      <4> QED
        BY <1>0, <2>2, <3>1, <4>1 DEF PutEvent, TypeOK
    <3>2. CASE Return(s)
      BY <1>0, <3>2 DEF Return, TypeOK
    <3>3. CASE Raise(s)
      BY <1>0, <2>2, <3>3 DEF Raise, TypeOK
    <3>4. CASE PutSentinel(s)
      BY <1>0, <2>2, <3>4 DEF PutSentinel, TypeOK
    <3> QED
      BY <3>1, <3>2, <3>3, <3>4 DEF WorkerStep
  <2>5. PICK u : u = queue'[s]
    OBVIOUS
  <2>6. /\ InQueue(u, m, said'[s]) /\ said'[s] >= n /\ said'[s] \in Nat
        /\ worker'[s] # "done" => \A i \in 1 .. Len(u) : u[i].kind # "sentinel"
    <3>0. m \in Nat /\ m <= n
      BY <1>1
    <3>1. /\ InQueue(Append(q, x), m, n + 1)
          /\ \A i \in 1 .. Len(Append(q, x)) : Append(q, x)[i].kind # "sentinel"
      BY <1>1, <2>1, <2>2, <3>0, PutText
    <3>2. /\ InQueue(Append(q, y), m, n)
          /\ \A i \in 1 .. Len(Append(q, y)) : Append(q, y)[i].kind # "sentinel"
      BY <1>1, <2>1, <2>3, <3>0, PutNoText
    <3>3. InQueue(Append(q, z), m, n)
      BY <1>1, <2>1, <2>3, <3>0, PutNoText
    <3>4. CASE queue'[s] = Append(q, x) /\ said'[s] = n + 1
      BY <1>1, <2>5, <3>1, <3>4
    <3>5. CASE queue'[s] = Append(q, y) /\ said'[s] = n
      BY <1>1, <2>5, <3>2, <3>5
    <3>6. CASE queue'[s] = q /\ said'[s] = n
      BY <1>1, <2>1, <2>5, <3>6
    <3>7. CASE queue'[s] = Append(q, z) /\ said'[s] = n /\ worker'[s] = "done"
      BY <1>1, <2>5, <3>3, <3>7
    <3> QED
      BY <2>4, <3>4, <3>5, <3>6, <3>7
  <2>7. Flow(s, m)'
    BY <1>2, <1>4, <2>1, <2>5, <2>6 DEF Flow, AnswerKept
  <2> QED
    BY <1>1, <2>6, <2>7
<1> QED
  BY <1>0, <1>2, <1>3, <1>4 DEF StreamOk, StageKept, AnswerKept

(* A step that only sends on, with the run as it was. *)
LEMMA StartOk ==
  ASSUME TypeOK, NEW s \in Stream, StreamOk(s), StartWorker(s)
  PROVE  StreamOk(s)'
<1>1. /\ StageKept(s) /\ AnswerKept(s) /\ worker[s] = "none" /\ worker'[s] = "running"
      /\ said'[s] = said[s] /\ queue'[s] = queue[s] /\ sse[s] = "silent"
  BY DEF StartWorker, StageKept, AnswerKept, StreamOk, TypeOK, poolVars
<1> QED
  BY <1>1 DEF StreamOk, Flow, StageKept, AnswerKept

(* Nothing could be started: the error is the one text of the answer. *)
LEMMA ChatFailsOk ==
  ASSUME TypeOK, NEW s \in Stream, StreamOk(s), ChatFails(s)
  PROVE  StreamOk(s)'
<1>1. /\ worker'[s] = "failed" /\ said'[s] = 1 /\ sse'[s] = "stop"
      /\ queue'[s] = << >> /\ console'[s] = console[s] /\ shown'[s] = shown[s]
      /\ said[s] = 0 /\ queue[s] = << >> /\ sse[s] = "silent" /\ stage[s] = "step"
  BY DEF ChatFails, StreamOk, TypeOK
<1>2. PICK f : f = Text(1)
  OBVIOUS
<1>3. /\ console[s] = "reading" => wire'[s] = Append(wire[s], f) /\ stage'[s] = "step?"
      /\ console[s] # "reading" => wire'[s] = wire[s] /\ stage'[s] = "dropped"
  <2>1. Yield(s, f)
    BY <1>2 DEF ChatFails
  <2> QED
    BY <2>1, Yielded
<1>4. ASSUME console[s] = "reading" PROVE Flow(s, 1)'
  <2>1. PICK m \in 0 .. said[s] : Flow(s, m)
    BY <1>4 DEF StreamOk
  <2>2. m = 0
    BY <1>1, <2>1
  <2>3. PICK sh, w : sh = shown[s] /\ w = wire[s]
    OBVIOUS
  <2>4. sh \in Seq(Frame) /\ w \in Seq(Frame) /\ Sent(sh, w, m, "silent")
    BY <1>1, <2>1, <2>2, <2>3 DEF Flow, TypeOK
  <2>5. m \in Nat /\ m + 1 = 1
    BY <2>2
  <2>6. Sent(sh, Append(w, Text(m + 1)), m + 1, "stop")
    BY <2>4, <2>5, SendText
  <2>7. Sent(shown'[s], wire'[s], 1, sse'[s])
    BY <1>1, <1>2, <1>3, <1>4, <2>3, <2>5, <2>6
  <2>8. InQueue(<< >>, 1, 1) /\ Len(<< >>) = 0
    BY DEF InQueue
  <2> QED
    BY <1>1, <2>7, <2>8 DEF Flow
<1> QED
  BY <1>1, <1>3, <1>4 DEF StreamOk

(* The generator drops events, sends the texts and closes the response. *)
LEMMA DropOk ==
  ASSUME TypeOK, NEW s \in Stream, StreamOk(s), DropOther(s)
  PROVE  StreamOk(s)'
<1>1. PICK q, n, u : q = queue[s] /\ n = said[s] /\ u = queue'[s]
  OBVIOUS
<1>2. /\ q \in Seq(Item) /\ n \in Nat /\ q # << >> /\ Head(q) = Other /\ u = Tail(q)
      /\ StageKept(s) /\ AnswerKept(s) /\ worker'[s] = worker[s] /\ said'[s] = n
      /\ worker[s] # "none"
  BY <1>1 DEF DropOther, Taken, StageKept, AnswerKept, StreamOk, TypeOK, poolVars, runVars
<1>3. ASSUME console[s] = "reading", NEW m \in 0 .. n, Flow(s, m) PROVE Flow(s, m)'
  <2>1. InQueue(q, m, n) /\ m \in Nat /\ m <= n /\ Head(q).kind = "other"
    BY <1>1, <1>2, <1>3 DEF Flow, Other
  <2>2. InQueue(u, m, n)
    BY <1>2, <2>1, TakeFirst
  <2>3. worker[s] # "done" => \A i \in 1 .. Len(u) : u[i].kind # "sentinel"
    <3>1. Len(q) \in Nat /\ \A i \in 1 .. Len(u) : u[i] = q[i + 1] /\ i + 1 \in 1 .. Len(q)
      BY <1>2
    <3> QED
      BY <1>1, <1>3, <3>1 DEF Flow
  <2> QED
    BY <1>1, <1>2, <1>3, <2>2, <2>3 DEF Flow, AnswerKept
<1> QED
  BY <1>1, <1>2, <1>3 DEF StreamOk, StageKept, AnswerKept

LEMMA YieldTextOk ==
  ASSUME TypeOK, NEW s \in Stream, StreamOk(s), YieldText(s)
  PROVE  StreamOk(s)'
<1>1. PICK q, n, u : q = queue[s] /\ n = said[s] /\ u = queue'[s]
  OBVIOUS
<1>2. PICK k \in 1 .. n : Taken(s, Text(k)) /\ Yield(s, Text(k))
  BY <1>1 DEF YieldText
<1>3. /\ q \in Seq(Item) /\ n \in Nat /\ q # << >> /\ Head(q) = Text(k) /\ u = Tail(q)
      /\ sse'[s] = "texts" /\ console'[s] = console[s] /\ shown'[s] = shown[s]
      /\ worker'[s] = worker[s] /\ said'[s] = n /\ worker[s] # "none"
      /\ stage[s] = "step"
  BY <1>1, <1>2 DEF YieldText, Taken, StreamOk, TypeOK, runVars
<1>4. PICK f : f = Text(k)
  OBVIOUS
<1>5. /\ console[s] = "reading" => wire'[s] = Append(wire[s], f) /\ stage'[s] = "step?"
      /\ console[s] # "reading" => wire'[s] = wire[s] /\ stage'[s] = "dropped"
  BY <1>2, <1>4, Yielded
<1>6. ASSUME console[s] = "reading", NEW m \in 0 .. n, Flow(s, m)
      PROVE  m + 1 \in 0 .. n /\ Flow(s, m + 1)'
  <2>1. InQueue(q, m, n) /\ sse[s] \notin {"stop", "end"}
    BY <1>1, <1>3, <1>6 DEF Flow
  <2>2. Head(q).kind = "text" /\ Head(q).n = k
    BY <1>3 DEF Text
  <2>3. k = m + 1 /\ m + 1 <= n /\ InQueue(u, m + 1, n)
    BY <1>3, <2>1, <2>2, TakeFirst
  <2>4. worker[s] # "done" => \A i \in 1 .. Len(u) : u[i].kind # "sentinel"
    <3>1. Len(q) \in Nat /\ \A i \in 1 .. Len(u) : u[i] = q[i + 1] /\ i + 1 \in 1 .. Len(q)
      BY <1>3
    <3> QED
      BY <1>1, <1>6, <3>1 DEF Flow
  <2>5. PICK sh, w : sh = shown[s] /\ w = wire[s]
    OBVIOUS
  <2>6. /\ sh \in Seq(Frame) /\ w \in Seq(Frame) /\ m \in Nat
        /\ Sent(sh, w, m, sse[s])
    BY <1>6, <2>1, <2>5 DEF Flow, TypeOK
  <2>7. PICK e : e = sse[s]
    OBVIOUS
  <2>8. Sent(sh, Append(w, Text(m + 1)), m + 1, "texts")
    BY <2>1, <2>6, <2>7, SendText
  <2>9. Sent(shown'[s], wire'[s], m + 1, sse'[s])
    BY <1>3, <1>4, <1>5, <1>6, <2>3, <2>5, <2>8
  <2> QED
    BY <1>1, <1>3, <2>3, <2>4, <2>6, <2>9 DEF Flow
<1> QED
  BY <1>1, <1>3, <1>5, <1>6 DEF StreamOk

LEMMA TakeSentinelOk ==
  ASSUME TypeOK, NEW s \in Stream, StreamOk(s), TakeSentinel(s)
  PROVE  StreamOk(s)'
<1>1. PICK q, n, u : q = queue[s] /\ n = said[s] /\ u = queue'[s]
  OBVIOUS
<1>2. PICK f : f = IF sse[s] = "silent" THEN NoResponse ELSE Stop
  OBVIOUS
<1>3. /\ q \in Seq(Item) /\ n \in Nat /\ q # << >> /\ Head(q) = Sentinel /\ u = Tail(q)
      /\ sse'[s] = (IF sse[s] = "silent" THEN "stop" ELSE "end")
      /\ console'[s] = console[s] /\ shown'[s] = shown[s]
      /\ worker'[s] = worker[s] /\ said'[s] = n /\ worker[s] # "none"
      /\ stage[s] = "step"
  BY <1>1 DEF TakeSentinel, Taken, StreamOk, TypeOK, runVars
<1>4. Yield(s, f)
  BY <1>2 DEF TakeSentinel
<1>5. /\ console[s] = "reading" => wire'[s] = Append(wire[s], f) /\ stage'[s] = "step?"
      /\ console[s] # "reading" => wire'[s] = wire[s] /\ stage'[s] = "dropped"
  BY <1>4, Yielded
<1>6. ASSUME console[s] = "reading", NEW m \in 0 .. n, Flow(s, m) PROVE Flow(s, m)'
  <2>1. InQueue(q, m, n) /\ sse[s] \notin {"stop", "end"}
    BY <1>1, <1>3, <1>6 DEF Flow
  <2>2. m = n /\ u = << >>
    BY <1>3, <2>1, TakeFirst DEF Sentinel
  <2>3. worker[s] = "done"
    <3>1. 1 \in 1 .. Len(q) /\ q[1].kind = "sentinel"
      BY <1>3 DEF Sentinel
    <3> QED
      BY <1>1, <1>6, <3>1 DEF Flow
  <2>4. PICK sh, w : sh = shown[s] /\ w = wire[s]
    OBVIOUS
  <2>5. /\ sh \in Seq(Frame) /\ w \in Seq(Frame) /\ m \in Nat
        /\ Sent(sh, w, m, sse[s])
        /\ m = 0 <=> sse[s] = "silent"
    BY <1>6, <2>1, <2>4 DEF Flow, TypeOK
  <2>6. InQueue(<< >>, m, m)
    BY DEF InQueue
  <2>7. CASE sse[s] = "silent"
    <3>1. sh = << >> /\ w = << >>
      BY <2>5, <2>7 DEF Sent
    <3>2. wire'[s] = <<NoResponse>> /\ shown'[s] = << >> /\ sse'[s] = "stop"
      BY <1>2, <1>3, <1>5, <1>6, <2>4, <2>7, <3>1
    <3>3. NoticeSent(shown'[s], wire'[s], sse'[s])
      BY <3>2 DEF NoticeSent
    <3>4. m = 0
      BY <2>5, <2>7
    <3> QED
      BY <1>1, <1>3, <2>2, <2>3, <2>6, <3>2, <3>3, <3>4 DEF Flow
  <2>8. CASE sse[s] # "silent"
    <3>0. PICK e : e = sse[s]
      OBVIOUS
    <3>1. Sent(sh, Append(w, Stop), m, "end")
      BY <2>1, <2>5, <3>0, SendText
    <3>2. sse'[s] = "end" /\ m # 0
      BY <1>3, <2>5, <2>8
    <3>3. Sent(shown'[s], wire'[s], m, sse'[s])
      BY <1>2, <1>3, <1>5, <1>6, <2>4, <2>8, <3>1, <3>2
    <3> QED
      BY <1>1, <1>3, <2>2, <2>3, <2>6, <3>2, <3>3 DEF Flow
  <2> QED
    BY <2>7, <2>8
<1> QED
  BY <1>1, <1>3, <1>5, <1>6 DEF StreamOk

LEMMA YieldStopOk ==
  ASSUME TypeOK, NEW s \in Stream, StreamOk(s), YieldStop(s)
  PROVE  StreamOk(s)'
<1>1. /\ sse[s] = "stop" /\ sse'[s] = "end" /\ console'[s] = console[s]
      /\ shown'[s] = shown[s] /\ queue'[s] = queue[s]
      /\ worker'[s] = worker[s] /\ said'[s] = said[s] /\ worker[s] # "none"
      /\ stage[s] = "step" /\ Yield(s, Stop)
  BY DEF YieldStop, StreamOk, TypeOK, runVars
<1>2. /\ console[s] = "reading" => wire'[s] = Append(wire[s], Stop) /\ stage'[s] = "step?"
      /\ console[s] # "reading" => wire'[s] = wire[s] /\ stage'[s] = "dropped"
  BY <1>1, Yielded
<1>3. ASSUME console[s] = "reading", NEW m \in 0 .. said[s], Flow(s, m) PROVE Flow(s, m)'
  <2>1. PICK sh, w : sh = shown[s] /\ w = wire[s]
    OBVIOUS
  <2>2. sh \in Seq(Frame) /\ w \in Seq(Frame) /\ m \in Nat
    BY <1>1, <2>1 DEF TypeOK
  <2>3. CASE Sent(shown[s], wire[s], m, sse[s]) /\ (m = 0 <=> sse[s] = "silent")
    <3>1. Sent(sh, w, m, "stop")
      BY <1>1, <2>1, <2>3
    <3>2. Sent(sh, Append(w, Stop), m, "end")
      BY <2>2, <3>1, SendText
    <3>3. Sent(shown'[s], wire'[s], m, sse'[s]) /\ m # 0
      BY <1>1, <1>2, <1>3, <2>1, <2>2, <2>3, <3>2
    <3> QED
      BY <1>1, <1>3, <3>3 DEF Flow
  <2>4. CASE NoticeSent(shown[s], wire[s], sse[s]) /\ m = 0
    <3>1. \/ shown[s] = << >> /\ wire[s] = <<NoResponse>>
          \/ shown[s] = <<NoResponse>> /\ wire[s] = << >>
      BY <1>1, <2>4 DEF NoticeSent
    <3>2. /\ Append(<<NoResponse>>, Stop) = <<NoResponse, Stop>>
          /\ Append(<< >>, Stop) = <<Stop>>
      <4>1. PICK f \in Frame, g \in Frame : f = NoResponse /\ g = Stop
        BY FramesAndItems
      <4>2. Append(<<f>>, g) = <<f, g>> /\ Append(<< >>, g) = <<g>>
        BY AppendToOne
      <4> QED
        BY <4>1, <4>2
    <3>3. NoticeSent(shown'[s], wire'[s], sse'[s])
      BY <1>1, <1>2, <1>3, <3>1, <3>2 DEF NoticeSent
    <3> QED
      BY <1>1, <1>3, <2>4, <3>3 DEF Flow
  <2> QED
    BY <1>3, <2>3, <2>4 DEF Flow
<1> QED
  BY <1>1, <1>2, <1>3 DEF StreamOk

LEMMA EndOk ==
  ASSUME TypeOK, NEW s \in Stream, StreamOk(s), EndResponse(s)
  PROVE  StreamOk(s)'
<1>1. /\ RunKept(s) /\ AnswerKept(s) /\ sse[s] = "end" /\ stage[s] = "step"
      /\ stage'[s] = "over"
  BY DEF EndResponse, RunKept, AnswerKept, TypeOK, runVars
<1> QED
  BY <1>1 DEF StreamOk, Flow, RunKept, AnswerKept

(* The console reads what is on the wire. *)
LEMMA ReadOk ==
  ASSUME TypeOK, NEW s \in Stream, StreamOk(s), ReadFrame(s)
  PROVE  StreamOk(s)'
<1>1. PICK sh, w, x : sh = shown[s] /\ w = wire[s] /\ x = Head(w)
  OBVIOUS
<1>2. /\ sh \in Seq(Frame) /\ w \in Seq(Frame) /\ w # << >> /\ wire'[s] = Tail(w)
      /\ shown'[s] = (IF x.kind \in {"text", "none"} THEN Append(sh, x) ELSE sh)
      /\ StageKept(s) /\ RunKept(s) /\ sse'[s] = sse[s]
      /\ console[s] = "reading" /\ console'[s] = "reading"
  BY <1>1 DEF ReadFrame, StageKept, RunKept, TypeOK, poolVars, runVars
<1>3. PICK m \in 0 .. said[s] : Flow(s, m)
  BY <1>2 DEF StreamOk
<1>4. m \in Nat
  BY <1>3 DEF TypeOK
<1>5. CASE Sent(shown[s], wire[s], m, sse[s]) /\ (m = 0 <=> sse[s] = "silent")
  <2>1. PICK e : e = sse[s]
    OBVIOUS
  <2>2. Sent(sh, w, m, e)
    BY <1>1, <1>5, <2>1
  <2>3. \/ /\ x = Text(Len(sh) + 1) /\ Len(sh) + 1 <= m
           /\ Sent(Append(sh, x), Tail(w), m, e)
        \/ x = Stop /\ Len(sh) = m /\ Sent(sh, Tail(w), m, e)
    BY <1>1, <1>2, <1>4, <2>2, ReadText
  <2>4. Sent(shown'[s], wire'[s], m, e)
    <3>1. CASE x = Text(Len(sh) + 1) /\ Sent(Append(sh, x), Tail(w), m, e)
      <4>1. x.kind = "text"
        BY <3>1 DEF Text
      <4> QED
        BY <1>2, <3>1, <4>1
    <3>2. CASE x = Stop /\ Sent(sh, Tail(w), m, e)
      <4>1. x.kind = "stop"
        BY <3>2 DEF Stop
      <4> QED
        BY <1>2, <3>2, <4>1
    <3> QED
      BY <2>3, <3>1, <3>2
  <2>5. Flow(s, m)'
    BY <1>2, <1>3, <1>5, <2>1, <2>4 DEF Flow, RunKept
  <2> QED
    BY <1>2, <1>3, <2>5 DEF StreamOk, StageKept, RunKept
<1>6. CASE NoticeSent(shown[s], wire[s], sse[s]) /\ m = 0 /\ sse[s] \in {"stop", "end"}
  <2>1. /\ NoResponse.kind = "none" /\ Stop.kind = "stop"
        /\ NoResponse \in Frame /\ Stop \in Frame
    BY FramesAndItems DEF NoResponse, Stop
  <2>2. PICK f \in Frame, g \in Frame : f = NoResponse /\ g = Stop
    BY <2>1
  <2>3. /\ Head(<<f>>) = f /\ Tail(<<f>>) = << >> /\ Append(<< >>, f) = <<f>>
        /\ Head(<<f, g>>) = f /\ Tail(<<f, g>>) = <<g>>
        /\ Head(<<g>>) = g /\ Tail(<<g>>) = << >>
    OBVIOUS
  <2>4. NoticeSent(shown'[s], wire'[s], sse'[s])
    <3>1. CASE sh = << >> /\ w = <<f>>
      <4>1. x = f /\ wire'[s] = << >> /\ shown'[s] = <<f>>
        BY <1>1, <1>2, <2>1, <2>2, <2>3, <3>1
      <4> QED
        BY <2>2, <4>1 DEF NoticeSent
    <3>2. CASE sh = << >> /\ w = <<f, g>> /\ sse[s] = "end"
      <4>1. x = f /\ wire'[s] = <<g>> /\ shown'[s] = <<f>> /\ sse'[s] = "end"
        BY <1>1, <1>2, <2>1, <2>2, <2>3, <3>2
      <4> QED
        BY <2>2, <4>1 DEF NoticeSent
    <3>3. CASE sh = <<f>> /\ w = <<g>>
      <4>1. x = g /\ wire'[s] = << >> /\ shown'[s] = <<f>>
        BY <1>1, <1>2, <2>1, <2>2, <2>3, <3>3
      <4> QED
        BY <2>2, <4>1 DEF NoticeSent
    <3> QED
      BY <1>1, <1>2, <1>6, <2>2, <3>1, <3>2, <3>3 DEF NoticeSent
  <2>5. Flow(s, m)'
    BY <1>2, <1>3, <1>6, <2>4 DEF Flow, RunKept
  <2> QED
    BY <1>2, <1>3, <2>5 DEF StreamOk, StageKept, RunKept
<1> QED
  BY <1>3, <1>5, <1>6 DEF Flow

(* The console has its end, or reads no more. *)
LEMMA ConsoleEndsOk ==
  ASSUME TypeOK, NEW s \in Stream, StreamOk(s),
         ReadEnd(s) \/ LoseConnection(s) \/ Leave(s)
  PROVE  StreamOk(s)'
<1>1. /\ StageKept(s) /\ RunKept(s) /\ sse'[s] = sse[s] /\ console'[s] # "reading"
      /\ console'[s] = "answered" => stage[s] \in {"refused", "over"}
  BY DEF ReadEnd, LoseConnection, Leave, StageKept, RunKept, TypeOK, poolVars, runVars
<1> QED
  BY <1>1 DEF StreamOk, StageKept, RunKept

(* So every step keeps the answers of all questions in order.                 *)
LEMMA StreamsKept == TypeOK /\ LineInv /\ StreamInv /\ [Next]_vars => StreamInv'
<1> SUFFICES ASSUME TypeOK, LineInv, StreamInv, [Next]_vars, NEW s \in Stream
             PROVE  StreamOk(s)'
  BY DEF StreamInv
<1>0. StreamOk(s)
  BY DEF StreamInv
<1>1. ASSUME StepOf(s) PROVE StreamOk(s)'
  <2>1. CASE Arrive(s) \/ Verified(s) \/ Refused(s)
    <3>1. /\ RunKept(s) /\ AnswerKept(s) /\ stage[s] \in {"new", "verify"}
          /\ stage'[s] # "over"
      BY <2>1 DEF Arrive, Verified, Refused, RunKept, AnswerKept, TypeOK, runVars
    <3> QED
      BY <1>0, <3>1, OkMoved
  <2> QED
    BY <1>0, <1>1, <2>1, WorkerOk, StartOk, ChatFailsOk, DropOk, YieldTextOk,
       TakeSentinelOk, YieldStopOk, EndOk, ReadOk, ConsoleEndsOk
       DEF StepOf, GeneratorStep, ConsoleStep
<1>2. ASSUME NEW r \in Stream, StepOf(r) PROVE StreamOk(s)'
  BY <1>0, <1>1, <1>2, OthersKept, OkKept
<1>3. CASE Admit
  <2>1. PICK r \in Stream : r = Head(line) /\ stage[r] \in Waiting
    <3>1. line \in Seq(Stream) /\ line # << >>
      BY <1>3 DEF Admit, TypeOK
    <3>2. Head(line) = line[1] /\ 1 \in 1 .. Len(line) /\ line[1] \in Stream
      BY <3>1
    <3> QED
      BY <3>2 DEF LineInv
  <2>2. RunKept(s) /\ AnswerKept(s)
    BY <1>3 DEF Admit, RunKept, AnswerKept, runVars
  <2>3. CASE s = r
    <3>1. stage[s] \in {"verify?", "step?"} /\ stage'[s] \in {"verify", "step"}
      BY <1>3, <2>1, <2>3 DEF Admit, TypeOK, Waiting
    <3> QED
      BY <1>0, <2>2, <3>1, OkMoved
  <2>4. CASE s # r
    <3>1. StageKept(s)
      BY <1>3, <2>1, <2>4 DEF Admit, StageKept, TypeOK
    <3> QED
      BY <1>0, <2>2, <3>1, OkKept
  <2> QED
    BY <2>3, <2>4
<1>4. CASE UNCHANGED vars
  <2>1. StageKept(s) /\ RunKept(s) /\ AnswerKept(s)
    BY <1>4 DEF vars, poolVars, runVars, StageKept, RunKept, AnswerKept
  <2> QED
    BY <1>0, <2>1, OkKept
<1> QED
  BY <1>2, <1>3, <1>4 DEF Next, StepOf

LEMMA StreamsHold == Spec => [](LineInv /\ StreamInv)
<1>1. Init => LineInv /\ StreamInv
  <2> SUFFICES ASSUME Init PROVE LineInv /\ StreamInv
    OBVIOUS
  <2>1. LineInv
    BY DEF Init, LineInv
  <2>2. ASSUME NEW s \in Stream PROVE StreamOk(s)
    <3>1. 0 \in 0 .. 0 /\ Len(<< >>) = 0
      OBVIOUS
    <3>2. InQueue(<< >>, 0, 0)
      BY DEF InQueue
    <3>3. Sent(<< >>, << >>, 0, "silent")
      <4>1. \A w : Len(w) = 0 => Sent(w, w, 0, "silent")
        BY DEF Sent
      <4> QED
        BY <3>1, <4>1
    <3>4. /\ queue[s] = << >> /\ wire[s] = << >> /\ shown[s] = << >> /\ said[s] = 0
          /\ sse[s] = "silent" /\ worker[s] = "none" /\ stage[s] = "new"
          /\ console[s] = "reading"
      BY DEF Init
    <3>5. Flow(s, 0)
      BY <3>1, <3>2, <3>3, <3>4 DEF Flow
    <3> QED
      BY <3>1, <3>4, <3>5 DEF StreamOk
  <2> QED
    BY <2>1, <2>2 DEF StreamInv
<1> QED
  BY <1>1, LineKept, StreamsKept, TypeCorrect, PTL DEF Spec

-----------------------------------------------------------------------------
(* A response that ends undisturbed has said something, if only that there is *)
(* no answer; and so has one whose connection was lost: for any number of     *)
(* questions and events and any size of the pool.                             *)
THEOREM NeverLeftSilent == Spec => []NeverSilent
<1>1. Init => NeverSilent
  BY DEF Init, NeverSilent
<1>2. /\ TypeOK /\ LineInv /\ StreamInv /\ NeverSilent /\ [Next]_vars
      => NeverSilent'
  <2> SUFFICES ASSUME TypeOK, LineInv, StreamInv, NeverSilent, [Next]_vars,
                      NEW s \in Stream,
                      \/ console'[s] = "answered" /\ stage'[s] = "over"
                      \/ console'[s] = "lost"
               PROVE  shown'[s] # << >>
    BY DEF NeverSilent
  <2>0. StreamOk(s)
    BY DEF StreamInv
  <2>1. ASSUME console'[s] = console[s], shown'[s] = shown[s],
               console[s] = "answered" => stage'[s] = stage[s]
        PROVE  shown'[s] # << >>
    BY <2>1 DEF NeverSilent
  <2>2. CASE ReadEnd(s)
    <3>1. /\ console[s] = "reading" /\ wire[s] = << >> /\ stage[s] = "over"
          /\ shown'[s] = shown[s]
      BY <2>2 DEF ReadEnd, TypeOK, poolVars
    <3>2. PICK m \in 0 .. said[s] : Flow(s, m)
      BY <2>0, <3>1 DEF StreamOk
    <3>3. sse[s] = "end"
      BY <2>0, <3>1 DEF StreamOk
    <3>4. CASE Sent(shown[s], wire[s], m, sse[s]) /\ (m = 0 <=> sse[s] = "silent")
      <4>1. m \in Nat /\ m # 0 /\ Len(wire[s]) = 0 /\ Len(shown[s]) \in Nat
        BY <3>1, <3>2, <3>3, <3>4 DEF TypeOK
      <4>2. Len(shown[s]) = m
        BY <4>1, <3>4 DEF Sent
      <4> QED
        BY <3>1, <4>1, <4>2
    <3>5. CASE NoticeSent(shown[s], wire[s], sse[s])
      <4>1. /\ <<NoResponse>> # << >> /\ <<Stop>> # << >>
            /\ <<NoResponse, Stop>> # << >>
        OBVIOUS
      <4> QED
        BY <3>1, <3>5, <4>1 DEF NoticeSent
    <3> QED
      BY <3>2, <3>4, <3>5 DEF Flow
  <2>3. CASE LoseConnection(s)
    BY <2>3 DEF LoseConnection, TypeOK
  <2>4. CASE Leave(s)
    BY <2>4 DEF Leave, TypeOK
  <2>5. CASE ReadFrame(s)
    BY <2>5 DEF ReadFrame, TypeOK
  <2>6. CASE WorkerStep(s) \/ StartWorker(s) \/ DropOther(s)
    BY <2>1, <2>6 DEF WorkerStep, PutEvent, Return, Raise, PutSentinel, StartWorker,
                      DropOther, poolVars
  <2>7. CASE \/ Arrive(s) \/ Verified(s) \/ Refused(s)
             \/ ChatFails(s) \/ YieldText(s) \/ TakeSentinel(s) \/ YieldStop(s)
             \/ EndResponse(s)
    <3>1. /\ console'[s] = console[s] /\ shown'[s] = shown[s]
          /\ stage[s] \in {"new", "verify", "step"}
      BY <2>7 DEF Arrive, Verified, Refused, ChatFails, YieldText, TakeSentinel,
                  YieldStop, EndResponse, Taken
    <3> QED
      BY <2>0, <2>1, <3>1 DEF StreamOk
  <2>8. ASSUME NEW r \in Stream, StepOf(r), s # r PROVE shown'[s] # << >>
    <3>1. StageKept(s) /\ AnswerKept(s)
      BY <2>8, OthersKept
    <3> QED
      BY <2>1, <3>1 DEF StageKept, AnswerKept
  <2>9. CASE Admit
    <3>1. console' = console /\ shown' = shown
      BY <2>9 DEF Admit
    <3>2. PICK r \in Stream : r = Head(line) /\ stage[r] \in Waiting
      <4>1. line \in Seq(Stream) /\ line # << >>
        BY <2>9 DEF Admit, TypeOK
      <4>2. Head(line) = line[1] /\ 1 \in 1 .. Len(line) /\ line[1] \in Stream
        BY <4>1
      <4> QED
        BY <4>2 DEF LineInv
    <3>3. console[s] = "answered" => s # r
      BY <2>0, <3>2 DEF StreamOk, Waiting
    <3>4. s # r => stage'[s] = stage[s]
      BY <2>9, <3>2 DEF Admit, TypeOK
    <3> QED
      BY <2>1, <3>1, <3>3, <3>4
  <2>10. CASE UNCHANGED vars
    BY <2>1, <2>10 DEF vars, poolVars
  <2> QED
    BY <2>2, <2>3, <2>4, <2>5, <2>6, <2>7, <2>8, <2>9, <2>10
       DEF Next, StepOf, GeneratorStep, ConsoleStep
<1> QED
  BY <1>1, <1>2, TypeCorrect, StreamsHold, PTL DEF Spec

-----------------------------------------------------------------------------
(* Texts are shown by number, and a notice is no text.                        *)
LEMMA TextsOf ==
  /\ Texts(<< >>) = << >>
  /\ Texts(<<NoResponse>>) = << >>
  /\ Texts(<<Unavailable>>) = << >>
<1>1. << >> # <<NoResponse>> /\ << >> # <<Unavailable>>
  OBVIOUS
<1>2. [k \in DOMAIN << >> |-> << >>[k].n] = << >>
  OBVIOUS
<1> QED
  BY <1>1, <1>2 DEF Texts

LEMMA TextsInOrder ==
  ASSUME NEW sh \in Seq(Frame), \A i \in 1 .. Len(sh) : sh[i] = Text(i)
  PROVE  /\ Texts(sh) \in Seq(Nat) /\ Len(Texts(sh)) = Len(sh)
         /\ Texts(Append(sh, Text(Len(sh) + 1)))
              = Append(Texts(sh), Len(Texts(sh)) + 1)
<1>1. ASSUME NEW u \in Seq(Frame), \A i \in 1 .. Len(u) : u[i] = Text(i)
      PROVE  /\ Texts(u) \in Seq(Nat) /\ Len(Texts(u)) = Len(u)
             /\ \A i \in 1 .. Len(u) : Texts(u)[i] = i
  <2>1. u \notin {<<NoResponse>>, <<Unavailable>>}
    <3>1. /\ <<NoResponse>>[1] = NoResponse /\ <<Unavailable>>[1] = Unavailable
          /\ Len(<<NoResponse>>) = 1 /\ Len(<<Unavailable>>) = 1
      OBVIOUS
    <3>2. 1 <= Len(u) => u[1] = Text(1)
      BY <1>1
    <3>3. Text(1) # NoResponse /\ Text(1) # Unavailable
      BY DEF Text, NoResponse, Unavailable
    <3>4. PICK v : v = <<NoResponse>>
      OBVIOUS
    <3>5. PICK w : w = <<Unavailable>>
      OBVIOUS
    <3>6. u # v /\ u # w
      BY <3>1, <3>2, <3>3, <3>4, <3>5, SMTT(20)
    <3> QED
      BY <3>4, <3>5, <3>6
  <2>2. Texts(u) = [k \in 1 .. Len(u) |-> u[k].n]
    <3>1. Texts(u) = [k \in DOMAIN u |-> u[k].n]
      BY <2>1, Zenon DEF Texts
    <3>2. DOMAIN u = 1 .. Len(u)
      OBVIOUS
    <3> QED
      BY <3>1, <3>2
  <2>3. \A k \in 1 .. Len(u) : u[k].n = k
    <3> SUFFICES ASSUME NEW k \in 1 .. Len(u) PROVE u[k].n = k
      OBVIOUS
    <3>1. u[k] = Text(k)
      BY <1>1
    <3>2. Text(k).n = k
      BY DEF Text
    <3> QED
      BY <3>1, <3>2
  <2>4. Len(u) \in Nat
    OBVIOUS
  <2> QED
    BY <2>2, <2>3, <2>4
<1>2. PICK x \in Frame : x = Text(Len(sh) + 1)
  <2>1. Len(sh) + 1 \in Nat
    OBVIOUS
  <2> QED
    BY <2>1, FramesAndItems
<1>3. PICK u : u = Append(sh, x)
  OBVIOUS
<1>4. /\ u \in Seq(Frame) /\ Len(u) = Len(sh) + 1 /\ u[Len(sh) + 1] = x
      /\ Len(sh) \in Nat /\ \A i \in 1 .. Len(sh) : u[i] = sh[i]
  BY <1>3
<1>5. \A i \in 1 .. Len(u) : u[i] = Text(i)
  BY <1>2, <1>4
<1>6. PICK t, v : t = Texts(sh) /\ v = Texts(u)
  OBVIOUS
<1>7. /\ t \in Seq(Nat) /\ Len(t) = Len(sh) /\ \A i \in 1 .. Len(sh) : t[i] = i
      /\ v \in Seq(Nat) /\ Len(v) = Len(sh) + 1 /\ \A i \in 1 .. Len(u) : v[i] = i
  BY <1>1, <1>4, <1>5, <1>6
<1>8. PICK z : z = Append(t, Len(t) + 1)
  OBVIOUS
<1>9. /\ z \in Seq(Nat) /\ Len(z) = Len(sh) + 1 /\ z[Len(sh) + 1] = Len(sh) + 1
      /\ \A i \in 1 .. Len(sh) : z[i] = t[i]
  BY <1>4, <1>7, <1>8
<1>10. \A i \in 1 .. Len(v) : v[i] = z[i]
  BY <1>4, <1>7, <1>9, SMTT(20)
<1>11. v = z
  BY <1>7, <1>9, <1>10, SeqEqual
<1> QED
  BY <1>2, <1>3, <1>6, <1>7, <1>8, <1>11

(* The answer of a question as the channel sees it, of which a step changes   *)
(* what is not kept.                                                          *)
SpokenOf(s) == worker[s] \in {"ending", "done", "failed"}
OutcomeOf(s) ==
  IF console[s] = "reading" THEN "open"
  ELSE IF console[s] = "answered" /\ stage[s] = "over" THEN "whole"
  ELSE "broken"

LEMMA Seen ==
  /\ Spoken = [s \in Stream |-> SpokenOf(s)]
  /\ Outcome = [s \in Stream |-> OutcomeOf(s)]
  /\ TextsShown = [s \in Stream |-> Texts(shown[s])]
BY DEF Spoken, Outcome, TextsShown, SpokenOf, OutcomeOf

(* A step that changes neither what is said nor what is seen is no step of    *)
(* the channel.                                                               *)
LEMMA Stutter ==
  ASSUME said' = said,
         \A s \in Stream : /\ SpokenOf(s)' = SpokenOf(s)
                           /\ OutcomeOf(s)' = OutcomeOf(s)
                           /\ Texts(shown'[s]) = Texts(shown[s])
  PROVE  UNCHANGED Answer!vars
<1>1. Spoken' = Spoken
  BY DEF Spoken, SpokenOf
<1>2. Outcome' = Outcome
  BY DEF Outcome, OutcomeOf
<1>3. TextsShown' = TextsShown
  BY DEF TextsShown
<1> QED
  BY <1>1, <1>2, <1>3 DEF Answer!vars

(* What the steps that are seen do to the answer.  The worker says ...         *)
LEMMA SayStep ==
  ASSUME TypeOK, StreamInv, NEW s \in Stream, WorkerStep(s)
  PROVE  [Answer!Next]_(Answer!vars)
<1>1. /\ console' = console /\ stage' = stage /\ shown' = shown
      /\ TextsShown' = TextsShown /\ Outcome' = Outcome
  BY DEF WorkerStep, PutEvent, Return, Raise, PutSentinel, poolVars, TextsShown, Outcome
<1>2. /\ Spoken \in [Stream -> BOOLEAN] /\ Spoken' \in [Stream -> BOOLEAN]
      /\ \A r \in Stream : /\ Spoken[r] = SpokenOf(r)
                           /\ Spoken'[r] = SpokenOf(r)'
  BY DEF Spoken, SpokenOf
<1>3. ASSUME worker[s] = "running", said' = [said EXCEPT ![s] = said[s] + 1],
             \/ worker' = worker
             \/ worker' = [worker EXCEPT ![s] = "ending"]
      PROVE  Answer!Next
  <2>1. ~Spoken[s]
    BY <1>2, <1>3 DEF SpokenOf
  <2>2. CASE worker' = worker
    <3>1. Spoken' = Spoken
      BY <2>2 DEF Spoken
    <3>2. Answer!Say(s)
      BY <1>1, <1>3, <2>1, <3>1 DEF Answer!Say
    <3> QED
      BY <3>2 DEF Answer!Next
  <2>3. CASE worker' = [worker EXCEPT ![s] = "ending"]
    <3>1. SpokenOf(s)' /\ \A r \in Stream : r # s => SpokenOf(r)' = SpokenOf(r)
      BY <2>3 DEF SpokenOf, TypeOK
    <3>2. Spoken' = [Spoken EXCEPT ![s] = TRUE]
      BY <1>2, <3>1
    <3>3. Answer!Say(s)
      BY <1>1, <1>3, <2>1, <3>2 DEF Answer!Say
    <3> QED
      BY <3>3 DEF Answer!Next
  <2> QED
    BY <1>3, <2>2, <2>3
<1>4. ASSUME said' = said, worker' = [worker EXCEPT ![s] = "ending"]
      PROVE  Answer!Next
  <2>1. SpokenOf(s)' /\ \A r \in Stream : r # s => SpokenOf(r)' = SpokenOf(r)
    BY <1>4 DEF SpokenOf, TypeOK
  <2>2. Spoken' = [Spoken EXCEPT ![s] = TRUE]
    BY <1>2, <2>1
  <2>3. Answer!FallSilent(s)
    BY <1>1, <1>4, <2>2 DEF Answer!FallSilent
  <2> QED
    BY <2>3 DEF Answer!Next
<1>5. ASSUME said' = said, \A r \in Stream : SpokenOf(r)' = SpokenOf(r)
      PROVE  UNCHANGED Answer!vars
  BY <1>1, <1>5, Stutter DEF OutcomeOf
<1>6. CASE Return(s)
  BY <1>4, <1>6 DEF Return
<1>7. CASE Raise(s)
  BY <1>3, <1>7 DEF Raise
<1>8. CASE PutSentinel(s)
  <2>1. said' = said /\ worker[s] = "ending" /\ worker' = [worker EXCEPT ![s] = "done"]
    BY <1>8 DEF PutSentinel
  <2>2. \A r \in Stream : SpokenOf(r)' = SpokenOf(r)
    BY <2>1 DEF SpokenOf, TypeOK
  <2> QED
    BY <1>5, <2>1, <2>2
<1>9. ASSUME NEW item \in {Text(said[s] + 1), Other}, PutEvent(s, item)
      PROVE  [Answer!Next]_(Answer!vars)
  <2>1. /\ worker[s] = "running" /\ worker' = worker
        /\ said' = [said EXCEPT ![s] = IF item = Other THEN said[s] ELSE said[s] + 1]
    BY <1>9 DEF PutEvent
  <2>2. CASE item = Other
    <3>1. said' = said
      BY <2>1, <2>2 DEF TypeOK
    <3> QED
      BY <1>5, <2>1, <3>1 DEF SpokenOf
  <2>3. CASE item # Other
    BY <1>3, <2>1, <2>3
  <2> QED
    BY <2>2, <2>3
<1> QED
  BY <1>6, <1>7, <1>8, <1>9 DEF WorkerStep

(* ... or the error is the only text, if nothing could be started.            *)
LEMMA FailStep ==
  ASSUME TypeOK, StreamInv, NEW s \in Stream, ChatFails(s)
  PROVE  Answer!Next
<1>0. StreamOk(s)
  BY DEF StreamInv
<1>1. /\ worker[s] = "none" /\ worker' = [worker EXCEPT ![s] = "failed"]
      /\ said[s] = 0 /\ said' = [said EXCEPT ![s] = 1]
      /\ stage[s] = "step" /\ console' = console /\ shown' = shown
  BY <1>0 DEF ChatFails, StreamOk
<1>2. TextsShown' = TextsShown
  BY <1>1 DEF TextsShown
<1>3. Outcome' = Outcome
  <2>1. \A r \in Stream : r # s => stage'[r] = stage[r]
    BY OthersKept DEF StepOf, GeneratorStep, StageKept
  <2>2. console[s] # "answered"
    BY <1>0, <1>1 DEF StreamOk
  <2>3. \A r \in Stream : OutcomeOf(r)' = OutcomeOf(r)
    BY <1>1, <2>1, <2>2 DEF OutcomeOf
  <2> QED
    BY <2>3 DEF Outcome, OutcomeOf
<1>4. ~Spoken[s] /\ Spoken' = [Spoken EXCEPT ![s] = TRUE]
  <2>1. /\ ~SpokenOf(s) /\ SpokenOf(s)'
        /\ \A r \in Stream : r # s => SpokenOf(r)' = SpokenOf(r)
    BY <1>1 DEF SpokenOf, TypeOK
  <2>2. /\ Spoken \in [Stream -> BOOLEAN] /\ Spoken' \in [Stream -> BOOLEAN]
        /\ \A r \in Stream : /\ Spoken[r] = SpokenOf(r)
                             /\ Spoken'[r] = SpokenOf(r)'
    BY DEF Spoken, SpokenOf
  <2> QED
    BY <2>1, <2>2
<1>5. said' = [said EXCEPT ![s] = said[s] + 1]
  BY <1>1
<1>6. Answer!Say(s)
  BY <1>2, <1>3, <1>4, <1>5 DEF Answer!Say
<1> QED
  BY <1>6 DEF Answer!Next

(* A step of the pool or the generator is not seen.                           *)
LEMMA HiddenStep ==
  ASSUME TypeOK, StreamInv, LineInv,
         \/ Admit
         \/ \E s \in Stream :
              \/ Arrive(s) \/ Verified(s) \/ Refused(s) \/ StartWorker(s)
              \/ DropOther(s) \/ YieldText(s) \/ TakeSentinel(s) \/ YieldStop(s)
              \/ EndResponse(s)
  PROVE  UNCHANGED Answer!vars
<1>1. said' = said /\ console' = console /\ shown' = shown
  BY DEF Admit, Arrive, Verified, Refused, StartWorker, DropOther, YieldText,
         TakeSentinel, YieldStop, EndResponse, runVars
<1>2. \A r \in Stream : SpokenOf(r)' = SpokenOf(r)
  <2>1. CASE worker' = worker
    BY <2>1 DEF SpokenOf
  <2>2. ASSUME NEW s \in Stream, StartWorker(s)
        PROVE  \A r \in Stream : SpokenOf(r)' = SpokenOf(r)
    BY <2>2 DEF StartWorker, SpokenOf, TypeOK
  <2> QED
    BY <2>1, <2>2 DEF Admit, Arrive, Verified, Refused, DropOther, YieldText,
                      TakeSentinel, YieldStop, EndResponse, runVars
<1>3. \A r \in Stream : console[r] = "answered" => stage'[r] = stage[r]
  <2>1. SUFFICES ASSUME NEW r \in Stream, console[r] = "answered"
                 PROVE  stage'[r] = stage[r]
    OBVIOUS
  <2>2. stage[r] \in {"refused", "over"}
    BY <2>1 DEF StreamInv, StreamOk
  <2>3. CASE Admit
    <3>1. line \in Seq(Stream) /\ line # << >>
      BY <2>3 DEF Admit, TypeOK
    <3>2. Head(line) = line[1] /\ 1 \in 1 .. Len(line)
      BY <3>1
    <3>3. stage[Head(line)] \in Waiting
      BY <3>2 DEF LineInv
    <3>4. r # Head(line)
      BY <2>2, <3>3 DEF Waiting
    <3> QED
      BY <2>3, <3>4 DEF Admit, TypeOK
  <2>4. ASSUME NEW s \in Stream,
               \/ Arrive(s) \/ Verified(s) \/ Refused(s) \/ StartWorker(s)
               \/ DropOther(s) \/ YieldText(s) \/ TakeSentinel(s) \/ YieldStop(s)
               \/ EndResponse(s)
        PROVE  stage'[r] = stage[r]
    <3>1. stage[s] \in {"new", "verify", "step"}
      BY <2>4 DEF Arrive, Verified, Refused, StartWorker, DropOther, YieldText,
                  TakeSentinel, YieldStop, EndResponse, Taken
    <3>2. r # s
      BY <2>2, <3>1
    <3>3. StepOf(s)
      BY <2>4 DEF StepOf, GeneratorStep
    <3> QED
      BY <3>2, <3>3, OthersKept DEF StageKept
  <2> QED
    BY <2>3, <2>4
<1>4. \A r \in Stream : OutcomeOf(r)' = OutcomeOf(r)
  BY <1>1, <1>3 DEF OutcomeOf
<1> QED
  BY <1>1, <1>2, <1>4, Stutter

(* The console shows the next text, ...                                       *)
LEMMA ShowStep ==
  ASSUME TypeOK, StreamInv, NEW s \in Stream, ReadFrame(s)
  PROVE  [Answer!Next]_(Answer!vars)
<1>1. PICK sh, w, x : sh = shown[s] /\ w = wire[s] /\ x = Head(w)
  OBVIOUS
<1>2. /\ sh \in Seq(Frame) /\ w \in Seq(Frame) /\ w # << >>
      /\ shown' = (IF x.kind \in {"text", "none"}
                   THEN [shown EXCEPT ![s] = Append(sh, x)] ELSE shown)
      /\ console[s] = "reading" /\ console' = console /\ stage' = stage
      /\ worker' = worker /\ said' = said
  BY <1>1 DEF ReadFrame, TypeOK, poolVars, runVars
<1>3. Spoken' = Spoken /\ Outcome' = Outcome
  BY <1>2 DEF Spoken, Outcome
<1>4. PICK m \in 0 .. said[s] : Flow(s, m)
  BY <1>2 DEF StreamInv, StreamOk
<1>5. m \in Nat /\ said[s] \in Nat
  BY <1>4 DEF TypeOK
<1>6. ASSUME \A r \in Stream : Texts(shown'[r]) = Texts(shown[r])
      PROVE  UNCHANGED Answer!vars
  <2>1. TextsShown' = TextsShown
    BY <1>6 DEF TextsShown
  <2> QED
    BY <1>2, <1>3, <2>1 DEF Answer!vars
<1>7. CASE Sent(shown[s], wire[s], m, sse[s])
  <2>1. PICK e : e = sse[s]
    OBVIOUS
  <2>2. Sent(sh, w, m, e)
    BY <1>1, <1>7, <2>1
  <2>3. \/ x = Text(Len(sh) + 1) /\ Len(sh) + 1 <= m
        \/ x = Stop
    BY <1>1, <1>2, <1>5, <2>2, ReadText
  <2>4. CASE x = Text(Len(sh) + 1) /\ Len(sh) + 1 <= m
    <3>1. x.kind = "text"
      BY <2>4 DEF Text
    <3>2. shown' = [shown EXCEPT ![s] = Append(sh, x)]
      BY <1>2, <3>1
    <3>3. /\ Len(Texts(sh)) = Len(sh)
          /\ Texts(Append(sh, x)) = Append(Texts(sh), Len(Texts(sh)) + 1)
      <4>1. \A i \in 1 .. Len(sh) : sh[i] = Text(i)
        BY <2>2 DEF Sent
      <4> QED
        BY <1>2, <2>4, <4>1, TextsInOrder
    <3>4. TextsShown[s] = Texts(sh) /\ TextsShown'[s] = Texts(Append(sh, x))
      BY <1>1, <3>2 DEF TextsShown, TypeOK
    <3>5. TextsShown' = [TextsShown EXCEPT ![s] =
                           Append(TextsShown[s], Len(TextsShown[s]) + 1)]
      <4>1. \A r \in Stream : r # s => shown'[r] = shown[r]
        BY <3>2 DEF TypeOK
      <4>2. \A r \in Stream : r # s => TextsShown'[r] = TextsShown[r]
        BY <4>1 DEF TextsShown
      <4>3. /\ DOMAIN TextsShown = Stream /\ DOMAIN TextsShown' = Stream
            /\ TextsShown = [r \in Stream |-> TextsShown[r]]
            /\ TextsShown' = [r \in Stream |-> TextsShown'[r]]
        BY DEF TextsShown
      <4> QED
        BY <3>3, <3>4, <4>2, <4>3
    <3>6. Len(TextsShown[s]) < said[s]
      <4>1. Len(sh) \in Nat
        BY <1>2
      <4> QED
        BY <1>4, <1>5, <2>4, <3>3, <3>4, <4>1
    <3>7. Outcome[s] = "open"
      BY <1>2 DEF Outcome
    <3>8. Answer!Show(s)
      BY <1>2, <1>3, <3>5, <3>6, <3>7 DEF Answer!Show
    <3> QED
      BY <3>8 DEF Answer!Next
  <2>5. CASE x = Stop
    <3>1. shown' = shown
      BY <1>2, <2>5 DEF Stop
    <3> QED
      BY <1>6, <3>1
  <2> QED
    BY <2>3, <2>4, <2>5
<1>8. CASE NoticeSent(shown[s], wire[s], sse[s])
  <2>1. /\ NoResponse.kind = "none" /\ Stop.kind = "stop"
        /\ NoResponse \in Frame /\ Stop \in Frame
    BY FramesAndItems DEF NoResponse, Stop
  <2>2. PICK f \in Frame, g \in Frame : f = NoResponse /\ g = Stop
    BY <2>1
  <2>3. /\ Head(<<f>>) = f /\ Append(<< >>, f) = <<f>>
        /\ Head(<<f, g>>) = f /\ Head(<<g>>) = g
    OBVIOUS
  <2>4. \/ x = f /\ sh = << >> /\ shown' = [shown EXCEPT ![s] = <<f>>]
        \/ x = g /\ shown' = shown
    <3>1. \/ sh = << >> /\ x = f
          \/ x = g
      BY <1>1, <1>2, <1>8, <2>2, <2>3 DEF NoticeSent
    <3> QED
      BY <1>2, <2>1, <2>2, <2>3, <3>1
  <2>5. \A r \in Stream : Texts(shown'[r]) = Texts(shown[r])
    BY <1>1, <2>2, <2>4, TextsOf DEF TypeOK
  <2> QED
    BY <1>6, <2>5
<1> QED
  BY <1>4, <1>7, <1>8 DEF Flow

(* ... and the answer ends, whole if the response did.                        *)
LEMMA EndStep ==
  ASSUME TypeOK, StreamInv, NEW s \in Stream,
         ReadEnd(s) \/ LoseConnection(s) \/ Leave(s)
  PROVE  Answer!Next
<1>0. StreamOk(s)
  BY DEF StreamInv
<1>1. /\ console[s] = "reading" /\ stage' = stage /\ worker' = worker /\ said' = said
      /\ \A r \in Stream : r # s => console'[r] = console[r] /\ shown'[r] = shown[r]
      /\ \/ console'[s] = "answered" /\ ReadEnd(s)
         \/ console'[s] \in {"lost", "gone"}
      /\ \/ shown'[s] = shown[s]
         \/ shown[s] = << >> /\ shown'[s] = <<Unavailable>>
  BY DEF ReadEnd, LoseConnection, Leave, TypeOK, poolVars, runVars
<1>2. Spoken' = Spoken
  BY <1>1 DEF Spoken
<1>3. TextsShown' = TextsShown
  <2>1. \A r \in Stream : Texts(shown'[r]) = Texts(shown[r])
    BY <1>1, TextsOf
  <2> QED
    BY <2>1 DEF TextsShown
<1>4. /\ Outcome[s] = "open"
      /\ \A r \in Stream : r # s => Outcome'[r] = Outcome[r]
      /\ Outcome = [r \in Stream |-> Outcome[r]]
      /\ Outcome' = [r \in Stream |-> Outcome'[r]]
  BY <1>1 DEF Outcome
<1>5. CASE console'[s] = "answered" /\ stage[s] = "over"
  <2>1. /\ ReadEnd(s) /\ sse[s] = "end"
    BY <1>0, <1>1, <1>5 DEF StreamOk
  <2>2. PICK m \in 0 .. said[s] : Flow(s, m)
    BY <1>0, <1>1 DEF StreamOk
  <2>3. wire[s] = << >> /\ m = said[s] /\ worker[s] \in {"done", "failed"} /\ m \in Nat
    BY <2>1, <2>2 DEF ReadEnd, Flow, TypeOK
  <2>4. Len(TextsShown[s]) = said[s]
    <3>1. TextsShown[s] = Texts(shown[s])
      BY DEF TextsShown
    <3>2. CASE Sent(shown[s], wire[s], m, sse[s])
      <4>1. PICK sh : sh = shown[s]
        OBVIOUS
      <4>2. sh \in Seq(Frame) /\ Len(wire[s]) = 0
        BY <2>3, <4>1 DEF TypeOK
      <4>3. Len(sh) = m /\ \A i \in 1 .. Len(sh) : sh[i] = Text(i)
        BY <2>3, <3>2, <4>1, <4>2 DEF Sent
      <4>4. Len(Texts(sh)) = Len(sh)
        BY <4>2, <4>3, TextsInOrder
      <4> QED
        BY <2>3, <3>1, <4>1, <4>3, <4>4
    <3>3. CASE NoticeSent(shown[s], wire[s], sse[s]) /\ m = 0
      <4>1. /\ <<NoResponse>> # << >> /\ <<Stop>> # << >>
            /\ <<NoResponse, Stop>> # << >> /\ Len(<< >>) = 0
        OBVIOUS
      <4>2. shown[s] = <<NoResponse>>
        BY <2>3, <3>3, <4>1 DEF NoticeSent
      <4> QED
        BY <2>3, <3>1, <3>3, <4>1, <4>2, TextsOf
    <3> QED
      BY <2>2, <3>2, <3>3 DEF Flow
  <2>5. Spoken[s]
    BY <2>3 DEF Spoken
  <2>6. Outcome'[s] = "whole"
    BY <1>1, <1>5 DEF Outcome
  <2>7. Outcome' = [Outcome EXCEPT ![s] = "whole"]
    BY <1>4, <2>6
  <2>8. Answer!End(s)
    BY <1>1, <1>2, <1>3, <1>4, <2>4, <2>5, <2>7 DEF Answer!End
  <2> QED
    BY <2>8 DEF Answer!Next
<1>6. CASE ~(console'[s] = "answered" /\ stage[s] = "over")
  <2>1. Outcome'[s] = "broken"
    BY <1>1, <1>6 DEF Outcome
  <2>2. Outcome' = [Outcome EXCEPT ![s] = "broken"]
    BY <1>4, <2>1
  <2>3. Answer!Break(s)
    BY <1>1, <1>2, <1>3, <1>4, <2>2 DEF Answer!Break
  <2> QED
    BY <2>3 DEF Answer!Next
<1> QED
  BY <1>5, <1>6

(* Threads, queue, generator, frames and console implement the channel: for   *)
(* any number of questions and events the analyst sees the texts of the       *)
(* answer in the order they were said, each once, and all of them if the      *)
(* response ends undisturbed.                                                 *)
THEOREM StreamImplementsChannel == Spec => ImplementsChannel
<1>1. Init => Answer!Init
  <2> SUFFICES ASSUME Init PROVE Answer!Init
    OBVIOUS
  <2>1. Spoken = [s \in Stream |-> FALSE]
    <3>1. worker = [s \in Stream |-> "none"]
      BY DEF Init
    <3>2. \A s \in Stream : (worker[s] \in {"ending", "done", "failed"}) = FALSE
      BY <3>1
    <3> QED
      BY <3>2, Zenon DEF Spoken
  <2>4. Outcome = [s \in Stream |-> "open"]
    <3>1. \A s \in Stream : console[s] = "reading"
      BY DEF Init
    <3> QED
      BY <3>1 DEF Outcome
  <2>2. TextsShown = [s \in Stream |-> << >>]
    BY TextsOf DEF Init, TextsShown
  <2> QED
    BY <2>1, <2>2, <2>4 DEF Init, Answer!Init
<1>2. /\ TypeOK /\ LineInv /\ StreamInv /\ [Next]_vars
      => [Answer!Next]_(Answer!vars)
  <2> SUFFICES ASSUME TypeOK, LineInv, StreamInv, [Next]_vars
               PROVE  [Answer!Next]_(Answer!vars)
    OBVIOUS
  <2>1. CASE UNCHANGED vars
    BY <2>1 DEF vars, poolVars, runVars, Answer!vars, Spoken, Outcome, TextsShown
  <2> QED
    BY <2>1, SayStep, FailStep, HiddenStep, ShowStep, EndStep
       DEF Next, GeneratorStep, ConsoleStep
<1> QED
  BY <1>1, <1>2, TypeCorrect, StreamsHold, PTL
     DEF Spec, ImplementsChannel, Answer!Spec
=============================================================================
