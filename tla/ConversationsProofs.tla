------------------------- MODULE ConversationsProofs -------------------------
(***************************************************************************)
(* Proofs about Conversations, for any number of pages, threads, rows and  *)
(* turns, and whatever is lost or comes late: the types, one row for each  *)
(* thread key, and no question in a row of another thread.                 *)
(***************************************************************************)
EXTENDS Conversations, TLAPS

LEMMA AppendTurn ==
  ASSUME NEW turns \in Turns, NEW n \in 1 .. MaxTurns
  PROVE  Append(turns, n) \in Turns
  BY DEF Turns

LEMMA BlankIsChat ==
  ASSUME NEW k \in ContextKey \cup FreshKey PROVE Blank(k) \in Chat
<1>1. << >> \in Turns
  BY DEF Turns
<1> QED
  BY <1>1, KeyAssumption DEF Blank, Chat, Key

(* A chat is changed in one page only.                                      *)
LEMMA Mounted ==
  ASSUME chat \in [Page -> Chat], NEW p \in Page, NEW c \in Chat, Mount(p, c)
  PROVE  chat' \in [Page -> Chat]
  BY DEF Mount

LEMMA LoadIsChat ==
  ASSUME chat \in [Page -> Chat], NEW p \in Page, NEW i \in RowId,
         NEW turns \in Turns, Load(p, i, turns)
  PROVE  chat' \in [Page -> Chat]
<1>1. [loaded |-> i, key |-> i, turns |-> turns, asking |-> 0] \in Chat
  BY KeyAssumption DEF Chat, Key
<1> QED
  BY <1>1, Mounted DEF Load

LEMMA SettleKeepsChat ==
  ASSUME chat \in [Page -> Chat], NEW r \in Reply, Settle(r)
  PROVE  chat' \in [Page -> Chat]
<1>1. chat[r.page] \in Chat
  BY DEF Reply
<1>2. [chat[r.page] EXCEPT !.asking = IF @ = r.n THEN 0 ELSE @] \in Chat
  BY <1>1, KeyAssumption DEF Chat
<1>3. chat' = [chat EXCEPT ![r.page] =
                 [chat[r.page] EXCEPT !.asking = IF @ = r.n THEN 0 ELSE @]]
  BY DEF Settle
<1> QED
  BY <1>2, <1>3 DEF Reply

-----------------------------------------------------------------------------
(* Opening, loading, asking, answering, posting and losing any of it keep   *)
(* the types: a row is always a thread under a key, and a chat never asks    *)
(* more than one question.                                                  *)
THEOREM TypeCorrect == Spec => []TypeOK
<1>1. Init => TypeOK
  <2> SUFFICES ASSUME Init PROVE TypeOK
    OBVIOUS
  <2>1. chat \in [Page -> Chat]
    BY BlankIsChat DEF Init
  <2> QED
    BY <2>1 DEF Init, TypeOK
<1>2. TypeOK /\ [Next]_vars => TypeOK'
  <2> SUFFICES ASSUME TypeOK, [Next]_vars PROVE TypeOK'
    OBVIOUS
  <2>0. /\ rows \in [RowId -> Row \cup {NoRow}] /\ issued \subseteq FreshKey
        /\ chat \in [Page -> Chat]
        /\ \A p \in Page : loading[p] \subseteq [id : RowId, turns : Turns]
        /\ asked \in Seq([key : Key, loaded : RowId \cup {NoRow}])
        /\ replies \subseteq Reply /\ posts \subseteq Row
    BY DEF TypeOK
  <2>1. ASSUME NEW p \in Page, NEW k \in ContextKey, OpenContext(p, k)
        PROVE  TypeOK'
    <3>1. chat' \in [Page -> Chat]
      BY <2>0, <2>1, BlankIsChat, Mounted DEF OpenContext
    <3> QED
      BY <2>0, <2>1, <3>1 DEF OpenContext, TypeOK
  <2>2. ASSUME NEW p \in Page, NEW k \in FreshKey, NewThread(p, k)
        PROVE  TypeOK'
    <3>1. chat' \in [Page -> Chat]
      BY <2>0, <2>2, BlankIsChat, Mounted DEF NewThread
    <3>2. issued' \subseteq FreshKey
      BY <2>0, <2>2 DEF NewThread
    <3> QED
      BY <2>0, <2>2, <3>1, <3>2 DEF NewThread, TypeOK
  <2>3. ASSUME NEW p \in Page, NEW i \in RowId, OpenThread(p, i)
        PROVE  TypeOK'
    <3>1. rows[i] \in Row
      BY <2>0, <2>3 DEF OpenThread, Saved
    <3>2. [id |-> i, turns |-> rows[i].turns] \in [id : RowId, turns : Turns]
      BY <3>1 DEF Row
    <3>3. \A q \in Page : loading'[q] \subseteq [id : RowId, turns : Turns]
      BY <2>0, <2>3, <3>2 DEF OpenThread
    <3> QED
      BY <2>0, <2>3, <3>3 DEF OpenThread, TypeOK
  <2>4. ASSUME NEW p \in Page, NEW thread \in loading[p], Arrived(p, thread)
        PROVE  /\ \A q \in Page : loading'[q] \subseteq [id : RowId, turns : Turns]
               /\ thread.id \in RowId /\ thread.turns \in Turns
    BY <2>0, <2>4 DEF Arrived
  <2>5. ASSUME NEW p \in Page, NEW thread \in loading[p],
               ThreadLoaded(p, thread) \/ ThreadRefused(p, thread)
        PROVE  TypeOK'
    <3>1. << >> \in Turns
      BY DEF Turns
    <3>2. chat' \in [Page -> Chat]
      BY <2>0, <2>4, <2>5, <3>1, LoadIsChat DEF ThreadLoaded, ThreadRefused
    <3>3. \A q \in Page : loading'[q] \subseteq [id : RowId, turns : Turns]
      BY <2>4, <2>5 DEF ThreadLoaded, ThreadRefused
    <3> QED
      BY <2>0, <2>5, <3>2, <3>3 DEF ThreadLoaded, ThreadRefused, TypeOK
  <2>6. ASSUME NEW p \in Page, NEW thread \in loading[p], NEW k \in FreshKey,
               LoadFailed(p, thread, k)
        PROVE  TypeOK'
    <3>1. chat' \in [Page -> Chat] /\ issued' \subseteq FreshKey
      BY <2>0, <2>6, BlankIsChat, Mounted DEF LoadFailed
    <3>2. \A q \in Page : loading'[q] \subseteq [id : RowId, turns : Turns]
      BY <2>4, <2>6 DEF LoadFailed
    <3> QED
      BY <2>0, <2>6, <3>1, <3>2 DEF LoadFailed, TypeOK
  <2>7. ASSUME NEW p \in Page, Send(p) PROVE TypeOK'
    <3> DEFINE n == Len(asked) + 1
               thread == Append(chat[p].turns, n)
               question == [key |-> chat[p].key, loaded |-> chat[p].loaded]
               reply == [page |-> p, n |-> n, key |-> chat[p].key, turns |-> thread]
               asking == [chat[p] EXCEPT !.turns = thread, !.asking = n]
    <3>1. n \in 1 .. MaxTurns
      BY <2>0, <2>7, KeyAssumption DEF Send
    <3>2. chat[p] \in Chat
      BY <2>0
    <3> HIDE DEF n
    <3>3. thread \in Turns
      BY <3>1, <3>2, AppendTurn DEF Chat
    <3> HIDE DEF thread
    <3>4. /\ question \in [key : Key, loaded : RowId \cup {NoRow}]
          /\ reply \in Reply
      BY <3>1, <3>2, <3>3 DEF Chat, Reply
    <3>5. asking \in Chat
      <4>1. n \in 0 .. MaxTurns
        BY <3>1, KeyAssumption
      <4>2. \A c \in Chat, t \in Turns, m \in 0 .. MaxTurns :
              [c EXCEPT !.turns = t, !.asking = m] \in Chat
        BY DEF Chat
      <4> QED
        BY <3>2, <3>3, <4>1, <4>2
    <3> HIDE DEF question, reply, asking
    <3>6. /\ asked' = Append(asked, question) /\ replies' = replies \cup {reply}
          /\ Mount(p, asking)
      BY <2>7 DEF Send, n, thread, question, reply, asking
    <3>7. chat' \in [Page -> Chat]
      BY <2>0, <3>5, <3>6, Mounted
    <3>8. asked' \in Seq([key : Key, loaded : RowId \cup {NoRow}])
      BY <2>0, <3>4, <3>6
    <3> QED
      BY <2>0, <2>7, <3>4, <3>6, <3>7, <3>8 DEF Send, TypeOK
  <2>8. ASSUME NEW r \in replies, Answered(r) \/ Unanswered(r) PROVE TypeOK'
    <3>1. chat' \in [Page -> Chat]
      BY <2>0, <2>8, SettleKeepsChat DEF Answered, Unanswered
    <3>2. [key |-> r.key, turns |-> r.turns] \in Row
      BY <2>0 DEF Reply, Row
    <3>3. replies' \subseteq Reply /\ posts' \subseteq Row
      BY <2>0, <2>8, <3>2 DEF Answered, Unanswered
    <3> QED
      BY <2>0, <2>8, <3>1, <3>3 DEF Answered, Unanswered, TypeOK
  <2>9. ASSUME NEW post \in posts, NEW i \in RowId, UpsertConversation(post, i)
        PROVE  TypeOK'
    <3>1. rows' \in [RowId -> Row \cup {NoRow}] /\ posts' \subseteq Row
      BY <2>0, <2>9 DEF UpsertConversation
    <3> QED
      BY <2>0, <2>9, <3>1 DEF UpsertConversation, TypeOK
  <2>10. ASSUME NEW post \in posts, PostLost(post) PROVE TypeOK'
    BY <2>0, <2>10 DEF PostLost, TypeOK
  <2>11. CASE UNCHANGED vars
    BY <2>0, <2>11 DEF vars, TypeOK
  <2> QED
    BY <2>1, <2>2, <2>3, <2>5, <2>6, <2>7, <2>8, <2>9, <2>10, <2>11 DEF Next
<1> QED
  BY <1>1, <1>2, PTL DEF Spec

-----------------------------------------------------------------------------
(* Posts are idempotent upserts: whatever is posted, in whatever order and   *)
(* however often, no key gets a second row.                                 *)
THEOREM UpsertsAreIdempotent == Spec => []OneRowPerKey
<1>1. Init => OneRowPerKey
  BY DEF Init, OneRowPerKey, Saved
<1>2. TypeOK /\ OneRowPerKey /\ [Next]_vars => OneRowPerKey'
  <2> SUFFICES ASSUME TypeOK, OneRowPerKey, [Next]_vars PROVE OneRowPerKey'
    OBVIOUS
  <2>1. ASSUME NEW post \in posts, NEW i \in RowId, UpsertConversation(post, i)
        PROVE  OneRowPerKey'
    <3>1. /\ rows'[i] = post
          /\ \A j \in RowId \ {i} : rows'[j] = rows[j]
      BY <2>1 DEF UpsertConversation, TypeOK
    <3>2. \A j \in Saved : rows[j].key = post.key => j = i
      BY <2>1 DEF UpsertConversation, Existing, OneRowPerKey
    <3> SUFFICES ASSUME NEW j \in RowId, NEW k \in RowId,
                        rows'[j] # NoRow, rows'[k] # NoRow,
                        rows'[j].key = rows'[k].key
                 PROVE  j = k
      BY DEF OneRowPerKey, Saved
    <3>3. CASE j # i /\ k # i
      BY <3>1, <3>3 DEF OneRowPerKey, Saved
    <3>4. CASE j = i \/ k = i
      BY <3>1, <3>2, <3>4 DEF Saved
    <3> QED
      BY <3>3, <3>4
  <2>2. CASE UNCHANGED rows
    BY <2>2 DEF OneRowPerKey, Saved
  <2> QED
    BY <2>1, <2>2
       DEF Next, vars, OpenContext, NewThread, OpenThread, ThreadLoaded,
           ThreadRefused, LoadFailed, Send, Answered, Unanswered, PostLost
<1> QED
  BY <1>1, <1>2, TypeCorrect, PTL DEF Spec

-----------------------------------------------------------------------------
(* Root is defined by recursion along the rows a thread was loaded from.  What *)
(* is proved here is proved of every function that satisfies its equation;   *)
(* that there is one holds at the start, and a new row extends it.           *)
IsRoot(f) == f = [k \in Key |-> IF k \in Saved THEN f[rows[k].key] ELSE k]

(* A key in use is that of a row only if the row exists: rows are not deleted, *)
(* and their ids are made up when they are created.                          *)
Known(k) == k \in Key /\ (k \in RowId => k \in Saved)

KeysKnown ==
  /\ \A p \in Page : /\ Known(chat[p].key)
                     /\ \A thread \in loading[p] : thread.id \in Saved
  /\ \A n \in 1 .. Len(asked) : Known(asked[n].key)
  /\ \A r \in replies : Known(r.key)
  /\ \A post \in posts : Known(post.key)
  /\ \A i \in Saved : Known(rows[i].key)

(* The questions of a thread were asked in threads of the same root. *)
OfThread(f, k, turns) ==
  \A j \in 1 .. Len(turns) :
    /\ turns[j] \in 1 .. Len(asked)
    /\ f[asked[turns[j]].key] = f[k]

Unmixed(f) ==
  /\ \A p \in Page :
       /\ OfThread(f, chat[p].key, chat[p].turns)
       /\ \A thread \in loading[p] : OfThread(f, thread.id, thread.turns)
  /\ \A r \in replies : OfThread(f, r.key, r.turns)
  /\ \A post \in posts : OfThread(f, post.key, post.turns)
  /\ \A i \in Saved : OfThread(f, rows[i].key, rows[i].turns)

ThreadInv ==
  /\ KeysKnown
  /\ \E f : IsRoot(f)
  /\ \A f : IsRoot(f) => Unmixed(f)

LEMMA EmptyThread ==
  ASSUME NEW f, NEW k PROVE OfThread(f, k, << >>)
BY DEF OfThread

(* Steps that create no row and change no row's key. *)
LEMMA SameRoots ==
  ASSUME Saved' = Saved, \A i \in Saved : rows'[i].key = rows[i].key
  PROVE  /\ \A f : IsRoot(f)' <=> IsRoot(f)
         /\ \A k : Known(k)' <=> Known(k)
<1>1. ASSUME NEW f PROVE IsRoot(f)' <=> IsRoot(f)
  <2>1. [k \in Key |-> IF k \in Saved THEN f[rows'[k].key] ELSE k]
          = [k \in Key |-> IF k \in Saved THEN f[rows[k].key] ELSE k]
    OBVIOUS
  <2> QED
    BY <2>1 DEF IsRoot
<1> QED
  BY <1>1 DEF Known

(* A thread stays unmixed while questions are added, under any function with *)
(* the same roots of the keys in use.                                        *)
LEMMA OfThreadKept ==
  ASSUME NEW f, NEW g, NEW k, NEW turns, OfThread(f, k, turns),
         KeysKnown, Known(k), \A l : Known(l) => g[l] = f[l],
         Len(asked) \in Nat, Len(asked') \in Nat, Len(asked) <= Len(asked'),
         \A n \in 1 .. Len(asked) : asked'[n] = asked[n]
  PROVE  OfThread(g, k, turns)'
<1> SUFFICES ASSUME NEW j \in 1 .. Len(turns)
             PROVE  /\ turns[j] \in 1 .. Len(asked')
                    /\ g[asked'[turns[j]].key] = g[k]
  BY DEF OfThread
<1>1. turns[j] \in 1 .. Len(asked) /\ f[asked[turns[j]].key] = f[k]
  BY DEF OfThread
<1>2. Known(asked[turns[j]].key)
  BY <1>1 DEF KeysKnown
<1>3. turns[j] \in 1 .. Len(asked')
  BY <1>1
<1> QED
  BY <1>1, <1>2, <1>3

(* The loaded thread of a row has the row's root. *)
LEMMA RootOfRow ==
  ASSUME NEW f, IsRoot(f), NEW i \in Saved PROVE f[i] = f[rows[i].key]
<1>1. i \in Key
  BY DEF Saved, Key
<1>2. f = [k \in Key |-> IF k \in Saved THEN f[rows[k].key] ELSE k]
  BY DEF IsRoot
<1>3. \A S, r, h : h = [k \in Key |-> IF k \in S THEN h[r[k].key] ELSE k] /\ i \in S
               => h[i] = h[r[i].key]
  BY <1>1
<1> QED
  BY <1>2, <1>3

(* Steps of the pages: the rows stay, no question is asked.  It is enough to *)
(* look at the threads that are new somewhere.                               *)
LEMMA PageStep ==
  ASSUME ThreadInv, TypeOK, UNCHANGED <<rows, asked>>,
         \A p \in Page :
           /\ \/ chat'[p].key = chat[p].key /\ chat'[p].turns = chat[p].turns
              \/ /\ Known(chat'[p].key)
                 /\ \A f : IsRoot(f) => OfThread(f, chat'[p].key, chat'[p].turns)
           /\ \A thread \in loading'[p] :
                \/ thread \in loading[p]
                \/ /\ thread.id \in Saved
                   /\ \A f : IsRoot(f) => OfThread(f, thread.id, thread.turns),
         replies' \subseteq replies,
         \A post \in posts' :
           \/ post \in posts
           \/ \E r \in replies : post.key = r.key /\ post.turns = r.turns
  PROVE  ThreadInv'
<1>1. Saved' = Saved
  BY DEF Saved
<1>2. /\ \A f : IsRoot(f)' <=> IsRoot(f)
      /\ \A k : Known(k)' <=> Known(k)
  BY <1>1, SameRoots
<1>3. \A f, k, turns : OfThread(f, k, turns)' <=> OfThread(f, k, turns)
  BY DEF OfThread
<1>4. KeysKnown'
  BY <1>1, <1>2 DEF ThreadInv, KeysKnown
<1>5. ASSUME NEW f, IsRoot(f)' PROVE Unmixed(f)'
  <2>1. IsRoot(f) /\ Unmixed(f)
    BY <1>2, <1>5 DEF ThreadInv
  <2>2. \A p \in Page :
          /\ OfThread(f, chat'[p].key, chat'[p].turns)
          /\ \A thread \in loading'[p] : OfThread(f, thread.id, thread.turns)
    BY <2>1 DEF Unmixed
  <2>3. \A post \in posts' : OfThread(f, post.key, post.turns)
    BY <2>1 DEF Unmixed
  <2> QED
    BY <1>1, <1>3, <2>1, <2>2, <2>3 DEF Unmixed
<1> QED
  BY <1>2, <1>4, <1>5 DEF ThreadInv

LEMMA FreshIsKnown ==
  ASSUME NEW k \in ContextKey \cup FreshKey PROVE Known(k)
BY KeyAssumption DEF Known, Key

LEMMA SavedIsKnown ==
  ASSUME NEW i \in Saved PROVE Known(i)
BY DEF Known, Key, Saved

(* A page mounts an empty chat under a key that is no row's, ... *)
LEMMA MountBlank ==
  ASSUME TypeOK, NEW p \in Page, NEW k \in ContextKey \cup FreshKey, Mount(p, Blank(k))
  PROVE  \A q \in Page :
           \/ chat'[q].key = chat[q].key /\ chat'[q].turns = chat[q].turns
           \/ /\ Known(chat'[q].key)
              /\ \A f : OfThread(f, chat'[q].key, chat'[q].turns)
<1>1. chat' = [chat EXCEPT ![p] = Blank(k)] /\ chat \in [Page -> Chat]
  BY DEF Mount, TypeOK
<1>2. Known(k) /\ \A f : OfThread(f, k, << >>)
  BY FreshIsKnown, EmptyThread
<1>3. Blank(k).key = k /\ Blank(k).turns = << >>
  BY DEF Blank
<1> QED
  BY <1>1, <1>2, <1>3

(* ... or a thread that was loaded. *)
LEMMA MountLoaded ==
  ASSUME TypeOK, NEW p \in Page, NEW i \in Saved, NEW turns, Load(p, i, turns),
         \A f : IsRoot(f) => OfThread(f, i, turns)
  PROVE  \A q \in Page :
           \/ chat'[q].key = chat[q].key /\ chat'[q].turns = chat[q].turns
           \/ /\ Known(chat'[q].key)
              /\ \A f : IsRoot(f) => OfThread(f, chat'[q].key, chat'[q].turns)
<1>1. PICK c : c = [loaded |-> i, key |-> i, turns |-> turns, asking |-> 0]
  OBVIOUS
<1>2. c.key = i /\ c.turns = turns /\ Known(i)
  BY <1>1, SavedIsKnown
<1>3. chat' = chat \/ chat' = [chat EXCEPT ![p] = c]
  BY <1>1 DEF Load, Mount
<1>4. chat \in [Page -> Chat]
  BY DEF TypeOK
<1> QED
  BY <1>2, <1>3, <1>4

(* A question is added to the thread of its page, and to all of them. *)
LEMMA SendStep ==
  ASSUME ThreadInv, TypeOK, NEW p \in Page, Send(p)
  PROVE  ThreadInv'
<1>1. PICK n : n = Len(asked) + 1
  OBVIOUS
<1>2. PICK t : t = Append(chat[p].turns, n)
  OBVIOUS
<1>3. PICK q : q = [key |-> chat[p].key, loaded |-> chat[p].loaded]
  OBVIOUS
<1>4. PICK c : c = [chat[p] EXCEPT !.turns = t, !.asking = n]
  OBVIOUS
<1>5. PICK reply : reply = [page |-> p, n |-> n, key |-> chat[p].key, turns |-> t]
  OBVIOUS
<1>6. /\ asked' = Append(asked, q)
      /\ replies' = replies \cup {reply}
      /\ chat' = [chat EXCEPT ![p] = c]
      /\ UNCHANGED <<rows, issued, loading, posts>>
  BY <1>1, <1>2, <1>3, <1>4, <1>5 DEF Send, Mount
<1>7. /\ chat \in [Page -> Chat] /\ chat[p] \in Chat
      /\ asked \in Seq([key : Key, loaded : RowId \cup {NoRow}])
  BY DEF TypeOK
<1>8. c.key = chat[p].key /\ c.turns = t
  BY <1>4, <1>7 DEF Chat
<1>9. /\ Len(asked) \in Nat /\ Len(asked') = n /\ asked'[n] = q
      /\ \A m \in 1 .. Len(asked) : asked'[m] = asked[m]
  BY <1>1, <1>6, <1>7
<1>10. /\ Len(t) = Len(chat[p].turns) + 1 /\ t[Len(t)] = n
       /\ Len(chat[p].turns) \in Nat
       /\ \A j \in 1 .. Len(chat[p].turns) : t[j] = chat[p].turns[j]
  BY <1>2, <1>7 DEF Chat, Turns
<1>11. Saved' = Saved
  BY <1>6 DEF Saved
<1>12. /\ \A f : IsRoot(f)' <=> IsRoot(f)
       /\ \A k : Known(k)' <=> Known(k)
  BY <1>6, <1>11, SameRoots
<1>13. KeysKnown /\ Known(chat[p].key)
  BY DEF ThreadInv, KeysKnown
<1>14. chat'[p] = c /\ \A o \in Page \ {p} : chat'[o] = chat[o]
  BY <1>6, <1>7
<1>15. KeysKnown'
  <2>1. (\A m \in 1 .. Len(asked) : Known(asked[m].key))'
    <3> SUFFICES ASSUME NEW m \in 1 .. n PROVE Known(asked'[m].key)
      BY <1>9, <1>12
    <3>1. CASE m = n
      BY <1>3, <1>9, <1>13, <3>1
    <3>2. CASE m # n
      BY <1>1, <1>9, <1>13, <3>2 DEF KeysKnown
    <3> QED
      BY <3>1, <3>2
  <2>2. (\A o \in Page : /\ Known(chat[o].key)
                        /\ \A thread \in loading[o] : thread.id \in Saved)'
    BY <1>6, <1>8, <1>11, <1>12, <1>13, <1>14 DEF KeysKnown
  <2>3. (\A r \in replies : Known(r.key))'
    BY <1>5, <1>6, <1>12, <1>13 DEF KeysKnown
  <2> QED
    BY <1>6, <1>11, <1>12, <1>13, <2>1, <2>2, <2>3 DEF KeysKnown
<1>16. ASSUME NEW f, IsRoot(f)' PROVE Unmixed(f)'
  <2>1. IsRoot(f) /\ Unmixed(f)
    BY <1>12, <1>16 DEF ThreadInv
  <2>2. ASSUME NEW k, NEW turns, Known(k), OfThread(f, k, turns)
        PROVE  OfThread(f, k, turns)'
    <3>1. Len(asked') \in Nat /\ Len(asked) <= Len(asked')
      BY <1>1, <1>9
    <3> QED
      BY <1>9, <1>13, <2>2, <3>1, OfThreadKept
  <2>3. OfThread(f, chat[p].key, t)'
    <3>1. PICK k : k = chat[p].key
      OBVIOUS
    <3>2. \A j \in 1 .. Len(chat[p].turns) :
            /\ chat[p].turns[j] \in 1 .. Len(asked)
            /\ f[asked[chat[p].turns[j]].key] = f[k]
      BY <2>1, <3>1 DEF Unmixed, OfThread
    <3> SUFFICES ASSUME NEW j \in 1 .. Len(t)
                 PROVE  t[j] \in 1 .. n /\ f[asked'[t[j]].key] = f[k]
      BY <1>8, <1>9, <1>14, <3>1 DEF OfThread
    <3>3. CASE j = Len(t)
      BY <1>1, <1>3, <1>9, <1>10, <3>1, <3>3
    <3>4. CASE j # Len(t)
      <4>1. j \in 1 .. Len(chat[p].turns)
        BY <1>10, <3>4
      <4>2. /\ t[j] = chat[p].turns[j] /\ t[j] \in 1 .. Len(asked)
            /\ f[asked[t[j]].key] = f[k]
        BY <1>10, <3>2, <4>1
      <4> QED
        BY <1>1, <1>9, <4>2
    <3> QED
      BY <3>3, <3>4
  <2>4. (\A o \in Page :
          /\ OfThread(f, chat[o].key, chat[o].turns)
          /\ \A thread \in loading[o] : OfThread(f, thread.id, thread.turns))'
    <3> SUFFICES ASSUME NEW o \in Page
                 PROVE  (/\ OfThread(f, chat[o].key, chat[o].turns)
                         /\ \A thread \in loading[o] :
                              OfThread(f, thread.id, thread.turns))'
      OBVIOUS
    <3>1. \A thread \in loading[o] : OfThread(f, thread.id, thread.turns)'
      BY <1>13, <2>1, <2>2, SavedIsKnown DEF Unmixed, KeysKnown
    <3>2. CASE o = p
      BY <1>6, <1>8, <1>14, <2>3, <3>1, <3>2
    <3>3. CASE o # p
      <4>1. OfThread(f, chat[o].key, chat[o].turns) /\ Known(chat[o].key)
        BY <1>13, <2>1 DEF Unmixed, KeysKnown
      <4> QED
        BY <1>6, <1>14, <2>2, <3>1, <3>3, <4>1
    <3> QED
      BY <3>2, <3>3
  <2>5. (\A r \in replies : OfThread(f, r.key, r.turns))'
    BY <1>5, <1>6, <1>8, <1>13, <1>14, <2>1, <2>2, <2>3 DEF Unmixed, KeysKnown
  <2>6. (\A post \in posts : OfThread(f, post.key, post.turns))'
    BY <1>6, <1>13, <2>1, <2>2 DEF Unmixed, KeysKnown
  <2>7. (\A i \in Saved : OfThread(f, rows[i].key, rows[i].turns))'
    BY <1>6, <1>11, <1>13, <2>1, <2>2 DEF Unmixed, KeysKnown
  <2> QED
    BY <2>4, <2>5, <2>6, <2>7 DEF Unmixed
<1> QED
  BY <1>12, <1>15, <1>16 DEF ThreadInv

LEMMA RowIsARow ==
  ASSUME NEW row \in Row PROVE row # NoRow
<1>1. row.turns \in Seq(1 .. MaxTurns)
  BY DEF Row, Turns
<1>2. row.turns \in Seq(Nat)
  BY <1>1, KeyAssumption
<1>3. row \in [key : ContextKey \cup FreshKey \cup RowId, turns : Seq(Nat)]
  BY <1>2 DEF Row, Key
<1> QED
  BY <1>3, KeyAssumption

(* A row is written over: its key is that of the thread posted, so the roots *)
(* stay.                                                                     *)
LEMMA OverwriteStep ==
  ASSUME ThreadInv, TypeOK, NEW post \in posts, NEW i \in Existing(post.key),
         posts' = posts \ {post}, rows' = [rows EXCEPT ![i] = post],
         UNCHANGED <<issued, chat, loading, asked, replies>>
  PROVE  ThreadInv'
<1>1. i \in Saved /\ rows[i].key = post.key /\ post # NoRow /\ i \in RowId
  BY RowIsARow DEF Existing, Saved, TypeOK
<1>2. /\ rows'[i] = post
      /\ \A j \in RowId \ {i} : rows'[j] = rows[j]
  BY <1>1 DEF TypeOK
<1>3. Saved' = Saved /\ \A j \in Saved : rows'[j].key = rows[j].key
  BY <1>1, <1>2 DEF Saved
<1>4. /\ \A f : IsRoot(f)' <=> IsRoot(f)
      /\ \A k : Known(k)' <=> Known(k)
  BY <1>3, SameRoots
<1>5. \A f, k, turns : OfThread(f, k, turns)' <=> OfThread(f, k, turns)
  BY DEF OfThread
<1>6. KeysKnown'
  BY <1>3, <1>4 DEF ThreadInv, KeysKnown
<1>7. ASSUME NEW f, IsRoot(f)' PROVE Unmixed(f)'
  <2>1. IsRoot(f) /\ Unmixed(f)
    BY <1>4, <1>7 DEF ThreadInv
  <2>2. \A j \in Saved : OfThread(f, rows'[j].key, rows'[j].turns)
    BY <1>2, <2>1 DEF Unmixed, Saved
  <2> QED
    BY <1>3, <1>5, <2>1, <2>2 DEF Unmixed
<1> QED
  BY <1>4, <1>6, <1>7 DEF ThreadInv

(* A row is created under an id that no thread in use has: the roots of the  *)
(* keys in use stay, and the row gets the root of the thread posted.         *)
LEMMA CreateStep ==
  ASSUME ThreadInv, TypeOK, NEW post \in posts, NEW i \in RowId \ Saved,
         posts' = posts \ {post}, rows' = [rows EXCEPT ![i] = post],
         UNCHANGED <<issued, chat, loading, asked, replies>>
  PROVE  ThreadInv'
<1>1. post \in Row /\ post # NoRow /\ Known(post.key) /\ KeysKnown
  BY RowIsARow DEF TypeOK, ThreadInv, KeysKnown
<1>2. /\ rows'[i] = post
      /\ \A j \in RowId \ {i} : rows'[j] = rows[j]
  BY DEF TypeOK
<1>3. Saved' = Saved \cup {i} /\ i \in Key
  BY <1>1, <1>2 DEF Saved, Key
<1>4. \A k : Known(k) => k # i /\ k \in Key /\ Known(k)'
  BY <1>3 DEF Known
<1>5. \A j \in Saved : j # i /\ rows'[j] = rows[j] /\ Known(rows[j].key)
  BY <1>1, <1>2 DEF Saved, KeysKnown
<1>6. KeysKnown'
  <2>1. (\A j \in Saved : Known(rows[j].key))'
    BY <1>1, <1>2, <1>3, <1>4, <1>5
  <2>2. (\A p \in Page : /\ Known(chat[p].key)
                        /\ \A thread \in loading[p] : thread.id \in Saved)'
    BY <1>1, <1>3, <1>4 DEF KeysKnown
  <2> QED
    BY <1>1, <1>4, <2>1, <2>2 DEF KeysKnown
<1>7. \E f : IsRoot(f)'
  <2>1. PICK f : IsRoot(f)
    BY DEF ThreadInv
  <2>2. PICK g : g = [f EXCEPT ![i] = f[post.key]]
    OBVIOUS
  <2>3. f = [k \in Key |-> IF k \in Saved THEN f[rows[k].key] ELSE k]
    BY <2>1 DEF IsRoot
  <2>4. DOMAIN g = Key /\ g = [k \in Key |-> g[k]]
    BY <2>2, <2>3
  <2>5. g[i] = f[post.key] /\ \A k \in Key \ {i} : g[k] = f[k]
    BY <1>3, <2>2, <2>3
  <2>6. \A k \in Key : g[k] = IF k \in Saved' THEN g[rows'[k].key] ELSE k
    <3> SUFFICES ASSUME NEW k \in Key
                 PROVE  g[k] = IF k \in Saved' THEN g[rows'[k].key] ELSE k
      OBVIOUS
    <3>1. CASE k = i
      BY <1>1, <1>2, <1>3, <1>4, <2>5, <3>1
    <3>2. CASE k \in Saved
      <4>1. f[k] = f[rows[k].key]
        BY <2>1, <3>2, RootOfRow
      <4>2. rows[k].key \in Key \ {i} /\ k # i /\ rows'[k] = rows[k]
        BY <1>4, <1>5, <3>2
      <4> QED
        BY <1>3, <2>5, <3>2, <4>1, <4>2
    <3>3. CASE k \notin Saved /\ k # i
      <4>1. f[k] = k
        BY <2>3, <3>3
      <4> QED
        BY <1>3, <2>5, <3>3, <4>1
    <3> QED
      BY <3>1, <3>2, <3>3
  <2>7. g = [k \in Key |-> IF k \in Saved' THEN g[rows'[k].key] ELSE k]
    BY <2>4, <2>6
  <2> QED
    BY <2>7 DEF IsRoot
<1>8. ASSUME NEW g, IsRoot(g)' PROVE Unmixed(g)'
  <2>1. g = [k \in Key |-> IF k \in Saved' THEN g[rows'[k].key] ELSE k]
    BY <1>8 DEF IsRoot
  <2>2. PICK f : f = [g EXCEPT ![i] = i]
    OBVIOUS
  <2>3. DOMAIN f = Key /\ f = [k \in Key |-> f[k]]
    BY <2>1, <2>2
  <2>4. f[i] = i /\ \A k \in Key \ {i} : f[k] = g[k]
    BY <1>3, <2>1, <2>2
  <2>5. \A k \in Key : f[k] = IF k \in Saved THEN f[rows[k].key] ELSE k
    <3> SUFFICES ASSUME NEW k \in Key
                 PROVE  f[k] = IF k \in Saved THEN f[rows[k].key] ELSE k
      OBVIOUS
    <3>1. g[k] = IF k \in Saved' THEN g[rows'[k].key] ELSE k
      BY <2>1
    <3>2. CASE k = i
      BY <2>4, <3>2
    <3>3. CASE k \in Saved
      <4>1. rows[k].key \in Key \ {i} /\ k # i /\ rows'[k] = rows[k]
        BY <1>4, <1>5, <3>3
      <4> QED
        BY <1>3, <2>4, <3>1, <3>3, <4>1
    <3>4. CASE k \notin Saved /\ k # i
      BY <1>3, <2>4, <3>1, <3>4
    <3> QED
      BY <3>2, <3>3, <3>4
  <2>6. IsRoot(f)
    BY <2>3, <2>5 DEF IsRoot
  <2>7. Unmixed(f)
    BY <2>6 DEF ThreadInv
  <2>8. \A k : Known(k) => g[k] = f[k]
    BY <1>4, <2>4
  <2>9. Len(asked) \in Nat
    BY DEF TypeOK
  <2>10. ASSUME NEW k, NEW turns, Known(k), OfThread(f, k, turns)
         PROVE  OfThread(g, k, turns)'
    BY <1>1, <2>8, <2>9, <2>10, OfThreadKept
  <2>11. (\A p \in Page :
           /\ OfThread(g, chat[p].key, chat[p].turns)
           /\ \A thread \in loading[p] : OfThread(g, thread.id, thread.turns))'
    BY <1>1, <2>7, <2>10, SavedIsKnown DEF Unmixed, KeysKnown
  <2>12. (\A r \in replies : OfThread(g, r.key, r.turns))'
    BY <1>1, <2>7, <2>10 DEF Unmixed, KeysKnown
  <2>13. (\A o \in posts : OfThread(g, o.key, o.turns))'
    BY <1>1, <2>7, <2>10 DEF Unmixed, KeysKnown
  <2>14. (\A j \in Saved : OfThread(g, rows[j].key, rows[j].turns))'
    BY <1>1, <1>2, <1>3, <1>5, <2>7, <2>10 DEF Unmixed, KeysKnown
  <2> QED
    BY <2>11, <2>12, <2>13, <2>14 DEF Unmixed
<1> QED
  BY <1>6, <1>7, <1>8 DEF ThreadInv

LEMMA ThreadStep ==
  ASSUME ThreadInv, TypeOK, [Next]_vars
  PROVE  ThreadInv'
<1>0. /\ rows \in [RowId -> Row \cup {NoRow}] /\ chat \in [Page -> Chat]
      /\ \A p \in Page : loading[p] \subseteq [id : RowId, turns : Turns]
      /\ replies \subseteq Reply /\ posts \subseteq Row
  BY DEF TypeOK
<1>1. ASSUME NEW p \in Page, NEW k \in ContextKey, OpenContext(p, k)
      PROVE  ThreadInv'
  BY <1>1, MountBlank, PageStep DEF OpenContext
<1>2. ASSUME NEW p \in Page, NEW k \in FreshKey, NewThread(p, k)
      PROVE  ThreadInv'
  BY <1>2, MountBlank, PageStep DEF NewThread
<1>3. ASSUME NEW p \in Page, NEW i \in RowId, OpenThread(p, i)
      PROVE  ThreadInv'
  <2>1. PICK t : t = [id |-> i, turns |-> rows[i].turns]
    OBVIOUS
  <2>2. i \in Saved /\ loading' = [loading EXCEPT ![p] = @ \cup {t}]
    BY <1>3, <2>1 DEF OpenThread
  <2>3. ASSUME NEW f, IsRoot(f) PROVE OfThread(f, t.id, t.turns)
    <3>1. OfThread(f, rows[i].key, rows[i].turns) /\ f[i] = f[rows[i].key]
      BY <2>2, <2>3, RootOfRow DEF ThreadInv, Unmixed
    <3> QED
      BY <2>1, <3>1 DEF OfThread
  <2>4. \A q \in Page : \A thread \in loading'[q] :
          thread \in loading[q] \/ thread = t
    BY <2>2
  <2>5. \A q \in Page : chat'[q] = chat[q]
    BY <1>3 DEF OpenThread
  <2> QED
    BY <1>3, <2>1, <2>2, <2>3, <2>4, <2>5, PageStep DEF OpenThread
<1>4. ASSUME NEW p \in Page, NEW thread \in loading[p], Arrived(p, thread)
      PROVE  /\ \A q \in Page : loading'[q] \subseteq loading[q]
             /\ thread.id \in Saved
             /\ \A f : IsRoot(f) => OfThread(f, thread.id, thread.turns)
  BY <1>4 DEF Arrived, ThreadInv, KeysKnown, Unmixed
<1>5. ASSUME NEW p \in Page, NEW thread \in loading[p],
             ThreadLoaded(p, thread) \/ ThreadRefused(p, thread)
      PROVE  ThreadInv'
  <2>1. /\ Arrived(p, thread)
        /\ UNCHANGED <<rows, issued, asked, replies, posts>>
        /\ Load(p, thread.id, thread.turns) \/ Load(p, thread.id, << >>)
    BY <1>5 DEF ThreadLoaded, ThreadRefused
  <2>2. \A q \in Page :
          \/ chat'[q].key = chat[q].key /\ chat'[q].turns = chat[q].turns
          \/ /\ Known(chat'[q].key)
             /\ \A f : IsRoot(f) => OfThread(f, chat'[q].key, chat'[q].turns)
    BY <1>4, <2>1, EmptyThread, MountLoaded
  <2> QED
    BY <1>4, <2>1, <2>2, PageStep
<1>6. ASSUME NEW p \in Page, NEW thread \in loading[p], NEW k \in FreshKey,
             LoadFailed(p, thread, k)
      PROVE  ThreadInv'
  <2>1. CASE UNCHANGED chat
    BY <1>4, <1>6, <2>1, PageStep DEF LoadFailed
  <2>2. CASE Mount(p, Blank(k))
    BY <1>4, <1>6, <2>2, MountBlank, PageStep DEF LoadFailed
  <2> QED
    BY <1>6, <2>1, <2>2 DEF LoadFailed
<1>7. ASSUME NEW p \in Page, Send(p) PROVE ThreadInv'
  BY <1>7, SendStep
<1>8. ASSUME NEW r \in replies, Answered(r) \/ Unanswered(r) PROVE ThreadInv'
  <2>1. Settle(r) /\ replies' = replies \ {r} /\ UNCHANGED <<rows, loading, asked>>
    BY <1>8 DEF Answered, Unanswered
  <2>2. \A q \in Page : chat'[q].key = chat[q].key /\ chat'[q].turns = chat[q].turns
    <3>1. PICK c : c = [chat[r.page] EXCEPT !.asking = IF @ = r.n THEN 0 ELSE @]
      OBVIOUS
    <3>2. chat' = [chat EXCEPT ![r.page] = c] /\ r.page \in Page
      BY <1>0, <2>1, <3>1 DEF Settle, Reply
    <3>3. c.key = chat[r.page].key /\ c.turns = chat[r.page].turns
      BY <1>0, <3>1, <3>2 DEF Chat
    <3> QED
      BY <1>0, <3>2, <3>3
  <2>3. \A post \in posts' :
          \/ post \in posts
          \/ \E q \in replies : post.key = q.key /\ post.turns = q.turns
    BY <1>8 DEF Answered, Unanswered
  <2> QED
    BY <2>1, <2>2, <2>3, PageStep
<1>9. ASSUME NEW post \in posts, NEW i \in RowId, UpsertConversation(post, i)
      PROVE  ThreadInv'
  BY <1>9, OverwriteStep, CreateStep DEF UpsertConversation
<1>10. ASSUME NEW post \in posts, PostLost(post) PROVE ThreadInv'
  BY <1>10, PageStep DEF PostLost
<1>11. CASE UNCHANGED vars
  BY <1>11, PageStep DEF vars
<1> QED
  BY <1>1, <1>2, <1>3, <1>5, <1>6, <1>7, <1>8, <1>9, <1>10, <1>11 DEF Next

LEMMA ThreadsHold == Spec => []ThreadInv
<1>1. Init => ThreadInv
  <2> SUFFICES ASSUME Init PROVE ThreadInv
    OBVIOUS
  <2>1. Saved = {}
    BY DEF Init, Saved
  <2>2. PICK g : g = [k \in Key |-> k]
    OBVIOUS
  <2>3. IsRoot(g)
    BY <2>1, <2>2 DEF IsRoot
  <2>4. ASSUME NEW p \in Page
        PROVE  Known(chat[p].key) /\ chat[p].turns = << >>
    <3>1. PICK k \in ContextKey : chat[p] = Blank(k)
      BY DEF Init
    <3> QED
      BY <3>1, FreshIsKnown DEF Blank
  <2>5. Len(asked) = 0
    BY DEF Init
  <2>6. KeysKnown
    BY <2>1, <2>4, <2>5 DEF Init, KeysKnown
  <2>7. \A f : Unmixed(f)
    BY <2>1, <2>4, EmptyThread DEF Init, Unmixed
  <2> QED
    BY <2>3, <2>6, <2>7 DEF ThreadInv
<1>2. TypeOK /\ ThreadInv /\ [Next]_vars => ThreadInv'
  BY ThreadStep
<1> QED
  BY <1>1, <1>2, TypeCorrect, PTL DEF Spec

(* However late answers, posts and loads come and however pages are turned   *)
(* meanwhile, a row holds no question of another thread; for any number of   *)
(* pages, threads and turns.                                                 *)
THEOREM NoThreadInAnothersRow == Spec => []ThreadsNotMixed
<1>1. ThreadInv => ThreadsNotMixed
  <2> SUFFICES ASSUME ThreadInv PROVE ThreadsNotMixed
    OBVIOUS
  <2>1. \E f : f = [k \in Key |-> IF k \in Saved THEN f[rows[k].key] ELSE k]
    BY DEF ThreadInv, IsRoot
  <2>2. Root = [k \in Key |-> IF k \in Saved THEN Root[rows[k].key] ELSE k]
    BY <2>1 DEF Root
  <2>3. Unmixed(Root)
    BY <2>2 DEF ThreadInv, IsRoot
  <2> QED
    BY <2>3 DEF Unmixed, OfThread, ThreadsNotMixed
<1> QED
  BY <1>1, ThreadsHold, PTL
=============================================================================
