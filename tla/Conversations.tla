---------------------------- MODULE Conversations ----------------------------
(***************************************************************************)
(* The saved threads of the assistant.  A page shows one chat              *)
(* (assistant-chat.tsx); after each answer the chat posts the whole thread *)
(* under its thread key, and the API writes it over the row with that key  *)
(* or creates one (routers/assistant.py).  The panel beside the chat loads *)
(* a saved thread into it (assistant-workspace.tsx).                       *)
(*                                                                         *)
(* Answers, posts and loads take their time, and the analyst may meanwhile *)
(* turn to another thread.  The handler of a post has no await, and there  *)
(* is one API process.  A question and its answer are one turn here; what  *)
(* a deployed rule card adds to a chat is left out.                        *)
(***************************************************************************)
EXTENDS Naturals, Sequences, FiniteSets

CONSTANTS
  Page,        \* open pages of the assistant
  ContextKey,  \* the thread keys of incidents and cases
  FreshKey,    \* the keys randomUUID makes up
  RowId,       \* ids of rows; uuid4, never issued twice
  NoRow,
  MaxTurns,    \* bound on the questions asked
  Faults       \* may answers be empty, and posts and loads fail?

ASSUME KeyAssumption ==
  /\ ContextKey \cap FreshKey = {}
  /\ (ContextKey \cup FreshKey) \cap RowId = {}
  /\ NoRow \notin RowId \cup [key : ContextKey \cup FreshKey \cup RowId,
                              turns : Seq(Nat)]
  /\ MaxTurns \in Nat
  /\ Faults \in BOOLEAN

(* A loaded thread has its row's id for a key. *)
Key == ContextKey \cup FreshKey \cup RowId

VARIABLES
  rows,     \* the saved conversations
  issued,   \* the fresh keys made up so far
  chat,     \* the chat each page shows
  loading,  \* the threads on their way to each page, as they were read
  asked,    \* for each question, in order: the chat it was asked in
  replies,  \* questions being answered, with the thread they end
  posts     \* threads on their way to the API

vars == <<rows, issued, chat, loading, asked, replies, posts>>

Turns == Seq(1 .. MaxTurns)

Row == [key : Key, turns : Turns]

(* loaded: the row the chat was loaded from; asking: the question being       *)
(* answered in it, or 0.                                                      *)
Chat == [loaded : RowId \cup {NoRow}, key : Key, turns : Turns,
         asking : 0 .. MaxTurns]

Reply == [page : Page, n : 1 .. MaxTurns, key : Key, turns : Turns]

TypeOK ==
  /\ rows \in [RowId -> Row \cup {NoRow}]
  /\ issued \subseteq FreshKey
  /\ chat \in [Page -> Chat]
  /\ \A p \in Page : loading[p] \subseteq [id : RowId, turns : Turns]
  /\ asked \in Seq([key : Key, loaded : RowId \cup {NoRow}])
  /\ replies \subseteq Reply
  /\ posts \subseteq Row

Saved == {i \in RowId : rows[i] # NoRow}

Blank(k) == [loaded |-> NoRow, key |-> k, turns |-> << >>, asking |-> 0]

(* A page starts on the assistant of an incident or a case. *)
Init ==
  /\ rows = [i \in RowId |-> NoRow]
  /\ issued = {}
  /\ chat \in [Page -> {Blank(k) : k \in ContextKey}]
  /\ loading = [p \in Page |-> {}]
  /\ asked = << >>
  /\ replies = {}
  /\ posts = {}

Mount(p, c) == chat' = [chat EXCEPT ![p] = c]

-----------------------------------------------------------------------------
(* The panel. *)

(* The page of an incident or a case starts an empty chat with its key.  (From *)
(* the panel that has no effect on a loaded thread, which stays mounted.)      *)
OpenContext(p, k) ==
  /\ Mount(p, Blank(k))
  /\ UNCHANGED <<rows, issued, loading, asked, replies, posts>>

(* "New thread" leaves a context or a loaded thread, and only those. *)
NewThread(p, k) ==
  /\ chat[p].key \in ContextKey \cup RowId
  /\ k \in FreshKey \ issued
  /\ issued' = issued \cup {k}
  /\ Mount(p, Blank(k))
  /\ UNCHANGED <<rows, loading, asked, replies, posts>>

(* A thread without context is read from its row ... *)
OpenThread(p, i) ==
  /\ i \in Saved
  /\ rows[i].key \notin ContextKey
  /\ loading' =
       [loading EXCEPT ![p] = @ \cup {[id |-> i, turns |-> rows[i].turns]}]
  /\ UNCHANGED <<rows, issued, chat, asked, replies, posts>>

Arrived(p, thread) ==
  /\ thread \in loading[p]
  /\ loading' = [loading EXCEPT ![p] = @ \ {thread}]

(* A loaded thread is mounted, unless it is the one the page shows already. *)
Load(p, i, turns) ==
  IF chat[p].loaded = i
  THEN UNCHANGED chat
  ELSE Mount(p, [loaded |-> i, key |-> i, turns |-> turns, asking |-> 0])

(* mutant: messages of other roles are not filtered out *)
ThreadLoaded_Unfiltered(p, thread) ==
  /\ Arrived(p, thread)
  /\ Load(p, thread.id, <<0>> \o thread.turns)
  /\ UNCHANGED <<rows, issued, asked, replies, posts>>

(* ... and comes, maybe when it has changed, or after another one, ... *)
ThreadLoaded(p, thread) ==
  /\ Arrived(p, thread)
  /\ Load(p, thread.id, thread.turns)
  /\ UNCHANGED <<rows, issued, asked, replies, posts>>

(* ... or is refused, and comes empty, ... *)
ThreadRefused(p, thread) ==
  /\ Faults
  /\ Arrived(p, thread)
  /\ Load(p, thread.id, << >>)
  /\ UNCHANGED <<rows, issued, asked, replies, posts>>

(* ... or not at all, and a loaded thread makes place for a new one. *)
LoadFailed(p, thread, k) ==
  /\ Faults
  /\ Arrived(p, thread)
  /\ IF chat[p].loaded = NoRow
     THEN UNCHANGED <<chat, issued>>
     ELSE /\ k \in FreshKey \ issued
          /\ issued' = issued \cup {k}
          /\ Mount(p, Blank(k))
  /\ UNCHANGED <<rows, asked, replies, posts>>

-----------------------------------------------------------------------------
(* The chat. *)

(* A question is sent when the chat is not busy. *)
Send(p) ==
  /\ chat[p].asking = 0
  /\ Len(asked) < MaxTurns
  /\ LET n == Len(asked) + 1
         thread == Append(chat[p].turns, n)
     IN /\ asked' = Append(asked, [key |-> chat[p].key,
                                   loaded |-> chat[p].loaded])
        /\ replies' = replies \cup
             {[page |-> p, n |-> n, key |-> chat[p].key, turns |-> thread]}
        /\ Mount(p, [chat[p] EXCEPT !.turns = thread, !.asking = n])
  /\ UNCHANGED <<rows, issued, loading, posts>>

Settle(r) ==
  chat' = [chat EXCEPT ![r.page].asking = IF @ = r.n THEN 0 ELSE @]

(* mutant: the thread is posted under the key the page has by now *)
Answered_CurrentKey(r) ==
  /\ r \in replies
  /\ replies' = replies \ {r}
  /\ posts' = posts \cup {[key |-> chat[r.page].key, turns |-> r.turns]}
  /\ Settle(r)
  /\ UNCHANGED <<rows, issued, loading, asked>>

(* The answer ends, whatever the page shows by now: the thread is posted ... *)
Answered(r) ==
  /\ r \in replies
  /\ replies' = replies \ {r}
  /\ posts' = posts \cup {[key |-> r.key, turns |-> r.turns]}
  /\ Settle(r)
  /\ UNCHANGED <<rows, issued, loading, asked>>

(* ... unless there was none (the stream was refused). *)
Unanswered(r) ==
  /\ Faults
  /\ r \in replies
  /\ replies' = replies \ {r}
  /\ Settle(r)
  /\ UNCHANGED <<rows, issued, loading, asked, posts>>

-----------------------------------------------------------------------------
(* The API. *)

(* mutant: the key is looked for among the ids *)
Existing_ById(k) == {i \in Saved : i = k}

Existing(k) == {i \in Saved : rows[i].key = k}

(* POST /conversations writes over the row with the thread's key, or creates *)
(* one, in the order in which the posts happen to arrive.                    *)
UpsertConversation(post, i) ==
  /\ post \in posts
  /\ posts' = posts \ {post}
  /\ IF Existing(post.key) # {} THEN i \in Existing(post.key) ELSE i \notin Saved
  /\ rows' = [rows EXCEPT ![i] = post]
  /\ UNCHANGED <<issued, chat, loading, asked, replies>>

(* "persistence is best-effort" *)
PostLost(post) ==
  /\ Faults
  /\ post \in posts
  /\ posts' = posts \ {post}
  /\ UNCHANGED <<rows, issued, chat, loading, asked, replies>>

Next ==
  \/ \E p \in Page :
       \/ \E k \in ContextKey : OpenContext(p, k)
       \/ \E k \in FreshKey : NewThread(p, k)
       \/ \E i \in RowId : OpenThread(p, i)
       \/ \E thread \in loading[p] :
            \/ ThreadLoaded(p, thread)
            \/ ThreadRefused(p, thread)
            \/ \E k \in FreshKey : LoadFailed(p, thread, k)
       \/ Send(p)
  \/ \E r \in replies : Answered(r) \/ Unanswered(r)
  \/ \E post \in posts :
       (\E i \in RowId : UpsertConversation(post, i)) \/ PostLost(post)

Spec == Init /\ [][Next]_vars

-----------------------------------------------------------------------------
(* Properties. *)

(* Posts are idempotent upserts: however often and in whatever order they     *)
(* come, there is one row for each thread key ("matched on for idempotent     *)
(* upserts", upsert_conversation).                                            *)
OneRowPerKey ==
  \A i, j \in Saved : rows[i].key = rows[j].key => i = j

(* The key a thread began with, over the rows it was loaded from. *)
Root[k \in Key] == IF k \in Saved THEN Root[rows[k].key] ELSE k

(* Threads are never mixed: a row only holds questions that were asked in its *)
(* own thread, although answers arrive, posts land and threads are loaded     *)
(* while the page shows another one.                                          *)
ThreadsNotMixed ==
  \A i \in Saved : \A k \in 1 .. Len(rows[i].turns) :
    Root[asked[rows[i].turns[k]].key] = Root[rows[i].key]

(* "A loaded thread keeps its stored id so replies update the same Supabase   *)
(* thread" (assistant-chat.tsx): what is asked in a loaded thread and saved   *)
(* is saved in the row it was loaded from.                                    *)
RepliesUpdateSameThread ==
  \A i \in Saved : \A k \in 1 .. Len(rows[i].turns) :
    LET from == asked[rows[i].turns[k]].loaded IN from # NoRow => i = from
=============================================================================
