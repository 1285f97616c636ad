---------------------------- MODULE PulseProofs ----------------------------
(***************************************************************************)
(* Proofs about what Pulse does around the reports and the code index, for *)
(* any number of people, repositories, requests, rows and passes: what     *)
(* answers may quote, who is dropped when people leave, whose money is     *)
(* spent and how much of it, and what a pass over GitHub may leave behind. *)
(* The parts share no state, so each has an invariant of its own that the  *)
(* steps of the others leave alone.                                        *)
(***************************************************************************)
EXTENDS MCPulse, Sequences, Totals

(***************************************************************************)
(* Answers.  The two rules about access agree in every state; that nothing *)
(* unreadable is quoted needs the history of a question: what it may       *)
(* search was readable when it was put (AsksOK), and each step only        *)
(* narrows that, while access and indexes change as they like.             *)
(***************************************************************************)
Questions == {Asked(s, t, v) : s \in SUBSET Repo, t \in (SUBSET Repo) \cup {None}, v \in SUBSET Repo}
Replies  == {Answered(s, v) : s \in SUBSET Repo, v \in SUBSET Repo}

Kept ==
  /\ question \in [User -> Questions \cup {None}]
  /\ answers \in [User -> (SUBSET Replies) \cup {None}]

(* A question in hand searches, and is shown, what was readable. *)
Founded(q) == q.scope \subseteq q.seen /\ (q.shown # None => q.shown \subseteq q.seen)
AsksOK == \A u \in User : question[u] # None => Founded(question[u])

IInv == Kept /\ AsksOK /\ QuotesWereReadable

-----------------------------------------------------------------------------
(* What a question and an answer are put together from. *)
LEMMA Fields ==
  \A s, t, v : /\ Asked(s, t, v).scope = s /\ Asked(s, t, v).shown = t /\ Asked(s, t, v).seen = v
               /\ Answered(s, v).cites = s /\ Answered(s, v).seen = v
BY DEF Asked, Answered

LEMMA QuestionParts ==
  ASSUME NEW s \in SUBSET Repo, NEW t \in (SUBSET Repo) \cup {None}, NEW v \in SUBSET Repo
  PROVE  Asked(s, t, v) \in Questions
BY DEF Questions

LEMMA QuestionFields ==
  ASSUME Kept, NEW u \in User, question[u] # None
  PROVE  /\ question[u].scope \subseteq Repo /\ question[u].seen \subseteq Repo
         /\ question[u].shown \in (SUBSET Repo) \cup {None}
<1>1. PICK s \in SUBSET Repo, t \in (SUBSET Repo) \cup {None}, v \in SUBSET Repo :
        question[u] = Asked(s, t, v)
  BY DEF Kept, Questions
<1>. QED
  BY <1>1, Fields

(* visible_repo_scope finds what _can_see_repo opens and the other way round. *)
LEMMA SameRule ==
  ASSUME NEW u, NEW r \in Repo
  PROVE  /\ u \notin Admin => (r \in VisibleScope(u) <=> CanSee(u, r))
         /\ r \in VisibleScope(u) => CanSee(u, r)
<1>1. HoldsPost(u, r) <=> post[r]["lead"] = u \/ post[r]["deputy"] = u
  BY DEF HoldsPost, Post
<1>2. r \in VisibleScope(u) <=> \/ post[r]["lead"] = u \/ post[r]["deputy"] = u
                                \/ work[u][r] # {} \/ (role[u] # "out" /\ filed[r])
  BY DEF VisibleScope, WorkedIn
<1>. QED
  BY <1>1, <1>2 DEF CanSee

(* The rule in Python, the rule in SQL and the narrower rule for writing   *)
(* (access.py: _can_see_repo, visible_repo_scope, may_write_on_repo) say   *)
(* the same of everyone, whatever access they have had.                    *)
THEOREM RulesAgree == Spec => []SameRepositories
<1>1. SameRepositories
  <2> SUFFICES ASSUME NEW u \in User, NEW r \in Tracked
               PROVE  (r \in Listed(u) <=> CanSee(u, r)) /\ (MayWrite(u, r) => CanSee(u, r))
    BY DEF SameRepositories
  <2>1. r \in Listed(u) <=> CanSee(u, r)
    BY SameRule DEF Listed, CanSee, Tracked
  <2>2. MayWrite(u, r) => CanSee(u, r)
    BY DEF MayWrite, CanSee
  <2>. QED
    BY <2>1, <2>2
<1>. QED
  BY <1>1, PTL

-----------------------------------------------------------------------------
LEMMA InitAnswers == Init => IInv
<1> SUFFICES ASSUME Init PROVE IInv
  OBVIOUS
<1>1. Kept
  BY DEF Init, Kept
<1>. QED
  BY <1>1 DEF Init, IInv, AsksOK, QuotesWereReadable

(* What neither puts a question nor stores an answer keeps both. *)
LEMMA OthersKeep ==
  ASSUME IInv, question' = question, answers' = answers
  PROVE  IInv'
BY DEF IInv, Kept, AsksOK, Founded, QuotesWereReadable

(* A question that is put, narrowed or dropped. *)
LEMMA AskingKeeps ==
  ASSUME IInv, NEW u, NEW q \in Questions \cup {None}, q # None => Founded(q),
         question' = [question EXCEPT ![u] = q], answers' = answers
  PROVE  IInv'
<1>1. Kept'
  BY DEF IInv, Kept
<1>2. \A x \in User : question'[x] = IF x = u THEN q ELSE question[x]
  BY DEF IInv, Kept
<1>3. AsksOK'
  <2> SUFFICES ASSUME NEW x \in User, question'[x] # None
               PROVE  Founded(question'[x])
    BY DEF AsksOK, Founded
  <2>. QED
    BY <1>2 DEF IInv, AsksOK
<1>4. QuotesWereReadable'
  BY DEF IInv, QuotesWereReadable
<1>. QED
  BY <1>1, <1>3, <1>4 DEF IInv

LEMMA PutKeeps ==
  ASSUME IInv, NEW u, Put(u)
  PROVE  IInv'
<1> DEFINE q == Asked(Searchable(u), None, Quotable(u))
<1>1. Searchable(u) \subseteq Quotable(u)
  BY SameRule DEF Searchable, Quotable, Readable, CanSee
<1>2. q \in Questions
  <2>1. Searchable(u) \in SUBSET Repo /\ Quotable(u) \in SUBSET Repo
    BY DEF Searchable, Quotable
  <2>. QED
    BY <2>1, QuestionParts
<1>3. Founded(q)
  BY <1>1, Fields DEF Founded
<1>4. question' = [question EXCEPT ![u] = q] /\ answers' = answers
  BY DEF Put
<1> HIDE DEF q
<1>. QED
  BY <1>2, <1>3, <1>4, AskingKeeps

LEMMA RetrieveKeeps ==
  ASSUME IInv, NEW u \in User, NEW found, Retrieve(u, found)
  PROVE  IInv'
<1> DEFINE q == Asked(question[u].scope, found, question[u].seen)
<1>1. question[u] # None /\ found \subseteq question[u].scope
  BY DEF Retrieve
<1>2. Founded(question[u]) /\ question[u].scope \subseteq Repo /\ question[u].seen \subseteq Repo
  BY <1>1, QuestionFields DEF IInv, AsksOK
<1>3. q \in Questions
  BY <1>1, <1>2 DEF Questions
<1>4. Founded(q)
  BY <1>1, <1>2, Fields DEF Founded
<1>5. question' = [question EXCEPT ![u] = q] /\ answers' = answers
  BY DEF Retrieve
<1> HIDE DEF q
<1>. QED
  BY <1>3, <1>4, <1>5, AskingKeeps

LEMMA StoreKeeps ==
  ASSUME IInv, NEW u \in User, NEW named, Store(u, named)
  PROVE  IInv'
<1> DEFINE a == Answered(named, question[u].seen)
<1>1. /\ question[u] # None /\ question[u].shown # None
      /\ named \subseteq question[u].shown
      /\ question' = [question EXCEPT ![u] = None]
      /\ answers' = [answers EXCEPT ![u] = {a}]
  BY DEF Store
<1>2. /\ named \subseteq question[u].seen
      /\ question[u].seen \subseteq Repo
  BY <1>1, QuestionFields DEF IInv, AsksOK, Founded
<1>3. a \in Replies /\ a.cites \subseteq a.seen
  BY <1>2, Fields DEF Replies
<1> HIDE DEF a
<1>4. Kept'
  BY <1>1, <1>3 DEF IInv, Kept
<1>5. AsksOK'
  <2>1. \A x \in User : question'[x] = None \/ question'[x] = question[x]
    BY <1>1 DEF IInv, Kept
  <2>. QED
    BY <2>1 DEF IInv, AsksOK, Founded
<1>6. QuotesWereReadable'
  <2>1. \A x \in User : answers'[x] = IF x = u THEN {a} ELSE answers[x]
    BY <1>1 DEF IInv, Kept
  <2>. QED
    BY <1>3, <2>1 DEF IInv, QuotesWereReadable
<1>. QED
  BY <1>4, <1>5, <1>6 DEF IInv

(* A conversation begins without answers, or goes. *)
LEMMA ConversationKeeps ==
  ASSUME IInv, NEW u, CreateConversation(u) \/ DeleteConversation(u)
  PROVE  IInv'
<1>1. PICK c \in {{}, None} : question' = question /\ answers' = [answers EXCEPT ![u] = c]
  BY DEF CreateConversation, DeleteConversation
<1>2. \A x \in User : answers'[x] = IF x = u THEN c ELSE answers[x]
  BY <1>1 DEF IInv, Kept
<1>3. Kept'
  BY <1>1 DEF IInv, Kept
<1>4. QuotesWereReadable'
  BY <1>1, <1>2 DEF IInv, QuotesWereReadable
<1>5. AsksOK'
  BY <1>1 DEF IInv, AsksOK, Founded
<1>. QED
  BY <1>3, <1>4, <1>5 DEF IInv

LEMMA NextAnswers ==
  ASSUME Asker \subseteq User, IInv, [Next]_vars
  PROVE  IInv'
<1>1. ASSUME NEW u \in Asker,
             \/ \E to \in {"out", "member", "admin"} : Move(u, to)
             \/ \E r \in Repo :
                  \/ \E kind \in {"authored", "reviewed"} : DoWork(u, r, kind) \/ Age(u, r, kind)
                  \/ PostEntry(u, r) \/ (\E by \in User : DeleteEntry(by, u, r))
                  \/ RequestIndex(u, r) \/ FinishIndex(u, r) \/ DeleteIndex(u, r)
      PROVE  IInv'
  <2>1. question' = question /\ answers' = answers
    BY <1>1 DEF Move, DoWork, Age, PostEntry, DeleteEntry, RequestIndex, FinishIndex, DeleteIndex
  <2>. QED
    BY <2>1, OthersKeep
<1>2. ASSUME NEW u \in Asker, CreateConversation(u) \/ DeleteConversation(u)
      PROVE  IInv'
  BY <1>2, ConversationKeeps
<1>3. ASSUME NEW u \in Asker, Put(u) \/ GiveUp(u)
      PROVE  IInv'
  <2>1. CASE Put(u)
    BY <2>1, PutKeeps
  <2>2. CASE GiveUp(u)
    <3>1. question' = [question EXCEPT ![u] = None] /\ answers' = answers
      BY <2>2 DEF GiveUp
    <3>. QED
      BY <3>1, AskingKeeps
  <2>. QED
    BY <1>3, <2>1, <2>2
<1>4. ASSUME NEW u \in Asker, NEW rs \in SUBSET Repo, Retrieve(u, rs) \/ Store(u, rs)
      PROVE  IInv'
  BY <1>4, RetrieveKeeps, StoreKeeps
<1>5. ASSUME NEW r \in Repo,
             \/ \E closed \in BOOLEAN : Track(r, closed) \/ Publish(r, closed)
             \/ \E by \in User :
                  \/ SetDepartment(by, r)
                  \/ \E p \in Post, u \in User \cup {None} :
                         SetPost(by, r, p, u) \/ ReadPost(by, r, p, u)
      PROVE  IInv'
  <2>1. question' = question /\ answers' = answers
    BY <1>5 DEF Track, Publish, SetDepartment, SetPost, ReadPost
  <2>. QED
    BY <2>1, OthersKeep
<1>6. CASE WritePost \/ UNCHANGED vars
  <2>1. question' = question /\ answers' = answers
    BY <1>6 DEF WritePost, vars
  <2>. QED
    BY <2>1, OthersKeep
<1>7. ASSUME NEW u \in Asker,
             \/ \E to \in {"out", "member", "admin"} : Move(u, to)
             \/ \E r \in Repo :
                  \/ \E kind \in {"authored", "reviewed"} : DoWork(u, r, kind) \/ Age(u, r, kind)
                  \/ PostEntry(u, r) \/ (\E by \in User : DeleteEntry(by, u, r))
                  \/ RequestIndex(u, r) \/ FinishIndex(u, r) \/ DeleteIndex(u, r)
             \/ CreateConversation(u) \/ DeleteConversation(u) \/ Put(u) \/ GiveUp(u)
             \/ \E rs \in SUBSET Repo : Retrieve(u, rs) \/ Store(u, rs)
      PROVE  IInv'
  BY <1>1, <1>2, <1>3, <1>4, <1>7
<1>. QED
  BY <1>5, <1>6, <1>7 DEF Next

(* No stored answer quotes a repository its reader could not read when the *)
(* question was put (chat.py: answer, _searchable_indexes), for any number *)
(* of people, questions and indexes that come and go meanwhile, unless the *)
(* index it quotes was asked for before Pulse tracked the repository.      *)
THEOREM NothingUnreadableQuoted == Spec => []QuotesWereReadable
<1>1. IInv /\ [Next]_vars => IInv'
  BY NextAnswers, PulseAssumption
<1>2. IInv => QuotesWereReadable
  BY DEF IInv
<1>. QED
  BY InitAnswers, <1>1, <1>2, PTL DEF Spec

-----------------------------------------------------------------------------
(***************************************************************************)
(* People who leave.  A pass finds out about people batch by batch, and what*)
(* it has read of somebody may be out of date when it drops them.  With k  *)
(* batches left, what is out of date is younger than Long less the time they*)
(* take (InTime), and so is what the cache has (CacheOK).                  *)
(***************************************************************************)
Words == {"active", "inactive", "unknown"}

Calls ==
  [pc : {"idle", "next", "answer"}, kind : {None, "pass", "names"}, asked : SUBSET Staff, misses : SUBSET Staff,
   batch : SUBSET Staff, said : [Staff -> Words \cup {None}], silence : BOOLEAN, age : Nat]

Entries == [active : BOOLEAN, left : 1 .. TTL]

LeaverTypes ==
  /\ person \in [Staff -> Words] /\ since \in [Staff -> Int]
  /\ connected \subseteq Staff
  /\ cache \in [Staff -> Entries \cup {None}]
  /\ call \in [Leavers!Thread -> Calls]

Here(u) == person[u] = "active"

(* What a call or the cache has of somebody is no longer so. *)
Wrong(c, u)  == c.said[u] # None /\ ~(c.said[u] = "active" <=> Here(u))
Outdated(u)  == cache[u] # None /\ ~(cache[u].active <=> Here(u))

(* The k batches that are left take no longer than Long allows. *)
InTime(c) ==
  \E k \in Nat :
    /\ Cardinality(c.misses) <= k * Batch
    /\ Latency * k < Leavers!Long
    /\ \A u \in Staff : Wrong(c, u) => since[u] + Latency * k - c.age < Leavers!Long

Asking(c) ==
  /\ c.batch \subseteq c.misses /\ c.batch # {}
  /\ Cardinality(c.batch) = Batch \/ c.batch = c.misses
  /\ c.age <= Latency
  /\ \A u \in c.batch : c.said[u] # None /\ (Wrong(c, u) => since[u] <= c.age)

FineCall(c) ==
  /\ c.misses \subseteq c.asked
  /\ IF c.pc = "answer" THEN Asking(c) ELSE c.age = 0
  /\ ~c.silence => \A u \in c.asked \ c.misses : c.said[u] # None
  /\ InTime(c)

CacheOK == \A u \in Staff : Outdated(u) => since[u] + cache[u].left <= TTL + Latency
CallsOK == \A t \in Leavers!Thread : FineCall(call[t])

LeaverIInv == LeaverTypes /\ CacheOK /\ CallsOK

-----------------------------------------------------------------------------
(* Sizes are the same in People and here. *)
LEMMA LeaverSame ==
  /\ \A S : Leavers!Cardinality(S) = Cardinality(S)
  /\ \A S : Leavers!IsFiniteSet(S) <=> IsFiniteSet(S)
<1>1. \A S : Leavers!Cardinality(S) = Cardinality(S)
  BY Zenon DEF Cardinality, Leavers!Cardinality
<1>2. \A S : Leavers!IsFiniteSet(S) <=> IsFiniteSet(S)
  BY Zenon DEF IsFiniteSet, Leavers!IsFiniteSet
<1>. QED
  BY <1>1, <1>2

LEMMA Division ==
  ASSUME NEW n \in Nat, NEW d \in Nat \ {0}
  PROVE  /\ (n + d - 1) \div d \in Nat
         /\ n <= ((n + d - 1) \div d) * d
OBVIOUS

LEMMA LongIs ==
  ASSUME Leavers!Settings, NEW u \in Staff
  PROVE  /\ Leavers!Batches \in Nat /\ Leavers!Long \in Nat
         /\ Leavers!Long = TTL + Latency * (1 + Leavers!Batches)
         /\ Latency * (1 + Leavers!Batches) < Leavers!Long /\ TTL + Latency <= Leavers!Long
         /\ \A S \in SUBSET Staff :
                IsFiniteSet(S) /\ Cardinality(S) \in Nat
                /\ Cardinality(S) <= (Leavers!Batches + 1) * Batch
         /\ \A S \in SUBSET (Staff \ {u}) : Cardinality(S) <= Leavers!Batches * Batch
<1>1. Cardinality(Staff) \in Nat /\ Cardinality(Staff \ {u}) = Cardinality(Staff) - 1
        /\ IsFiniteSet(Staff \ {u})
  BY FS_CardinalityType, FS_RemoveElement, LeaverSame DEF Leavers!Settings
<1>2. Cardinality(Staff) - 1 \in Nat
  BY <1>1, FS_CardinalityType
<1>3. Leavers!Batches \in Nat /\ Cardinality(Staff) - 1 <= Leavers!Batches * Batch
  BY <1>2, Division, LeaverSame DEF Leavers!Batches, Leavers!Settings
<1>4. \A S \in SUBSET Staff :
          IsFiniteSet(S) /\ Cardinality(S) \in Nat /\ Cardinality(S) <= Cardinality(Staff)
  BY FS_Subset, FS_CardinalityType, LeaverSame DEF Leavers!Settings
<1>5. \A S \in SUBSET (Staff \ {u}) : Cardinality(S) \in Nat /\ Cardinality(S) <= Cardinality(Staff) - 1
  BY <1>1, FS_Subset, FS_CardinalityType
<1>6. Leavers!Batches * Batch \in Nat /\ (Leavers!Batches + 1) * Batch = Leavers!Batches * Batch + Batch
  BY <1>3 DEF Leavers!Settings
<1>7. Latency * Leavers!Batches \in Nat
        /\ Latency * (1 + Leavers!Batches) = Latency + Latency * Leavers!Batches
  BY <1>3 DEF Leavers!Settings
<1>8. Leavers!Long = TTL + Latency * (1 + Leavers!Batches)
  BY DEF Leavers!Long
<1>. QED
  BY <1>1, <1>3, <1>4, <1>5, <1>6, <1>7, <1>8 DEF Leavers!Settings

(* The remaining batches after one of them. *)
LEMMA OneLess ==
  ASSUME Leavers!Settings, NEW c \in Calls, Asking(c), InTime(c)
  PROVE  \E k \in Nat :
           /\ Cardinality(c.misses \ c.batch) <= k * Batch
           /\ Latency * k < Leavers!Long
           /\ \A u \in Staff : Wrong(c, u) /\ since[u] \in Int => since[u] + Latency * k < Leavers!Long
<1>1. PICK k \in Nat : /\ Cardinality(c.misses) <= k * Batch
                       /\ Latency * k < Leavers!Long
                       /\ \A u \in Staff : Wrong(c, u) => since[u] + Latency * k - c.age < Leavers!Long
  BY DEF InTime
<1>2. PICK u \in Staff : u \in c.batch
  BY DEF Asking, Calls
<1>3. IsFiniteSet(c.misses) /\ IsFiniteSet(c.batch) /\ Cardinality(c.misses) \in Nat
        /\ Cardinality(c.batch) \in Nat
  BY <1>2, LongIs DEF Calls
<1>4. Cardinality(c.misses \ c.batch) = Cardinality(c.misses) - Cardinality(c.batch)
  <2>1. c.misses \cap c.batch = c.batch
    BY DEF Asking
  <2>. QED
    BY <1>3, <2>1, FS_Difference
<1>5. Cardinality(c.batch) # 0
  BY <1>2, <1>3, FS_EmptySet
<1>6. k # 0
  <2>1. Cardinality(c.misses) # 0
    BY <1>2, <1>3, FS_EmptySet DEF Asking
  <2>. QED
    BY <1>1, <1>3, <2>1 DEF Leavers!Settings
<1> DEFINE j == k - 1
<1>7. j \in Nat /\ j * Batch = k * Batch - Batch /\ Latency * j = Latency * k - Latency
        /\ j * Batch \in Nat
  BY <1>6 DEF Leavers!Settings
<1>8. Cardinality(c.misses \ c.batch) <= j * Batch
  <2>1. CASE Cardinality(c.batch) = Batch
    BY <1>1, <1>3, <1>4, <1>7, <2>1 DEF Leavers!Settings
  <2>2. CASE c.batch = c.misses
    BY <1>3, <1>4, <1>7, <2>2
  <2>. QED
    BY <2>1, <2>2 DEF Asking
<1>9. c.age \in Nat /\ c.age <= Latency /\ Latency * k \in Int /\ Leavers!Long \in Int
  BY <1>2, LongIs DEF Asking, Calls, Leavers!Settings
<1>10. Latency * j < Leavers!Long /\ \A v \in Staff :
           Wrong(c, v) /\ since[v] \in Int => since[v] + Latency * j < Leavers!Long
  BY <1>1, <1>7, <1>9 DEF Leavers!Settings
<1>. QED
  BY <1>7, <1>8, <1>10

-----------------------------------------------------------------------------
LEMMA IdleIsFine ==
  ASSUME Leavers!Settings
  PROVE  Leavers!Idle \in Calls /\ FineCall(Leavers!Idle) /\ FineCall(Leavers!Idle)'
<1>1. Leavers!Idle \in Calls
  BY DEF Leavers!Idle, Calls
<1>2. Leavers!Idle.pc = "idle" /\ Leavers!Idle.misses = {} /\ Leavers!Idle.age = 0
        /\ Leavers!Idle.asked = {} /\ \A u \in Staff : Leavers!Idle.said[u] = None
  BY DEF Leavers!Idle
<1>3. Leavers!Long > 0
  <2>1. CASE Staff = {}
    <3>1. Cardinality(Staff) = 0
      BY <2>1, FS_EmptySet
    <3>2. Leavers!Batches = IF Batch = 1 THEN -1 ELSE 0
      BY <3>1, LeaverSame DEF Leavers!Batches, Leavers!Settings
    <3>. QED
      BY <3>2 DEF Leavers!Long, Leavers!Settings
  <2>2. CASE Staff # {}
    <3>1. PICK u : u \in Staff
      BY <2>2
    <3>2. Latency * (1 + Leavers!Batches) \in Nat /\ Latency * (1 + Leavers!Batches) < Leavers!Long
            /\ Leavers!Long \in Nat
      BY <3>1, LongIs DEF Leavers!Settings
    <3>. QED
      BY <3>2
  <2>. QED
    BY <2>1, <2>2
<1>4. InTime(Leavers!Idle) /\ InTime(Leavers!Idle)'
  <2>1. Cardinality(Leavers!Idle.misses) <= 0 * Batch /\ Latency * 0 < Leavers!Long
    BY <1>2, <1>3, FS_EmptySet DEF Leavers!Settings
  <2>2. \A u \in Staff : ~Wrong(Leavers!Idle, u) /\ ~Wrong(Leavers!Idle, u)'
    BY <1>2 DEF Wrong
  <2>. QED
    BY <2>1, <2>2 DEF InTime
<1>. QED
  BY <1>1, <1>2, <1>4 DEF FineCall

LEMMA LeaverInitIInv ==
  ASSUME Leavers!Settings, Leavers!Init
  PROVE  LeaverIInv
<1>1. Leavers!Idle \in Calls /\ FineCall(Leavers!Idle)
  BY IdleIsFine
<1>2. \A t \in Leavers!Thread : call[t] = Leavers!Idle
  BY DEF Leavers!Init
<1>3. \A u \in Staff : Leavers!Long \in Int
  BY LongIs
<1>4. LeaverTypes
  BY <1>1, <1>3 DEF Leavers!Init, LeaverTypes, Words
<1>5. CacheOK
  BY DEF Leavers!Init, CacheOK, Outdated
<1>. QED
  BY <1>1, <1>2, <1>4, <1>5 DEF LeaverIInv, CallsOK

-----------------------------------------------------------------------------
(* Where people stay as they are, only the call that steps is in question. *)
LEMMA OtherCalls ==
  ASSUME CallsOK, UNCHANGED <<person, since>>, NEW t \in Leavers!Thread,
         call \in [Leavers!Thread -> Calls],
         NEW c \in Calls, call' = [call EXCEPT ![t] = c], FineCall(c)
  PROVE  CallsOK' /\ call' \in [Leavers!Thread -> Calls]
<1>1. FineCall(c)'
  BY Zenon DEF FineCall, Asking, InTime, Wrong, Here
<1>2. \A s \in Leavers!Thread : FineCall(call[s]) => s = t \/ FineCall(call[s])'
  <2> SUFFICES ASSUME NEW s \in Leavers!Thread, s # t, FineCall(call[s]) PROVE FineCall(call[s])'
    OBVIOUS
  <2>1. PICK d \in Calls : d = call[s] /\ call'[s] = d
    OBVIOUS
  <2>2. FineCall(d)'
    BY <2>1, Zenon DEF FineCall, Asking, InTime, Wrong, Here
  <2>. QED
    BY <2>1, <2>2
<1>. QED
  BY <1>1, <1>2 DEF CallsOK

LEMMA LeaverStartKeeps ==
  ASSUME Leavers!Settings, LeaverIInv, NEW t \in Leavers!Thread, NEW kind \in {"pass", "names"},
         NEW S \in SUBSET Staff, Leavers!Start(t, kind, S)
  PROVE  LeaverIInv'
<1> DEFINE c == [Leavers!Idle EXCEPT !.pc = "next", !.kind = kind, !.asked = S, !.misses = S \ Leavers!Hits(S), !.said = Leavers!Known(S)]
<1>1. call' = [call EXCEPT ![t] = c]
  BY DEF Leavers!Start
<1>2. PICK u0 : u0 \in S
  BY DEF Leavers!Start
<1>3. Leavers!Known(S) \in [Staff -> Words \cup {None}]
  BY DEF Leavers!Known, Words
<1>4. c \in Calls
  BY <1>3 DEF Calls, Leavers!Idle
<1>5. c.pc = "next" /\ c.asked = S /\ c.misses = S \ Leavers!Hits(S) /\ c.age = 0
        /\ c.said = Leavers!Known(S)
  BY DEF Leavers!Idle
<1> HIDE DEF c
<1>6. ASSUME NEW u \in Staff
      PROVE  /\ (u \in S \ c.misses) <=> (c.said[u] # None)
             /\ Wrong(c, u) => Outdated(u) /\ u \in Leavers!Hits(S)
  <2>1. CASE u \in Leavers!Hits(S)
    <3>1. cache[u] # None /\ cache[u].active \in BOOLEAN /\ u \in S
      BY <2>1 DEF Leavers!Hits, LeaverIInv, LeaverTypes, Entries
    <3>2. c.said[u] = IF cache[u].active THEN "active" ELSE "inactive"
      BY <1>5, <2>1 DEF Leavers!Known
    <3>. QED
      BY <1>5, <2>1, <3>1, <3>2 DEF Wrong, Outdated, Leavers!Settings
  <2>2. CASE u \notin Leavers!Hits(S)
    <3>1. c.said[u] = None
      BY <1>5, <2>2 DEF Leavers!Known
    <3>. QED
      BY <1>5, <2>2, <3>1 DEF Wrong
  <2>. QED
    BY <2>1, <2>2
<1>7. InTime(c)
  <2>1. c.misses \subseteq Staff /\ Leavers!Batches \in Nat
    BY <1>2, <1>5, LongIs
  <2>2. CASE \E u \in Staff : Wrong(c, u)
    <3>1. PICK u \in Staff : Wrong(c, u)
      BY <2>2
    <3>2. c.misses \subseteq Staff \ {u}
      BY <1>5, <1>6, <2>1, <3>1
    <3>3. Cardinality(c.misses) <= Leavers!Batches * Batch
      BY <3>1, <3>2, LongIs
    <3>4. Latency * (1 + Leavers!Batches) = Latency + Latency * Leavers!Batches
            /\ Latency * Leavers!Batches \in Nat /\ Latency \in Nat
      BY <2>1 DEF Leavers!Settings
    <3>5. Latency * (1 + Leavers!Batches) < Leavers!Long
            /\ Leavers!Long = TTL + Latency * (1 + Leavers!Batches) /\ Leavers!Long \in Nat
      BY <3>1, LongIs
    <3>6. Latency * Leavers!Batches < Leavers!Long
      BY <3>4, <3>5
    <3>7. ASSUME NEW v \in Staff, Wrong(c, v)
          PROVE  since[v] + Latency * Leavers!Batches - c.age < Leavers!Long
      <4>1. since[v] \in Int /\ cache[v].left \in Nat \ {0} /\ since[v] + cache[v].left <= TTL + Latency
        BY <3>7, <1>6 DEF LeaverIInv, CacheOK, LeaverTypes, Outdated, Entries
      <4>. QED
        BY <1>5, <3>4, <3>5, <4>1 DEF Leavers!Settings
    <3>. QED
      BY <2>1, <3>3, <3>6, <3>7 DEF InTime
  <2>3. CASE \A u \in Staff : ~Wrong(c, u)
    <3>1. Cardinality(c.misses) <= (Leavers!Batches + 1) * Batch
            /\ Latency * (Leavers!Batches + 1) < Leavers!Long /\ Leavers!Batches + 1 \in Nat
      BY <1>2, <2>1, LongIs
    <3>. QED
      BY <2>3, <3>1 DEF InTime
  <2>. QED
    BY <2>2, <2>3
<1>8. FineCall(c)
  BY <1>5, <1>6, <1>7 DEF FineCall
<1>9. CallsOK' /\ call' \in [Leavers!Thread -> Calls]
  BY <1>1, <1>4, <1>8, OtherCalls DEF LeaverIInv, LeaverTypes, Leavers!Start
<1>10. CacheOK'
  BY DEF LeaverIInv, CacheOK, Outdated, Here, Leavers!Start
<1>. QED
  BY <1>9, <1>10 DEF LeaverIInv, LeaverTypes, Leavers!Start

LEMMA LeaverAskKeeps ==
  ASSUME Leavers!Settings, LeaverIInv, NEW t \in Leavers!Thread, NEW S \in SUBSET Staff,
         Leavers!Ask(t, S)
  PROVE  LeaverIInv'
<1>1. PICK d \in Calls : d = call[t]
  BY DEF LeaverIInv, LeaverTypes
<1> DEFINE said == [u \in Staff |-> IF u \in S THEN person[u] ELSE d.said[u]]
<1> DEFINE c == [d EXCEPT !.pc = "answer", !.batch = S, !.age = 0, !.said = said]
<1>2. said \in [Staff -> Words \cup {None}]
  BY DEF LeaverIInv, LeaverTypes, Calls
<1>3. \A u \in Staff : said[u] = IF u \in S THEN person[u] ELSE d.said[u]
  OBVIOUS
<1>4. call' = [call EXCEPT ![t] = c]
  <2>1. said = [u \in Staff |-> IF u \in S THEN person[u] ELSE call[t].said[u]]
    BY <1>1
  <2> HIDE DEF said
  <2>2. call' = [call EXCEPT ![t] = [call[t] EXCEPT !.pc = "answer", !.batch = S, !.age = 0, !.said = said]]
    BY <2>1 DEF Leavers!Ask
  <2>. QED
    BY <1>1, <2>2
<1> HIDE DEF said
<1>5. c \in Calls
  BY <1>2 DEF Calls
<1>6. /\ c.pc = "answer" /\ c.asked = d.asked /\ c.misses = d.misses /\ c.batch = S
      /\ c.said = said /\ c.silence = d.silence /\ c.age = 0
  BY DEF Calls
<1> HIDE DEF c
<1>7. FineCall(d) /\ d.pc = "next" /\ d.age = 0
  BY <1>1 DEF LeaverIInv, CallsOK, FineCall, Leavers!Ask
<1>8. \A u \in Staff : Wrong(c, u) => u \notin S /\ Wrong(d, u)
  BY <1>3, <1>6 DEF Wrong, Here
<1>9. InTime(c)
  BY <1>6, <1>7, <1>8 DEF FineCall, InTime
<1>10. \A u \in S : person[u] # None
  BY DEF LeaverIInv, LeaverTypes, Leavers!Settings, Words
<1>11. Asking(c)
  BY <1>1, <1>3, <1>6, <1>8, <1>10, LeaverSame DEF Asking, Leavers!Ask, Leavers!Settings
<1>12. FineCall(c)
  <2>1. ASSUME ~c.silence, NEW u \in c.asked \ c.misses
        PROVE  c.said[u] # None
    BY <1>3, <1>6, <1>7, <1>10, <2>1 DEF FineCall, Calls
  <2>. QED
    BY <1>6, <1>7, <1>9, <1>11, <2>1 DEF FineCall
<1>13. CallsOK' /\ call' \in [Leavers!Thread -> Calls]
  <2>1. UNCHANGED <<person, since>>
    BY DEF Leavers!Ask
  <2>. QED
    BY <1>4, <1>5, <1>12, <2>1, OtherCalls DEF LeaverIInv, LeaverTypes
<1>14. CacheOK'
  BY DEF LeaverIInv, CacheOK, Outdated, Here, Leavers!Ask
<1>. QED
  BY <1>13, <1>14 DEF LeaverIInv, LeaverTypes, Leavers!Ask

(* A batch that is done with leaves a call that is in order. *)
LEMMA PastIsFine ==
  ASSUME Leavers!Settings, LeaverTypes, NEW d \in Calls, FineCall(d), d.pc = "answer", NEW c \in Calls,
         c.pc = "next", c.asked = d.asked, c.misses = d.misses \ d.batch, c.age = 0,
         \/ c.said = d.said /\ c.silence = d.silence
         \/ c.silence /\ \A u \in Staff : c.said[u] = IF u \in d.batch THEN None ELSE d.said[u]
  PROVE  FineCall(c)
<1>1. Asking(d) /\ InTime(d)
  BY DEF FineCall
<1>2. \A u \in Staff : Wrong(c, u) => Wrong(d, u)
  BY DEF Wrong
<1>3. InTime(c)
  <2>1. PICK k \in Nat : /\ Cardinality(d.misses \ d.batch) <= k * Batch
                         /\ Latency * k < Leavers!Long
                         /\ \A u \in Staff :
                                Wrong(d, u) /\ since[u] \in Int => since[u] + Latency * k < Leavers!Long
    BY <1>1, OneLess
  <2>2. \A u \in Staff : since[u] \in Int /\ since[u] + Latency * k - 0 = since[u] + Latency * k
    BY DEF LeaverTypes, Leavers!Settings
  <2>3. \A u \in Staff : Wrong(c, u) => since[u] + Latency * k - c.age < Leavers!Long
    BY <1>2, <2>1, <2>2
  <2>. QED
    BY <2>1, <2>3 DEF InTime
<1>4. ~c.silence => \A u \in c.asked \ c.misses : c.said[u] # None
  BY <1>1 DEF FineCall, Asking
<1>. QED
  BY <1>3, <1>4 DEF FineCall

LEMMA LeaverStoreKeeps ==
  ASSUME Leavers!Settings, LeaverIInv, NEW t \in Leavers!Thread, Leavers!Store(t)
  PROVE  LeaverIInv'
<1>1. PICK d \in Calls : d = call[t] /\ FineCall(d) /\ d.pc = "answer"
  BY DEF LeaverIInv, LeaverTypes, CallsOK, Leavers!Store
<1>2. PICK c : c = Leavers!Past(t, d.said, d.silence)
  OBVIOUS
<1>3. call' = [call EXCEPT ![t] = c]
  BY <1>1, <1>2 DEF Leavers!Store
<1>4. /\ c \in Calls /\ c.pc = "next" /\ c.asked = d.asked /\ c.misses = d.misses \ d.batch /\ c.age = 0
      /\ c.said = d.said /\ c.silence = d.silence
  BY <1>1, <1>2 DEF Leavers!Past, Calls
<1>5. FineCall(c)
  BY <1>1, <1>4, PastIsFine DEF LeaverIInv
<1>6. CallsOK' /\ call' \in [Leavers!Thread -> Calls]
  BY <1>3, <1>4, <1>5, OtherCalls DEF LeaverIInv, LeaverTypes, Leavers!Store
<1>7. ASSUME NEW u \in Staff
      PROVE  /\ cache'[u] \in Entries \cup {None}
             /\ Outdated(u)' => since[u] + cache'[u].left <= TTL + Latency
  <2>1. CASE cache'[u] = cache[u]
    BY <2>1 DEF LeaverIInv, LeaverTypes, CacheOK, Outdated, Here, Leavers!Store
  <2>2. CASE cache'[u] # cache[u]
    <3>1. u \in d.batch /\ cache'[u] = Leavers!Remembered(d.said[u]) /\ cache'[u] # None
      BY <1>1, <2>2 DEF Leavers!Store
    <3>2. cache'[u] = [active |-> d.said[u] = "active", left |-> TTL]
      BY <3>1 DEF Leavers!Remembered
    <3>3. cache'[u] \in Entries /\ (cache'[u].active <=> d.said[u] = "active") /\ cache'[u].left = TTL
      <4>1. TTL \in 1 .. TTL /\ (d.said[u] = "active") \in BOOLEAN
        BY DEF Leavers!Settings
      <4>2. \A b \in BOOLEAN, n \in 1 .. TTL : LET e == [active |-> b, left |-> n]
                                              IN  e \in Entries /\ e.active = b /\ e.left = n
        BY DEF Entries
      <4>. QED
        BY <3>2, <4>1, <4>2, Zenon
    <3>4. d.said[u] # None /\ (Wrong(d, u) => since[u] <= Latency)
      BY <1>1, <3>1 DEF FineCall, Asking, Leavers!Settings, LeaverIInv, LeaverTypes, Calls
    <3>5. Outdated(u)' => Wrong(d, u)
      BY <3>3, <3>4 DEF Outdated, Wrong, Here, Leavers!Store
    <3>. QED
      BY <3>3, <3>4, <3>5 DEF LeaverIInv, LeaverTypes, Leavers!Settings
  <2>. QED
    BY <2>1, <2>2
<1>8. cache' \in [Staff -> Entries \cup {None}]
  BY <1>7 DEF Leavers!Store
<1>9. CacheOK'
  BY <1>7 DEF CacheOK, Leavers!Store
<1>. QED
  BY <1>6, <1>8, <1>9 DEF LeaverIInv, LeaverTypes, Leavers!Store

LEMMA ToIdle ==
  ASSUME Leavers!Settings, LeaverIInv, NEW t \in Leavers!Thread,
         call' = [call EXCEPT ![t] = Leavers!Idle], UNCHANGED <<person, since, cache>>,
         connected' \subseteq Staff
  PROVE  LeaverIInv'
<1>1. Leavers!Idle \in Calls /\ FineCall(Leavers!Idle)
  BY IdleIsFine
<1>2. PICK c \in Calls : c = Leavers!Idle
  BY <1>1
<1>3. CallsOK' /\ call' \in [Leavers!Thread -> Calls]
  BY <1>1, <1>2, OtherCalls DEF LeaverIInv, LeaverTypes
<1>4. CacheOK'
  BY DEF LeaverIInv, CacheOK, Outdated, Here
<1>. QED
  BY <1>3, <1>4 DEF LeaverIInv, LeaverTypes

LEMMA LeaverSilenceKeeps ==
  ASSUME Leavers!Settings, LeaverIInv, NEW t \in Leavers!Thread, Leavers!Silence(t)
  PROVE  LeaverIInv'
<1>1. PICK d \in Calls : d = call[t] /\ FineCall(d) /\ d.pc = "answer"
  BY DEF LeaverIInv, LeaverTypes, CallsOK, Leavers!Silence
<1>2. CASE d.kind = "names"
  BY <1>1, <1>2, ToIdle DEF Leavers!Silence, LeaverIInv, LeaverTypes
<1>3. CASE d.kind # "names"
  <2> DEFINE said == [u \in Staff |-> IF u \in d.batch THEN None ELSE d.said[u]]
  <2>1. said \in [Staff -> Words \cup {None}] /\ \A u \in Staff :
            said[u] = IF u \in d.batch THEN None ELSE d.said[u]
    BY DEF Calls
  <2>2. PICK c : c = Leavers!Past(t, said, TRUE)
    OBVIOUS
  <2>3. call' = [call EXCEPT ![t] = c]
    BY <1>1, <1>3, <2>2 DEF Leavers!Silence
  <2> HIDE DEF said
  <2>4. /\ c \in Calls /\ c.pc = "next" /\ c.asked = d.asked /\ c.misses = d.misses \ d.batch
             /\ c.age = 0
        /\ c.said = said /\ c.silence = TRUE
    BY <1>1, <2>1, <2>2 DEF Leavers!Past, Calls
  <2>5. FineCall(c)
    BY <1>1, <2>1, <2>4, PastIsFine DEF LeaverIInv
  <2>6. CallsOK' /\ call' \in [Leavers!Thread -> Calls]
    BY <2>3, <2>4, <2>5, OtherCalls DEF LeaverIInv, LeaverTypes, Leavers!Silence
  <2>7. CacheOK'
    BY DEF LeaverIInv, CacheOK, Outdated, Here, Leavers!Silence
  <2>. QED
    BY <2>6, <2>7 DEF LeaverIInv, LeaverTypes, Leavers!Silence
<1>. QED
  BY <1>2, <1>3

-----------------------------------------------------------------------------
LEMMA LeaverBecomeKeeps ==
  ASSUME Leavers!Settings, LeaverIInv, NEW u \in Staff, NEW what \in Words, Leavers!Become(u, what)
  PROVE  LeaverIInv'
<1>1. LeaverTypes'
  BY DEF Leavers!Become, LeaverIInv, LeaverTypes
<1>2. \A v \in Staff : since'[v] = 0 \/ (since'[v] = since[v] /\ (Here(v)' <=> Here(v)))
  BY DEF Leavers!Become, LeaverIInv, LeaverTypes, Here
<1>3. CacheOK'
  <2>1. \A v \in Staff : cache[v] # None => cache[v].left \in 1 .. TTL
    BY DEF LeaverIInv, LeaverTypes, Entries
  <2>. QED
    BY <1>2, <2>1 DEF LeaverIInv, CacheOK, Outdated, Leavers!Become, Leavers!Settings
<1>4. ASSUME NEW t \in Leavers!Thread
      PROVE  FineCall(call[t])'
  <2>1. PICK c \in Calls : c = call[t] /\ call'[t] = c /\ FineCall(c)
    BY DEF LeaverIInv, LeaverTypes, CallsOK, Leavers!Become
  <2>2. \A v \in Staff : Wrong(c, v)' => since'[v] = 0 \/ (since'[v] = since[v] /\ Wrong(c, v))
    BY <1>2 DEF Wrong
  <2>3. InTime(c)'
    <3>1. PICK k \in Nat : /\ Cardinality(c.misses) <= k * Batch
                           /\ Latency * k < Leavers!Long
                           /\ \A v \in Staff :
                                  Wrong(c, v) => since[v] + Latency * k - c.age < Leavers!Long
      BY <2>1 DEF FineCall, InTime
    <3>2. Latency * k \in Int /\ c.age \in Nat /\ Leavers!Long \in Int
      BY LongIs DEF Calls, Leavers!Settings
    <3>3. \A v \in Staff : Wrong(c, v)' => since'[v] + Latency * k - c.age < Leavers!Long
      BY <2>2, <3>1, <3>2
    <3>. QED
      BY <3>1, <3>3 DEF InTime
  <2>4. Asking(c) => Asking(c)'
    BY <2>2 DEF Asking, Calls
  <2>5. FineCall(c)'
    BY <2>1, <2>3, <2>4 DEF FineCall
  <2>. QED
    BY <2>1, <2>5
<1>. QED
  BY <1>1, <1>3, <1>4 DEF LeaverIInv, CallsOK

LEMMA LeaverTickKeeps ==
  ASSUME Leavers!Settings, LeaverIInv, Leavers!Tick
  PROVE  LeaverIInv'
<1>1. ASSUME NEW u \in Staff
      PROVE  since'[u] \in Int /\ since'[u] <= since[u] + 1 /\ (Here(u)' <=> Here(u))
  BY <1>1, LongIs DEF Leavers!Tick, LeaverIInv, LeaverTypes, Here
<1>2. ASSUME NEW u \in Staff
      PROVE  /\ cache'[u] \in Entries \cup {None}
             /\ Outdated(u)' => since'[u] + cache'[u].left <= TTL + Latency
  <2>1. CASE cache'[u] = None
    BY <2>1 DEF Outdated
  <2>2. CASE cache'[u] # None
    <3>1. /\ cache[u] # None /\ cache[u] \in Entries /\ cache[u].left # 1
          /\ cache'[u] = [cache[u] EXCEPT !.left = @ - 1]
      BY <2>2 DEF Leavers!Tick, LeaverIInv, LeaverTypes
    <3>2. cache'[u] \in Entries /\ (cache'[u].active <=> cache[u].active)
            /\ cache'[u].left = cache[u].left - 1 /\ cache[u].left \in Nat
      BY <3>1 DEF Entries, Leavers!Settings
    <3>3. Outdated(u)' => Outdated(u)
      BY <1>1, <3>1, <3>2 DEF Outdated
    <3>. QED
      BY <1>1, <3>2, <3>3 DEF LeaverIInv, CacheOK, LeaverTypes, Leavers!Settings
  <2>. QED
    BY <2>1, <2>2
<1>3. ASSUME NEW t \in Leavers!Thread
      PROVE  call'[t] \in Calls /\ FineCall(call[t])'
  <2>1. PICK d \in Calls : d = call[t] /\ FineCall(d)
    BY DEF LeaverIInv, LeaverTypes, CallsOK
  <2>2. PICK c : c = call'[t]
    OBVIOUS
  <2>3. \/ d = Leavers!Idle /\ c = Leavers!Idle
        \/ d.pc = "answer" /\ d.age < Latency /\ c = [d EXCEPT !.age = @ + 1]
    BY <2>1, <2>2 DEF Leavers!Tick, Leavers!Idle
  <2>4. CASE d = Leavers!Idle /\ c = Leavers!Idle
    <3>1. Leavers!Idle \in Calls /\ FineCall(Leavers!Idle)'
      BY IdleIsFine
    <3>. QED
      BY <2>2, <2>4, <3>1
  <2>5. CASE d.pc = "answer" /\ d.age < Latency /\ c = [d EXCEPT !.age = @ + 1]
    <3>1. /\ c \in Calls /\ c.pc = "answer" /\ c.misses = d.misses /\ c.asked = d.asked
               /\ c.batch = d.batch
          /\ c.said = d.said /\ c.silence = d.silence /\ c.age = d.age + 1
      BY <2>5 DEF Calls
    <3>2. \A u \in Staff : Wrong(c, u)' => Wrong(d, u)
      BY <1>1, <3>1 DEF Wrong
    <3>3. Asking(c)'
      <4>1. Asking(d) /\ d.age \in Nat /\ d.batch \subseteq Staff
        BY <2>1, <2>5 DEF FineCall, Calls
      <4>2. \A u \in d.batch : Wrong(c, u)' => since'[u] <= c.age
        BY <1>1, <3>1, <3>2, <4>1 DEF Asking, LeaverIInv, LeaverTypes
      <4>3. c.age <= Latency
        BY <2>5, <3>1, <4>1 DEF Leavers!Settings
      <4>. QED
        BY <3>1, <4>1, <4>2, <4>3 DEF Asking
    <3>4. InTime(c)'
      <4>1. PICK k \in Nat : /\ Cardinality(d.misses) <= k * Batch
                             /\ Latency * k < Leavers!Long
                             /\ \A v \in Staff :
                                    Wrong(d, v) => since[v] + Latency * k - d.age < Leavers!Long
        BY <2>1 DEF FineCall, InTime
      <4>2. \A v \in Staff :
                Latency * k \in Int /\ d.age \in Nat /\ Leavers!Long \in Int /\ since[v] \in Int
        BY LongIs DEF Calls, Leavers!Settings, LeaverIInv, LeaverTypes
      <4>3. \A v \in Staff : Wrong(c, v)' => since'[v] + Latency * k - c.age < Leavers!Long
        BY <1>1, <3>1, <3>2, <4>1, <4>2
      <4>. QED
        BY <3>1, <4>1, <4>3 DEF InTime
    <3>5. FineCall(c)'
      BY <2>1, <3>1, <3>3, <3>4 DEF FineCall
    <3>. QED
      BY <2>2, <3>1, <3>5
  <2>. QED
    BY <2>3, <2>4, <2>5
<1>4. LeaverTypes'
  BY <1>1, <1>2, <1>3 DEF Leavers!Tick, LeaverIInv, LeaverTypes
<1>. QED
  BY <1>2, <1>3, <1>4 DEF LeaverIInv, CacheOK, CallsOK

LEMMA LeaverClearKeeps ==
  ASSUME Leavers!Settings, LeaverIInv, Leavers!Clear
  PROVE  LeaverIInv'
<1>1. Leavers!Idle \in Calls /\ FineCall(Leavers!Idle)'
  BY IdleIsFine
<1>2. \A t \in Leavers!Thread : call'[t] = Leavers!Idle
  BY DEF Leavers!Clear
<1>3. CallsOK'
  BY <1>1, <1>2 DEF CallsOK
<1>4. CacheOK'
  BY DEF CacheOK, Outdated, Leavers!Clear
<1>. QED
  BY <1>1, <1>3, <1>4 DEF LeaverIInv, LeaverTypes, Leavers!Clear

LEMMA LeaverIInvNext ==
  ASSUME Leavers!Settings, LeaverIInv, [Leavers!Next]_Leavers!vars
  PROVE  LeaverIInv'
<1>1. ASSUME NEW u \in Staff, Leavers!Leave(u) \/ Leavers!Return(u) \/ Leavers!Remove(u)
      PROVE  LeaverIInv'
  BY <1>1, LeaverBecomeKeeps DEF Leavers!Leave, Leavers!Return, Leavers!Remove, Words
<1>2. CASE UNCHANGED <<person, since, cache, call>> /\ connected' \subseteq Staff
  <2>1. CacheOK' /\ LeaverTypes'
    BY <1>2 DEF LeaverIInv, LeaverTypes, CacheOK, Outdated, Here
  <2>2. CallsOK'
    BY <1>2, Zenon DEF LeaverIInv, CallsOK, FineCall, Asking, InTime, Wrong, Here
  <2>. QED
    BY <2>1, <2>2 DEF LeaverIInv
<1>3. ASSUME NEW u \in Staff, Leavers!Connect(u)
      PROVE  LeaverIInv'
  BY <1>2, <1>3 DEF Leavers!Connect, LeaverIInv, LeaverTypes
<1>4. ASSUME NEW t \in Leavers!Thread, Leavers!EndNames(t) \/ Leavers!Drop(t)
      PROVE  LeaverIInv'
  BY <1>4, ToIdle DEF Leavers!EndNames, Leavers!Drop, Leavers!Ends, LeaverIInv, LeaverTypes
<1>5. ASSUME Leavers!BeginPass
      PROVE  LeaverIInv'
  BY <1>5, LeaverStartKeeps DEF Leavers!BeginPass, Leavers!Thread, LeaverIInv, LeaverTypes
<1>6. ASSUME NEW t \in Page, NEW S \in SUBSET Staff, Leavers!BeginNames(t, S)
      PROVE  LeaverIInv'
  BY <1>6, LeaverStartKeeps DEF Leavers!BeginNames, Leavers!Thread
<1>7. CASE UNCHANGED Leavers!vars
  BY <1>2, <1>7 DEF Leavers!vars, LeaverIInv, LeaverTypes
<1>. QED
  BY <1>1, <1>3, <1>4, <1>5, <1>6, <1>7, LeaverStoreKeeps, LeaverSilenceKeeps, LeaverAskKeeps,
     LeaverTickKeeps, LeaverClearKeeps DEF Leavers!Next

LEMMA DropFinds ==
  ASSUME Leavers!Settings, LeaverIInv, NEW t \in Leavers!Thread, Leavers!Drop(t)
  PROVE  /\ \A u \in connected \ connected' : person[u] = "active" => since[u] < Leavers!Long
         /\ ~call[t].silence =>
              \A u \in connected' \cap call[t].asked : person[u] # "active" => since[u] < Leavers!Long
<1>1. PICK c \in Calls : c = call[t] /\ FineCall(c) /\ c.pc = "next" /\ c.misses = {} /\ c.age = 0
  BY DEF Leavers!Drop, Leavers!Ends, LeaverIInv, LeaverTypes, CallsOK, FineCall
<1>2. ASSUME NEW u \in Staff, Wrong(c, u)
      PROVE  since[u] < Leavers!Long
  <2>1. PICK k \in Nat : Latency * k < Leavers!Long /\ since[u] + Latency * k - c.age < Leavers!Long
    BY <1>1, <1>2 DEF FineCall, InTime
  <2>2. Latency * k \in Nat /\ since[u] \in Int /\ Leavers!Long \in Int
    BY LongIs DEF LeaverIInv, LeaverTypes, Leavers!Settings
  <2>. QED
    BY <1>1, <2>1, <2>2
<1>3. \A u \in connected \ connected' : u \in Staff /\ c.said[u] \in {"inactive", "unknown"}
  BY <1>1 DEF Leavers!Drop, Leavers!Departed, LeaverIInv, LeaverTypes
<1>4. ASSUME ~c.silence, NEW u \in connected' \cap c.asked
      PROVE  u \in Staff /\ c.said[u] # None /\ c.said[u] \notin {"inactive", "unknown"}
  BY <1>1, <1>4 DEF FineCall, Leavers!Drop, Leavers!Departed, Calls
<1>. QED
  BY <1>1, <1>2, <1>3, <1>4 DEF Wrong, Here, Leavers!Settings, Calls, Words

(* Whoever loses the stored credential is away or came back less than Long  *)
(* ago, whatever identity leaves unanswered and whichever answers are       *)
(* stored late or by another thread; and a pass that was answered leaves    *)
(* nobody who went away Long ago (leavers.py).                              *)
THEOREM LeaversAreDropped == MCSpec => DropsWhoLeft
<1>1. MCInit => LeaverIInv
  BY PulseAssumption, LeaverInitIInv DEF MCInit
<1>2. ASSUME LeaverIInv,
             [MCNext]_<<part, github, people, vars, credentials, spending>> PROVE LeaverIInv'
  <2>1. [Leavers!Next]_Leavers!vars
    BY <1>2 DEF MCNext, people, Leavers!vars
  <2>. QED
    BY <1>2, <2>1, PulseAssumption, LeaverIInvNext
<1>3. ASSUME LeaverIInv, [MCNext]_<<part, github, people, vars, credentials, spending>>
      PROVE  [part = "leavers" => Leavers!DropIsDue]_<<part, people>>
  <2>1. CASE UNCHANGED <<part, github, people, vars, credentials, spending>>
    BY <2>1
  <2>2. CASE part = "leavers" /\ Leavers!Next
    BY <2>2, <1>3, PulseAssumption, DropFinds DEF Leavers!DropIsDue
  <2>3. CASE part # "leavers"
    BY <2>3
  <2>. QED
    BY <1>3, <2>1, <2>2, <2>3 DEF MCNext
<1>. QED
  BY <1>1, <1>2, <1>3, PTL DEF MCSpec, DropsWhoLeft

-----------------------------------------------------------------------------
(***************************************************************************)
(* Allowances.  Who has no key and no grant behind them (Unbacked) has no  *)
(* allowance above the most permissive one the platform has had (peak), and*)
(* no upsert in flight would write one (Wanted).                           *)
(***************************************************************************)
Callers == Caller \cup {Chief} \cup {HeadOf[d] : d \in Office}

Upserts ==
  [table : {"key", "cap"}, of : Allowances!Subject, row : KeyRows \cup CapRows \cup {None}, bypass : BOOLEAN,
   to : Int, by : Callers]

CapTypes ==
  /\ key \in [KeyRows -> BOOLEAN \cup {None}]
  /\ cap \in [CapRows -> Int \cup {None}]
  /\ upsert \in [Worker -> Upserts \cup {None}]
  /\ used \in [Caller -> Nat] /\ onUs \in [Caller -> Nat]
  /\ peak \in Int
  /\ backed \in [Caller \cup Office -> {"no", "key", "grant"}]

(* The row an upsert has found is of its subject. *)
RowsFit ==
  \A w \in Worker : upsert[w] # None =>
    /\ upsert[w].row # None => upsert[w].row[1] = upsert[w].of
    /\ upsert[w].table = "key" => upsert[w].of \in Caller \cup Office

(* Nobody is behind s but the platform. *)
Unbacked(s) ==
  \/ s = None
  \/ s \in Office /\ backed[s] = "no"
  \/ s \in Caller /\ \A t \in Allowances!Behind(s) : backed[t] = "no"

WithinPeak(n) == peak > 0 => n > 0 /\ n <= peak

KeysAreBacked == \A i \in KeyRows : key[i] # None => i[1] \in Caller \cup Office /\ backed[i[1]] # "no"
CapsAreWithin == \A i \in CapRows : cap[i] # None /\ Unbacked(i[1]) => WithinPeak(cap[i])
Wanted        == \A w \in Worker :
  upsert[w] # None /\ upsert[w].table = "cap" /\ upsert[w].of # None /\ upsert[w].by # Chief
    /\ Unbacked(upsert[w].of) => WithinPeak(upsert[w].to)

CapIInv ==
  /\ CapTypes /\ RowsFit /\ WithinPeak(DefaultCap)
  /\ KeysAreBacked /\ CapsAreWithin /\ Wanted
  /\ \A u \in Caller : onUs[u] <= used[u]
  /\ \A u \in Caller : Unbacked(u) /\ peak > 0 => onUs[u] <= peak

-----------------------------------------------------------------------------
(* Credentials' Min is the one of Totals. *)
LEMMA CapSame == \A S : Allowances!Min(S) = Min(S)
BY Zenon DEF Min, Allowances!Min

LEMMA InheritedIsWithin ==
  ASSUME Allowances!Settings, CapIInv, NEW depts \in Seq(Office),
         \A i \in DOMAIN depts : backed[depts[i]] = "no"
  PROVE  \A n \in Allowances!Inherited(depts) : n \in Int /\ WithinPeak(n)
<1>1. \A n \in Allowances!PlatformCaps : n \in Int /\ WithinPeak(n)
  BY DEF Allowances!PlatformCaps, Allowances!CapsOf, CapIInv, CapsAreWithin, Unbacked, CapTypes,
     Allowances!Settings
<1> DEFINE have == {i \in DOMAIN depts : Allowances!CapsOf(depts[i]) # {}}
<1>2. CASE have = {}
  <2>1. Allowances!FirstWith(depts, Allowances!CapsOf) = {}
    BY <1>2 DEF Allowances!FirstWith
  <2>. QED
    BY <1>1, <2>1 DEF Allowances!Inherited
<1>3. CASE have # {}
  <2>1. Min(have) \in have
    <3>1. have \subseteq Nat
      OBVIOUS
    <3> HIDE DEF have
    <3>. QED
      BY <1>3, <3>1, SmallestOf
  <2>2. PICK d \in Office : d = depts[Min(have)] /\ backed[d] = "no"
    <3>1. Min(have) \in DOMAIN depts
      BY <2>1
    <3>2. PICK k \in DOMAIN depts : k = Min(have)
      BY <3>1
    <3> HIDE DEF have
    <3>3. depts[k] \in Office /\ backed[depts[k]] = "no"
      OBVIOUS
    <3>. QED
      BY <3>2, <3>3
  <2>3. Allowances!FirstWith(depts, Allowances!CapsOf) = Allowances!CapsOf(d)
          /\ Allowances!CapsOf(d) # {}
    BY <1>3, <2>1, <2>2, CapSame DEF Allowances!FirstWith
  <2>4. \A i \in Allowances!CapsOf(d) : cap[i] \in Int /\ WithinPeak(cap[i])
    BY <2>2 DEF Allowances!CapsOf, CapIInv, CapsAreWithin, Unbacked, CapTypes, Allowances!Settings
  <2>5. Allowances!Inherited(depts) = {cap[i] : i \in Allowances!CapsOf(d)}
    BY <2>3 DEF Allowances!Inherited
  <2>. QED
    BY <2>4, <2>5
<1>. QED
  BY <1>2, <1>3

LEMMA DeptsBehind ==
  ASSUME Allowances!Settings, CapTypes, NEW u \in Caller, Unbacked(u)
  PROVE  /\ backed[u] = "no" /\ OfficesOf[u] \in Seq(Office)
         /\ \A i \in DOMAIN OfficesOf[u] : OfficesOf[u][i] \in Office /\ backed[OfficesOf[u][i]] = "no"
<1>1. u # None /\ u \notin Office /\ OfficesOf[u] \in Seq(Office)
  BY DEF Allowances!Settings
<1>2. \A t \in Allowances!Behind(u) : backed[t] = "no"
  BY <1>1 DEF Unbacked
<1>. QED
  BY <1>1, <1>2 DEF Allowances!Behind

(* Rules: what a caller without a key of their own may ask for. *)
LEMMA AskedWithin ==
  ASSUME Allowances!Settings, CapIInv, NEW w \in Worker, NEW by \in Callers,
         NEW s \in Allowances!Subject, NEW n \in Allowance,
         Allowances!ReadCap(w, by, s, n), by # Chief, s # None, Unbacked(s)
  PROVE  WithinPeak(n)
<1>1. Allowances!KeysOf(s) = {}
  <2>1. s \in Caller \cup Office /\ backed[s] = "no"
    BY DeptsBehind DEF Unbacked, Allowances!Subject, CapIInv
  <2>. QED
    BY <2>1 DEF Allowances!KeysOf, CapIInv, KeysAreBacked
<1>2. PICK inherited \in Allowances!Ceiling(s) : ~Allowances!MorePermissive(n, inherited)
  BY <1>1 DEF Allowances!ReadCap, Allowances!MayRaise
<1>3. inherited \in Int /\ WithinPeak(inherited)
  <2>1. CASE s \in Office
    <3>1. inherited \in Allowances!PlatformCaps
      BY <2>1, <1>2 DEF Allowances!Ceiling, Allowances!Settings
    <3>. QED
      BY <3>1 DEF Allowances!PlatformCaps, Allowances!CapsOf, CapIInv, CapsAreWithin, Unbacked,
         CapTypes, Allowances!Settings
  <2>2. CASE s \in Caller
    <3>1. inherited \in Allowances!Inherited(OfficesOf[s])
      BY <2>2, <1>2 DEF Allowances!Ceiling, Allowances!Settings
    <3>2. OfficesOf[s] \in Seq(Office) /\ \A i \in DOMAIN OfficesOf[s] : backed[OfficesOf[s][i]] = "no"
      BY <2>2, DeptsBehind DEF CapIInv
    <3>. QED
      BY <3>1, <3>2, InheritedIsWithin
  <2>. QED
    BY <2>1, <2>2 DEF Allowances!Subject
<1>. QED
  BY <1>2, <1>3 DEF Allowances!MorePermissive, WithinPeak, Allowances!Settings, CapIInv, CapTypes

-----------------------------------------------------------------------------
LEMMA CapInitIInv ==
  ASSUME Allowances!Settings, Allowances!Init
  PROVE  CapIInv
<1>1. \A i \in KeyRows : key[i] = None
  BY DEF Allowances!Init
<1>2. \A i \in CapRows : cap[i] = None
  BY DEF Allowances!Init
<1>3. \A w \in Worker : upsert[w] = None
  BY DEF Allowances!Init
<1>4. CapTypes
  BY DEF Allowances!Init, CapTypes, Allowances!Settings
<1>. QED
  BY <1>1, <1>2, <1>3, <1>4 DEF Allowances!Init, CapIInv, RowsFit, KeysAreBacked, CapsAreWithin, Wanted,
     WithinPeak, Allowances!Settings

(* Unless a row is written, what is unbacked or within stays so. *)
LEMMA SameLedgers ==
  ASSUME Allowances!Settings, CapIInv, UNCHANGED <<used, onUs, peak, backed>>,
         CapTypes', RowsFit', KeysAreBacked', CapsAreWithin', Wanted'
  PROVE  CapIInv'
<1>1. \A u \in Caller : Unbacked(u)' => Unbacked(u)
  BY Zenon DEF Unbacked, Allowances!Behind
<1>2. WithinPeak(DefaultCap)'
  BY DEF CapIInv, WithinPeak
<1>. QED
  BY <1>1, <1>2 DEF CapIInv

LEMMA SameUnbacked ==
  ASSUME UNCHANGED <<peak, backed>>
  PROVE  /\ \A s : Unbacked(s)' <=> Unbacked(s)
         /\ \A n : WithinPeak(n)' <=> WithinPeak(n)
BY Zenon DEF Unbacked, Allowances!Behind, WithinPeak

LEMMA CapReadKeyKeeps ==
  ASSUME Allowances!Settings, CapIInv, NEW w \in Worker, NEW by \in Callers,
         NEW s \in Allowances!Subject, NEW bypass \in BOOLEAN,
         Allowances!ReadKey(w, by, s, bypass)
  PROVE  CapIInv'
<1>1. PICK i \in Allowances!Found(Allowances!KeysOf(s)) :
        upsert' = [upsert EXCEPT ![w] = [table |-> "key", of |-> s, row |-> i, bypass |-> bypass, to |-> 0, by |-> by]]
  BY DEF Allowances!ReadKey
<1> DEFINE r == [table |-> "key", of |-> s, row |-> i, bypass |-> bypass, to |-> 0, by |-> by]
<1>2. i = None \/ (i \in KeyRows /\ i[1] = s)
  BY <1>1 DEF Allowances!Found, Allowances!KeysOf
<1>3. r \in Upserts
  BY <1>2 DEF Upserts
<1>4. r.table = "key" /\ r.of = s /\ r.row = i
  OBVIOUS
<1>5. s \in Caller \cup Office
  BY DEF Allowances!ReadKey, Allowances!Subject
<1> HIDE DEF r
<1>6. \A v \in Worker : upsert'[v] = IF v = w THEN r ELSE upsert[v]
  BY <1>1 DEF CapIInv, CapTypes, r
<1>7. CapTypes'
  BY <1>1, <1>3 DEF CapIInv, CapTypes, Allowances!ReadKey, r
<1>8. RowsFit'
  BY <1>2, <1>4, <1>5, <1>6 DEF CapIInv, RowsFit
<1>9. \A t : Unbacked(t)' <=> Unbacked(t)
  BY SameUnbacked DEF Allowances!ReadKey
<1>10. \A n : WithinPeak(n)' <=> WithinPeak(n)
  BY SameUnbacked DEF Allowances!ReadKey
<1>11. Wanted'
  BY <1>4, <1>6, <1>9, <1>10 DEF CapIInv, Wanted
<1>12. KeysAreBacked' /\ CapsAreWithin'
  BY <1>9, <1>10 DEF CapIInv, Allowances!ReadKey, KeysAreBacked, CapsAreWithin
<1>. QED
  BY <1>7, <1>8, <1>11, <1>12, SameLedgers DEF Allowances!ReadKey

LEMMA CapReadCapKeeps ==
  ASSUME Allowances!Settings, CapIInv, NEW w \in Worker, NEW by \in Callers,
         NEW s \in Allowances!Subject, NEW n \in Allowance,
         Allowances!ReadCap(w, by, s, n)
  PROVE  CapIInv'
<1>1. PICK i \in Allowances!Found(Allowances!CapsOf(s)) :
        upsert' = [upsert EXCEPT ![w] = [table |-> "cap", of |-> s, row |-> i, bypass |-> FALSE, to |-> n, by |-> by]]
  BY DEF Allowances!ReadCap
<1> DEFINE r == [table |-> "cap", of |-> s, row |-> i, bypass |-> FALSE, to |-> n, by |-> by]
<1>2. i = None \/ (i \in CapRows /\ i[1] = s)
  BY <1>1 DEF Allowances!Found, Allowances!CapsOf
<1>3. r \in Upserts
  BY <1>2 DEF Upserts, Allowances!Settings
<1>4. r.table = "cap" /\ r.of = s /\ r.row = i /\ r.to = n /\ r.by = by
  OBVIOUS
<1> HIDE DEF r
<1>6. \A v \in Worker : upsert'[v] = IF v = w THEN r ELSE upsert[v]
  BY <1>1 DEF CapIInv, CapTypes, r
<1>7. CapTypes'
  BY <1>1, <1>3 DEF CapIInv, CapTypes, Allowances!ReadCap, r
<1>8. RowsFit'
  BY <1>2, <1>4, <1>6 DEF CapIInv, RowsFit
<1>9. \A t : Unbacked(t)' <=> Unbacked(t)
  BY SameUnbacked DEF Allowances!ReadCap
<1>10. \A m : WithinPeak(m)' <=> WithinPeak(m)
  BY SameUnbacked DEF Allowances!ReadCap
<1>11. Wanted'
  <2>1. s # None /\ by # Chief /\ Unbacked(s) => WithinPeak(n)
    BY AskedWithin
  <2>. QED
    BY <1>4, <1>6, <1>9, <1>10, <2>1 DEF CapIInv, Wanted
<1>12. KeysAreBacked' /\ CapsAreWithin'
  BY <1>9, <1>10 DEF CapIInv, Allowances!ReadCap, KeysAreBacked, CapsAreWithin
<1>. QED
  BY <1>7, <1>8, <1>11, <1>12, SameLedgers DEF Allowances!ReadCap

(* Who is unbacked after a step was unbacked before it, if backing is only *)
(* gained.                                                                 *)
LEMMA BackingLasts ==
  ASSUME Allowances!Settings, CapTypes,
         \A s \in Caller \cup Office : backed'[s] = "no" => backed[s] = "no"
  PROVE  \A s \in Allowances!Subject : Unbacked(s)' => Unbacked(s)
<1> SUFFICES ASSUME NEW s \in Allowances!Subject, Unbacked(s)' PROVE Unbacked(s)
  OBVIOUS
<1>1. CASE s = None \/ s \in Office
  BY <1>1 DEF Unbacked, Allowances!Settings
<1>2. CASE s \in Caller
  <2>1. s # None /\ s \notin Office /\ OfficesOf[s] \in Seq(Office)
    BY <1>2 DEF Allowances!Settings
  <2>2. \A t \in Allowances!Behind(s) : t \in Caller \cup Office
    BY <1>2, <2>1 DEF Allowances!Behind
  <2>3. \A t \in Allowances!Behind(s) : backed'[t] = "no"
    BY <2>1 DEF Unbacked, Allowances!Behind
  <2>. QED
    BY <1>2, <2>2, <2>3 DEF Unbacked
<1>. QED
  BY <1>1, <1>2 DEF Allowances!Subject

LEMMA CapWriteKeyKeeps ==
  ASSUME Allowances!Settings, CapIInv, NEW w \in Worker, Allowances!WriteKey(w)
  PROVE  CapIInv'
<1>1. PICK i \in Allowances!Writes(w, "key", key) : key' = [key EXCEPT ![i] = upsert[w].bypass]
  BY DEF Allowances!WriteKey
<1>2. PICK r \in Upserts : r = upsert[w] /\ r # None /\ r.table = "key"
  BY <1>1 DEF Allowances!Writes, CapIInv, CapTypes
<1>3. r.of \in Caller \cup Office /\ r.bypass \in BOOLEAN
  BY <1>2 DEF CapIInv, RowsFit, Upserts
<1>4. i \in KeyRows /\ i[1] = r.of
  BY <1>1, <1>2 DEF Allowances!Writes, CapIInv, CapTypes, RowsFit
<1>5. backed' \in [Caller \cup Office -> {"no", "key", "grant"}] /\ backed'[r.of] # "no"
  BY <1>2, <1>3 DEF Allowances!WriteKey, CapIInv, CapTypes
<1>6. \A s \in Caller \cup Office : backed'[s] = "no" => backed[s] = "no"
  BY <1>2, <1>3 DEF Allowances!WriteKey, CapIInv, CapTypes
<1>7. CapTypes'
  BY <1>1, <1>2, <1>3, <1>4, <1>5 DEF Allowances!WriteKey, CapIInv, CapTypes
<1>8. \A v \in Worker : upsert'[v] # None => upsert'[v] = upsert[v]
  BY DEF Allowances!WriteKey, CapIInv, CapTypes
<1>9. RowsFit'
  BY <1>8 DEF CapIInv, RowsFit
<1>10. \A s \in Allowances!Subject : Unbacked(s)' => Unbacked(s)
  BY <1>6, BackingLasts DEF CapIInv
<1>11. \A n : WithinPeak(n)' <=> WithinPeak(n)
  BY DEF WithinPeak, Allowances!WriteKey
<1>12. KeysAreBacked'
  <2>1. \A j \in KeyRows : j # i => key'[j] = key[j]
    BY <1>1 DEF CapIInv, CapTypes
  <2>. QED
    BY <2>1, <1>3, <1>4, <1>5, <1>6 DEF CapIInv, KeysAreBacked
<1>13. CapsAreWithin'
  <2>1. \A j \in CapRows : j[1] \in Allowances!Subject
    BY DEF Allowances!Settings
  <2>. QED
    BY <2>1, <1>10, <1>11 DEF CapIInv, CapsAreWithin, Allowances!WriteKey
<1>14. Wanted'
  <2>1. \A v \in Worker : upsert[v] # None => upsert[v].of \in Allowances!Subject
    BY DEF CapIInv, CapTypes, Upserts
  <2>. QED
    BY <2>1, <1>8, <1>10, <1>11 DEF CapIInv, Wanted
<1>15. \A u \in Caller : Unbacked(u)' => Unbacked(u)
  BY <1>10 DEF Allowances!Subject
<1>. QED
  BY <1>7, <1>9, <1>11, <1>12, <1>13, <1>14, <1>15 DEF CapIInv, Allowances!WriteKey

LEMMA CapWriteCapKeeps ==
  ASSUME Allowances!Settings, CapIInv, NEW w \in Worker, Allowances!WriteCap(w)
  PROVE  CapIInv'
<1>1. PICK i \in Allowances!Writes(w, "cap", cap) : cap' = [cap EXCEPT ![i] = upsert[w].to]
  BY DEF Allowances!WriteCap
<1>2. PICK r \in Upserts : r = upsert[w] /\ r # None /\ r.table = "cap"
  BY <1>1 DEF Allowances!Writes, CapIInv, CapTypes
<1>3. r.of \in Allowances!Subject /\ r.to \in Int
  BY DEF Upserts
<1>4. i \in CapRows /\ i[1] = r.of
  BY <1>1, <1>2 DEF Allowances!Writes, CapIInv, CapTypes, RowsFit
<1>5. /\ backed' \in [Caller \cup Office -> {"no", "key", "grant"}]
      /\ \A s \in Caller \cup Office : backed'[s] = "no" => backed[s] = "no"
      /\ r.by = Chief /\ r.of # None => backed'[r.of] # "no"
  BY <1>2, <1>3 DEF Allowances!WriteCap, CapIInv, CapTypes, Allowances!Subject
<1>6. peak' = IF r.of = None /\ Allowances!MorePermissive(r.to, peak) THEN r.to ELSE peak
  BY <1>2 DEF Allowances!WriteCap
<1>7. CapTypes'
  BY <1>1, <1>2, <1>3, <1>4, <1>5, <1>6 DEF Allowances!WriteCap, CapIInv, CapTypes
<1>8. \A v \in Worker : upsert'[v] # None => upsert'[v] = upsert[v]
  BY DEF Allowances!WriteCap, CapIInv, CapTypes
<1>9. RowsFit'
  BY <1>8 DEF CapIInv, RowsFit
<1>10. \A s \in Allowances!Subject : Unbacked(s)' => Unbacked(s)
  BY <1>5, BackingLasts DEF CapIInv
<1>11. \A n \in Int : WithinPeak(n) => WithinPeak(n)'
  BY <1>3, <1>6 DEF WithinPeak, Allowances!MorePermissive, CapIInv, CapTypes
<1>12. KeysAreBacked'
  BY <1>5 DEF CapIInv, KeysAreBacked, Allowances!WriteCap
<1>13. Unbacked(r.of)' => WithinPeak(r.to)'
  <2>1. CASE r.of = None
    BY <2>1, <1>3, <1>6 DEF WithinPeak, Allowances!MorePermissive, CapIInv, CapTypes
  <2>2. CASE r.of # None /\ r.by = Chief
    <3>1. backed'[r.of] # "no" /\ r.of \in Caller \cup Office
      BY <1>3, <1>5, <2>2 DEF Allowances!Subject
    <3>2. ~Unbacked(r.of)'
      <4>1. r.of \in Caller => r.of \in Allowances!Behind(r.of)'
        BY DEF Allowances!Behind
      <4>. QED
        BY <2>2, <3>1, <4>1 DEF Unbacked
    <3>. QED
      BY <3>2
  <2>3. CASE r.of # None /\ r.by # Chief
    BY <2>3, <1>2, <1>3, <1>10, <1>11 DEF CapIInv, Wanted
  <2>. QED
    BY <2>1, <2>2, <2>3
<1>14. CapsAreWithin'
  <2> SUFFICES ASSUME NEW j \in CapRows, cap'[j] # None, Unbacked(j[1])', peak' > 0
               PROVE  cap'[j] > 0 /\ cap'[j] <= peak'
    BY DEF CapsAreWithin, WithinPeak
  <2>1. CASE j = i
    BY <2>1, <1>1, <1>2, <1>4, <1>13 DEF CapIInv, CapTypes, WithinPeak
  <2>2. CASE j # i
    <3>1. cap'[j] = cap[j] /\ j[1] \in Allowances!Subject /\ cap[j] \in Int
      BY <2>2, <1>1, <1>7 DEF CapIInv, CapTypes, Allowances!Settings
    <3>. QED
      BY <3>1, <1>10, <1>11 DEF CapIInv, CapsAreWithin, WithinPeak
  <2>. QED
    BY <2>1, <2>2
<1>15. Wanted'
  <2>1. \A v \in Worker :
            upsert[v] # None => upsert[v].of \in Allowances!Subject /\ upsert[v].to \in Int
    BY DEF CapIInv, CapTypes, Upserts
  <2>. QED
    BY <2>1, <1>8, <1>10, <1>11 DEF CapIInv, Wanted
<1>16. \A u \in Caller : Unbacked(u)' => Unbacked(u)
  BY <1>10 DEF Allowances!Subject
<1>17. \A u \in Caller : Unbacked(u)' /\ peak' > 0 => onUs'[u] <= peak'
  BY <1>3, <1>6, <1>16 DEF CapIInv, CapTypes, Allowances!WriteCap, Allowances!MorePermissive
<1>18. WithinPeak(DefaultCap)'
  BY <1>11 DEF CapIInv, Allowances!Settings
<1>. QED
  BY <1>7, <1>9, <1>12, <1>14, <1>15, <1>17, <1>18 DEF CapIInv, Allowances!WriteCap

LEMMA DropsKeep ==
  ASSUME Allowances!Settings, CapIInv, NEW by \in Callers,
         \/ \E w \in Worker : Allowances!Abandon(w)
         \/ \E i \in KeyRows : Allowances!DropKey(i, by)
         \/ \E i \in CapRows : Allowances!DropCap(i, by)
  PROVE  CapIInv'
<1>1. UNCHANGED <<used, onUs, peak, backed>>
  BY DEF Allowances!Abandon, Allowances!DropKey, Allowances!DropCap
<1>2. \A s : Unbacked(s)' <=> Unbacked(s)
  BY <1>1, SameUnbacked
<1>3. \A n : WithinPeak(n)' <=> WithinPeak(n)
  BY <1>1, SameUnbacked
<1>4. CapTypes'
  BY DEF Allowances!Abandon, Allowances!DropKey, Allowances!DropCap, CapIInv, CapTypes
<1>5. /\ \A v \in Worker : upsert'[v] # None => upsert'[v] = upsert[v]
      /\ \A i \in KeyRows : key'[i] # None => key'[i] = key[i]
      /\ \A i \in CapRows : cap'[i] # None => cap'[i] = cap[i]
  BY DEF Allowances!Abandon, Allowances!DropKey, Allowances!DropCap, CapIInv, CapTypes
<1>6. RowsFit' /\ KeysAreBacked' /\ CapsAreWithin' /\ Wanted'
  BY <1>1, <1>2, <1>3, <1>5 DEF CapIInv, RowsFit, KeysAreBacked, CapsAreWithin, Wanted
<1>. QED
  BY <1>1, <1>4, <1>6, SameLedgers

LEMMA CapCallKeeps ==
  ASSUME Allowances!Settings, CapIInv, NEW u \in Caller,
         NEW depts \in {<< >>} \cup {OfficesOf[v] : v \in Caller},
         depts # << >>
           => depts = OfficesOf[u], NEW cost \in 1 .. MaxUsed, Allowances!Call(u, depts, cost)
  PROVE  CapIInv'
<1>1. cost \in Nat
  OBVIOUS
<1>2. \A s : Unbacked(s)' <=> Unbacked(s)
  BY SameUnbacked DEF Allowances!Call
<1>3. \A n : WithinPeak(n)' <=> WithinPeak(n)
  BY SameUnbacked DEF Allowances!Call
<1>4. used' = [used EXCEPT ![u] = @ + cost] /\ (onUs' = onUs \/ onUs' = [onUs EXCEPT ![u] = @ + cost])
  BY DEF Allowances!Call
<1>5. CapTypes'
  BY <1>1, <1>4 DEF Allowances!Call, CapIInv, CapTypes
<1>6. RowsFit' /\ KeysAreBacked' /\ CapsAreWithin' /\ Wanted' /\ WithinPeak(DefaultCap)'
  BY <1>2, <1>3 DEF Allowances!Call, CapIInv, RowsFit, KeysAreBacked, CapsAreWithin, Wanted
<1>7. \A v \in Caller : onUs'[v] <= used'[v]
  BY <1>1, <1>4 DEF CapIInv, CapTypes
<1>8. ASSUME Unbacked(u), peak > 0
      PROVE  onUs'[u] <= peak
  <2>1. CASE Allowances!KeysFor(u, depts) # {}
    <3>1. onUs' = onUs
      BY <2>1 DEF Allowances!Call
    <3>. QED
      BY <1>8, <3>1 DEF CapIInv
  <2>2. CASE Allowances!KeysFor(u, depts) = {}
    <3>1. PICK n \in Allowances!CapsFor(u, depts) : Allowances!Fits(u, cost, n)
      BY <2>2 DEF Allowances!Call
    <3>2. depts \in Seq(Office) /\ \A i \in DOMAIN depts : backed[depts[i]] = "no"
      <4>1. CASE depts = << >>
        BY <4>1
      <4>2. CASE depts = OfficesOf[u]
        BY <4>2, <1>8, DeptsBehind DEF CapIInv
      <4>. QED
        BY <4>1, <4>2
    <3>3. n \in Int /\ WithinPeak(n)
      <4>1. CASE Allowances!CapsOf(u) # {}
        BY <4>1, <3>1, <1>8 DEF Allowances!CapsFor, Allowances!CapsOf, CapIInv, CapsAreWithin, CapTypes
      <4>2. CASE Allowances!CapsOf(u) = {}
        BY <4>2, <3>1, <3>2, InheritedIsWithin DEF Allowances!CapsFor
      <4>. QED
        BY <4>1, <4>2
    <3>4. used[u] \in Nat /\ onUs[u] \in Nat /\ onUs[u] <= used[u] /\ peak \in Int
      BY DEF CapIInv, CapTypes
    <3>5. used[u] + cost <= peak
      BY <1>8, <3>1, <3>3, <3>4 DEF Allowances!Fits, WithinPeak
    <3>6. onUs'[u] <= onUs[u] + cost
      BY <1>1, <1>4, <3>4 DEF CapIInv, CapTypes
    <3>7. onUs'[u] \in Nat
      BY <1>5 DEF CapTypes
    <3>. QED
      BY <1>1, <3>4, <3>5, <3>6, <3>7
  <2>. QED
    BY <2>1, <2>2
<1>9. \A v \in Caller : Unbacked(v)' /\ peak' > 0 => onUs'[v] <= peak'
  <2> SUFFICES ASSUME NEW v \in Caller, Unbacked(v), peak > 0 PROVE onUs'[v] <= peak
    BY <1>2 DEF Allowances!Call
  <2>1. CASE v = u
    BY <2>1, <1>8
  <2>2. CASE v # u
    BY <2>2, <1>4 DEF CapIInv, CapTypes
  <2>. QED
    BY <2>1, <2>2
<1>. QED
  BY <1>5, <1>6, <1>7, <1>9 DEF CapIInv

LEMMA CapIInvNext ==
  ASSUME Allowances!Settings, CapIInv, [Allowances!Next]_Allowances!vars
  PROVE  CapIInv'
<1>1. CASE Allowances!Next
  <2>1. ASSUME NEW w \in Worker, NEW by \in Callers, NEW s \in Allowances!Subject,
               \/ \E bypass \in BOOLEAN : Allowances!ReadKey(w, by, s, bypass)
               \/ \E n \in Allowance : Allowances!ReadCap(w, by, s, n)
        PROVE  CapIInv'
    BY <2>1, CapReadKeyKeeps, CapReadCapKeeps
  <2>2. ASSUME NEW w \in Worker, Allowances!WriteKey(w) \/ Allowances!WriteCap(w)
        PROVE  CapIInv'
    BY <2>2, CapWriteKeyKeeps, CapWriteCapKeeps
  <2>3. ASSUME NEW w \in Worker, Allowances!Abandon(w)
        PROVE  CapIInv'
    <3>1. Chief \in Callers
      BY DEF Callers
    <3>. QED
      BY <2>3, <3>1, DropsKeep
  <2>4. ASSUME NEW by \in Callers,
               \/ \E i \in KeyRows : Allowances!DropKey(i, by)
               \/ \E i \in CapRows : Allowances!DropCap(i, by)
        PROVE  CapIInv'
    BY <2>4, DropsKeep
  <2>5. ASSUME NEW u \in Caller, NEW depts \in {<< >>} \cup {OfficesOf[v] : v \in Caller},
               NEW cost \in 1 .. MaxUsed,
               depts # << >> => depts = OfficesOf[u], Allowances!Call(u, depts, cost)
        PROVE  CapIInv'
    BY <2>5, CapCallKeeps
  <2>. QED
    BY <1>1, <2>1, <2>2, <2>3, <2>4, <2>5 DEF Allowances!Next, Callers
<1>2. CASE UNCHANGED Allowances!vars
  <2>1. UNCHANGED <<key, cap, upsert, used, onUs, peak, backed>>
    BY <1>2 DEF Allowances!vars
  <2>2. \A s : Unbacked(s)' <=> Unbacked(s)
    BY <2>1, SameUnbacked
  <2>3. \A n : WithinPeak(n)' <=> WithinPeak(n)
    BY <2>1, SameUnbacked
  <2>4. CapTypes' /\ RowsFit' /\ KeysAreBacked' /\ CapsAreWithin' /\ Wanted'
    BY <2>1, <2>2, <2>3 DEF CapIInv, CapTypes, RowsFit, KeysAreBacked, CapsAreWithin, Wanted
  <2>. QED
    BY <2>1, <2>4, SameLedgers
<1>. QED
  BY <1>1, <1>2

(* Nobody without a key of their own, or an allowance from a platform      *)
(* admin, spends more of the platform's money than its most permissive      *)
(* allowance, however rows are written, dropped and overwritten by upserts  *)
(* that overlap (credentials.py: _require_may_write, the ceiling, and       *)
(* resolve_for_user_id).                                                    *)
THEOREM MoneyIsCapped == MCSpec => []PlatformMoneyCapped
<1>1. MCInit => CapIInv
  BY PulseAssumption, CapInitIInv DEF MCInit
<1>2. ASSUME CapIInv, [MCNext]_<<part, github, people, vars, credentials, spending>> PROVE CapIInv'
  <2>1. [Allowances!Next]_Allowances!vars
    BY <1>2 DEF MCNext, credentials, Allowances!vars
  <2>. QED
    BY <1>2, <2>1, PulseAssumption, CapIInvNext
<1>3. CapIInv => PlatformMoneyCapped
  BY DEF CapIInv, PlatformMoneyCapped, Allowances!PlatformMoneyCapped, Unbacked
<1>. QED
  BY <1>1, <1>2, <1>3, PTL DEF MCSpec

-----------------------------------------------------------------------------
(***************************************************************************)
(* Spending.  What is checked against the allowance is the ledger, and what*)
(* may come on top is what the requests under way have spent and have been *)
(* admitted to spend: the sum of the two (Load) is bounded by the calls a  *)
(* request may make.                                                       *)
(***************************************************************************)
Dearest == Max(Estimates)

Calling == [kind : {"chat", "rollup", "adhoc"}, calls : Nat, spent : Nat, asked : Nat, failed : Nat,
            waited : Nat, tries : Nat]

SpendTypes ==
  /\ req \in [Request -> Calling \cup {None}]
  /\ ledger \in Nat /\ billed \in Nat /\ lost \in Nat
  /\ busy \in BOOLEAN

(* What each request has spent, and what it may have with the call it has  *)
(* been admitted to.                                                       *)
Spent == [q \in Request |-> IF req[q] = None THEN 0 ELSE req[q].spent]
Load  == [q \in Request |-> IF req[q] = None THEN 0 ELSE req[q].spent + req[q].asked]

(* A request has spent no more than the calls behind it may cost. *)
InBounds(c) ==
  /\ c.calls <= AdHoc!MostCalls /\ c.asked <= Dearest
  /\ c.spent <= (AdHoc!MostCalls - c.calls) * Dearest
  /\ c.asked > 0 => c.calls > 0

Many == IF busy THEN Cardinality(Request) ELSE 1

SpendIInv ==
  /\ SpendTypes
  /\ \A q \in AdHoc!Under : InBounds(req[q])
  /\ ~busy => \A p, q \in AdHoc!Under : p = q
  /\ billed = ledger + AdHoc!Pending + lost
  /\ ledger + SumFunction(Load) <= Cap + AdHoc!MostAdded(Many)

-----------------------------------------------------------------------------
(* The operators of the library that Spending takes are those of Totals. *)
LEMMA SpendSame ==
  /\ \A S : AdHoc!Max(S) = Max(S) /\ AdHoc!Cardinality(S) = Cardinality(S)
  /\ \A S : AdHoc!IsFiniteSet(S) <=> IsFiniteSet(S)
  /\ \A f : AdHoc!SumFunction(f) = SumFunction(f)
<1>1. \A S : AdHoc!Max(S) = Max(S)
  BY Zenon DEF Max, AdHoc!Max
<1>2. \A S : AdHoc!Cardinality(S) = Cardinality(S)
  BY Zenon DEF Cardinality, AdHoc!Cardinality
<1>3. \A S : AdHoc!IsFiniteSet(S) <=> IsFiniteSet(S)
  BY Zenon DEF IsFiniteSet, AdHoc!IsFiniteSet
<1>4. \A f : AdHoc!SumFunction(f) = SumFunction(f)
  BY Zenon DEF SumFunction, SumFunctionOnSet, FoldFunctionOnSet, MapThenFoldSet,
               AdHoc!SumFunction, AdHoc!SumFunctionOnSet, AdHoc!FoldFunctionOnSet, AdHoc!MapThenFoldSet
<1>. QED
  BY <1>1, <1>2, <1>3, <1>4

LEMMA SpendBounds ==
  ASSUME AdHoc!Settings
  PROVE  /\ Dearest \in Nat /\ Dearest > 0 /\ \A e \in Estimates : e <= Dearest
         /\ AdHoc!MostCalls \in Nat /\ AdHoc!MostCalls >= 2 /\ AdHoc!MostCalls >= MaxSections
         /\ Cardinality(Request) \in Nat /\ \A q \in Request : Cardinality(Request) >= 1
<1>1. Dearest \in Estimates /\ \A e \in Estimates : e <= Dearest
  BY LargestOf DEF AdHoc!Settings, Dearest
<1>2. AdHoc!MostCalls \in {2, MaxSections} /\ \A n \in {2, MaxSections} : n <= AdHoc!MostCalls
  <2>1. \E n \in Nat : \A x \in {2, MaxSections} : x <= n
    <3>1. \A x \in {2, MaxSections} : x <= MaxSections + 2
      BY DEF AdHoc!Settings
    <3>. QED
      BY <3>1 DEF AdHoc!Settings
  <2>2. {2, MaxSections} \in SUBSET Nat
    BY DEF AdHoc!Settings
  <2>. QED
    BY SpendSame, <2>1, <2>2, LargestOf DEF AdHoc!MostCalls
<1>3. Cardinality(Request) \in Nat /\ (Cardinality(Request) = 0 <=> Request = {})
  BY SpendSame, FS_CardinalityType, FS_EmptySet DEF AdHoc!Settings
<1>4. \A q \in Request : Cardinality(Request) >= 1
  BY <1>3
<1>. QED
  BY <1>1, <1>2, <1>3, <1>4 DEF AdHoc!Settings

LEMMA LoadTypes ==
  ASSUME SpendTypes
  PROVE  Spent \in [Request -> Nat] /\ Load \in [Request -> Nat] /\ Spent \in [Request -> Int]
           /\ Load \in [Request -> Int]
<1>1. \A q \in Request : req[q] # None => req[q].spent \in Nat /\ req[q].asked \in Nat
  BY DEF SpendTypes, Calling
<1>. QED
  BY <1>1 DEF Spent, Load

(* The sums follow the one request that changes. *)
LEMMA OneMoves ==
  ASSUME AdHoc!Settings, SpendTypes, SpendTypes', NEW q \in Request, NEW c, req' = [req EXCEPT ![q] = c]
  PROVE  /\ AdHoc!Pending' = AdHoc!Pending + Spent'[q] - Spent[q]
         /\ SumFunction(Load)' = SumFunction(Load) + Load'[q] - Load[q]
         /\ AdHoc!Pending \in Nat /\ AdHoc!Pending' \in Nat
         /\ SumFunction(Load) \in Nat /\ SumFunction(Load)' \in Nat
         /\ AdHoc!Pending <= SumFunction(Load)
<1>1. /\ Spent \in [Request -> Nat] /\ Load \in [Request -> Nat]
      /\ Spent \in [Request -> Int] /\ Load \in [Request -> Int]
  BY LoadTypes
<1>2. /\ Spent' \in [Request -> Nat] /\ Load' \in [Request -> Nat]
      /\ Spent' \in [Request -> Int] /\ Load' \in [Request -> Int]
  <2>1. \A p \in Request : req'[p] # None => req'[p].spent \in Nat /\ req'[p].asked \in Nat
    BY DEF SpendTypes, Calling
  <2>. QED
    BY <2>1 DEF Spent, Load
<1>3. \A p \in Request \ {q} : Spent'[p] = Spent[p] /\ Load'[p] = Load[p]
  BY DEF SpendTypes, Spent, Load
<1>4. AdHoc!Pending = SumFunction(Spent) /\ AdHoc!Pending' = SumFunction(Spent')
  BY SpendSame DEF AdHoc!Pending, Spent
<1>5. IsFiniteSet(Request)
  BY SpendSame DEF AdHoc!Settings
<1>6. SumFunction(Spent') = SumFunction(Spent) + Spent'[q] - Spent[q]
  BY <1>1, <1>2, <1>3, <1>5, SumChanged
<1>7. SumFunction(Load') = SumFunction(Load) + Load'[q] - Load[q]
  BY <1>1, <1>2, <1>3, <1>5, SumChanged
<1>8. /\ SumFunction(Spent) \in Nat /\ SumFunction(Spent') \in Nat
      /\ SumFunction(Load) \in Nat /\ SumFunction(Load') \in Nat
  BY <1>1, <1>2, <1>5, SumCovers
<1>9. SumFunction(Spent) <= SumFunction(Load)
  <2>1. \A p \in Request : Spent[p] <= Load[p]
    BY DEF SpendTypes, Calling, Spent, Load
  <2>. QED
    BY <1>1, <1>5, <2>1, SumMonotone
<1>. QED
  BY <1>4, <1>6, <1>7, <1>8, <1>9

LEMMA SpendInitIInv ==
  ASSUME AdHoc!Settings, AdHoc!Init
  PROVE  SpendIInv
<1>1. SpendTypes
  BY DEF AdHoc!Init, SpendTypes
<1>2. \A q \in Request : Spent[q] = 0 /\ Load[q] = 0
  BY DEF AdHoc!Init, Spent, Load
<1>3. SumFunction(Spent) = 0 /\ SumFunction(Load) = 0
  <2>1. Spent \in [Request -> Nat] /\ Load \in [Request -> Nat]
    BY <1>1, LoadTypes
  <2>2. Spent \in [Request -> Int] /\ Load \in [Request -> Int]
    BY <1>1, LoadTypes
  <2>3. SumFunction(Spent) <= Cardinality(Request) * 0 /\ SumFunction(Load) <= Cardinality(Request) * 0
    BY SpendSame, <1>2, <2>2, SumBound DEF AdHoc!Settings
  <2>4. SumFunction(Spent) \in Nat /\ SumFunction(Load) \in Nat
    BY SpendSame, <2>1, SumCovers DEF AdHoc!Settings
  <2>5. Cardinality(Request) * 0 = 0
    BY SpendBounds
  <2>. QED
    BY <2>3, <2>4, <2>5
<1>4. AdHoc!Pending = SumFunction(Spent)
  BY SpendSame DEF AdHoc!Pending, Spent
<1>5. AdHoc!MostAdded(Many) \in Nat
  <2>1. Many = 1
    BY DEF AdHoc!Init, Many
  <2>2. \A k, m \in Nat : k >= 2 => (1 * k - 1) * m \in Nat
    OBVIOUS
  <2>. QED
    BY SpendSame, <2>1, <2>2, SpendBounds DEF AdHoc!MostAdded, Dearest
<1>6. AdHoc!Under = {}
  BY DEF AdHoc!Init, AdHoc!Under
<1>7. ledger = 0 /\ billed = 0 /\ lost = 0
  BY DEF AdHoc!Init
<1>. QED
  BY <1>1, <1>3, <1>4, <1>5, <1>6, <1>7 DEF SpendIInv, AdHoc!Settings

(* A request begins with nothing spent, and only makes room for more. *)
LEMMA SpendBeginKeeps ==
  ASSUME AdHoc!Settings, SpendIInv, NEW q \in Request, NEW kind \in {"chat", "rollup", "adhoc"},
         NEW calls \in Nat,
         calls <= AdHoc!MostCalls, AdHoc!Begin(q, kind, calls)
  PROVE  SpendIInv'
<1> DEFINE c == [kind |-> kind, calls |-> calls, spent |-> 0, asked |-> 0, failed |-> 0, waited |-> 0, tries |-> 0]
<1>1. c \in Calling /\ c.calls = calls /\ c.spent = 0 /\ c.asked = 0
  BY DEF Calling
<1>2. req' = [req EXCEPT ![q] = c] /\ req[q] = None /\ UNCHANGED <<ledger, billed, lost>>
  BY DEF AdHoc!Begin
<1>3. busy' = (busy \/ AdHoc!Under # {})
  BY DEF AdHoc!Begin
<1> HIDE DEF c
<1>4. SpendTypes'
  BY <1>1, <1>2, <1>3 DEF SpendIInv, SpendTypes
<1>5. c # None
  BY <1>1 DEF AdHoc!Settings, Calling
<1>6. req'[q] = c /\ AdHoc!Under' = AdHoc!Under \cup {q} /\ \A p \in Request \ {q} : req'[p] = req[p]
  BY <1>2, <1>5 DEF SpendIInv, SpendTypes, AdHoc!Under
<1>7. InBounds(c)
  <2>1. \A k, m \in Nat : k * m >= 0
    OBVIOUS
  <2>2. AdHoc!MostCalls - calls \in Nat
    BY SpendBounds
  <2>3. 0 <= (AdHoc!MostCalls - calls) * Dearest
    BY <2>1, <2>2, SpendBounds
  <2>. QED
    BY <1>1, <2>3, SpendBounds DEF InBounds
<1>8. \A p \in AdHoc!Under' : InBounds(req'[p])
  BY <1>6, <1>7 DEF SpendIInv, AdHoc!Under
<1>9. ~busy' => \A p, r \in AdHoc!Under' : p = r
  BY <1>3, <1>6
<1>10. Spent'[q] = 0 /\ Spent[q] = 0 /\ Load'[q] = 0 /\ Load[q] = 0
  BY <1>1, <1>2, <1>5, <1>6 DEF Spent, Load
<1>11. /\ AdHoc!Pending' = AdHoc!Pending + Spent'[q] - Spent[q]
            /\ SumFunction(Load)' = SumFunction(Load) + Load'[q] - Load[q]
       /\ AdHoc!Pending \in Nat /\ SumFunction(Load) \in Nat
  BY <1>2, <1>4, OneMoves DEF SpendIInv
<1>12. AdHoc!Pending' = AdHoc!Pending /\ SumFunction(Load)' = SumFunction(Load)
  BY <1>10, <1>11
<1>13. AdHoc!MostAdded(Many) <= AdHoc!MostAdded(Many') /\ AdHoc!MostAdded(Many) \in Int
         /\ AdHoc!MostAdded(Many') \in Int
  <2>1. Many \in Nat /\ Many' \in Nat /\ Many <= Many'
    BY <1>3, SpendBounds DEF Many, SpendIInv, SpendTypes
  <2>2. \A n, l, k, m \in Nat : n <= l => (n * k - 1) * m <= (l * k - 1) * m
    <3> TAKE n, l, k, m \in Nat
    <3>1. n <= l => n * k <= l * k
      OBVIOUS
    <3>2. \A a, b \in Int : a <= b => a * m <= b * m
      OBVIOUS
    <3>. QED
      BY <3>1, <3>2
  <2>3. \A n, k, m \in Nat : (n * k - 1) * m \in Int
    OBVIOUS
  <2>. QED
    BY SpendSame, <2>1, <2>2, <2>3, SpendBounds DEF AdHoc!MostAdded, Dearest
<1>14. ledger' + SumFunction(Load)' <= Cap + AdHoc!MostAdded(Many')
  BY <1>2, <1>11, <1>12, <1>13 DEF SpendIInv, SpendTypes, AdHoc!Settings
<1>15. billed' = ledger' + AdHoc!Pending' + lost'
  BY <1>2, <1>12 DEF SpendIInv
<1>. QED
  BY <1>4, <1>8, <1>9, <1>14, <1>15 DEF SpendIInv, Many, AdHoc!MostAdded

(* A request at work that goes on: what it has and may have spent stays    *)
(* within bounds, and so does all together.                                *)
LEMMA SpendGoesOn ==
  ASSUME AdHoc!Settings, SpendIInv, NEW q \in Request, req[q] # None, NEW c \in Calling, InBounds(c),
         req' = [req EXCEPT ![q] = c], ledger' = ledger, busy' = busy, billed' \in Nat, lost' \in Nat,
         billed' - lost' = billed - lost + c.spent - req[q].spent,
         ledger + SumFunction(Load)' <= Cap + AdHoc!MostAdded(Many)
  PROVE  SpendIInv'
<1>1. SpendTypes'
  BY DEF SpendIInv, SpendTypes
<1>2. c # None
  BY DEF AdHoc!Settings, Calling
<1>3. req'[q] = c /\ AdHoc!Under' = AdHoc!Under /\ \A p \in Request \ {q} : req'[p] = req[p]
  BY <1>2 DEF SpendIInv, SpendTypes, AdHoc!Under
<1>4. \A p \in AdHoc!Under' : InBounds(req'[p])
  BY <1>3 DEF SpendIInv, AdHoc!Under
<1>5. Spent'[q] = c.spent /\ Spent[q] = req[q].spent /\ c.spent \in Nat /\ req[q].spent \in Nat
  BY <1>2, <1>3 DEF Spent, Calling, SpendIInv, SpendTypes
<1>6. AdHoc!Pending' = AdHoc!Pending + Spent'[q] - Spent[q] /\ AdHoc!Pending \in Nat
  BY <1>1, OneMoves DEF SpendIInv
<1>7. billed' = ledger' + AdHoc!Pending' + lost'
  BY <1>5, <1>6 DEF SpendIInv, SpendTypes
<1>8. Many' = Many
  BY DEF Many
<1>. QED
  BY <1>1, <1>3, <1>4, <1>7, <1>8 DEF SpendIInv, AdHoc!MostAdded, InBounds

(* A request whose call fails. *)
LEMMA SpendFailed ==
  ASSUME NEW r \in Calling, NEW a \in Nat, NEW d, d = [r EXCEPT !.failed = a, !.waited = 0, !.tries = 0]
  PROVE  d \in Calling /\ d.spent = r.spent /\ d.asked = r.asked /\ d.calls = r.calls
BY DEF Calling

LEMMA SpendThrottleKeeps ==
  ASSUME AdHoc!Settings, SpendIInv, NEW q \in Request, NEW wait \in Waits, AdHoc!Throttle(q, wait)
  PROVE  SpendIInv'
<1> DEFINE c == [req[q] EXCEPT !.waited = @ + wait, !.tries = @ + 1]
<1>1. req[q] \in Calling /\ req[q] # None /\ InBounds(req[q])
  BY DEF AdHoc!Throttle, AdHoc!Asking, SpendIInv, SpendTypes, AdHoc!Under
<1>2. c \in Calling /\ c.spent = req[q].spent /\ c.asked = req[q].asked /\ c.calls = req[q].calls
  <2>1. req[q].waited + wait \in Nat /\ req[q].tries + 1 \in Nat
    BY <1>1 DEF Calling, AdHoc!Settings
  <2>. QED
    <3>1. PICK m \in Nat, n \in Nat : m = req[q].waited + wait /\ n = req[q].tries + 1
      BY <2>1
    <3>2. PICK r \in Calling : r = req[q]
      BY <1>1
    <3>3. c = [r EXCEPT !.waited = m, !.tries = n]
      BY <3>1, <3>2
    <3>4. c \in Calling /\ c.spent = r.spent /\ c.asked = r.asked /\ c.calls = r.calls
      <4> HIDE DEF c
      <4>. QED
        BY <3>3 DEF Calling
    <3>. QED
      BY <3>2, <3>4
<1>3. req' = [req EXCEPT ![q] = c] /\ UNCHANGED <<ledger, billed, lost, busy>>
  BY DEF AdHoc!Throttle
<1> HIDE DEF c
<1>4. InBounds(c)
  BY <1>1, <1>2 DEF InBounds
<1>5. Load'[q] = Load[q] /\ c # None
  BY <1>1, <1>2, <1>3 DEF Load, SpendIInv, SpendTypes, AdHoc!Settings, Calling
<1>6. SumFunction(Load)' = SumFunction(Load)
  <2>1. SpendTypes'
    BY <1>2, <1>3 DEF SpendIInv, SpendTypes
  <2>2. SumFunction(Load)' = SumFunction(Load) + Load'[q] - Load[q] /\ SumFunction(Load) \in Nat
    BY <1>3, <2>1, OneMoves DEF SpendIInv
  <2>3. Load[q] \in Nat
    BY LoadTypes DEF SpendIInv
  <2>. QED
    BY <1>5, <2>2, <2>3
<1>7. billed \in Nat /\ lost \in Nat /\ billed' - lost' = billed - lost + c.spent - req[q].spent
  BY <1>1, <1>2, <1>3 DEF SpendIInv, SpendTypes, Calling
<1>. QED
  BY <1>1, <1>2, <1>3, <1>4, <1>6, <1>7, SpendGoesOn DEF SpendIInv

(* A call that fails loses what it cost. *)
LEMMA SpendRetryKeeps ==
  ASSUME AdHoc!Settings, SpendIInv, NEW q \in Request, NEW cost \in {0} \cup Estimates,
         AdHoc!Retry(q, cost)
  PROVE  SpendIInv'
<1> DEFINE c == [req[q] EXCEPT !.failed = @ + 1, !.waited = 0, !.tries = 0]
<1>1. req[q] \in Calling /\ req[q] # None /\ InBounds(req[q])
  BY DEF AdHoc!Retry, AdHoc!Asking, SpendIInv, SpendTypes, AdHoc!Under
<1>2. c \in Calling /\ c.spent = req[q].spent /\ c.asked = req[q].asked /\ c.calls = req[q].calls
  <2>1. req[q].failed + 1 \in Nat
    BY <1>1 DEF Calling
  <2>. QED
    BY <1>1, <2>1, SpendFailed, Zenon
<1>3. req' = [req EXCEPT ![q] = c] /\ ledger' = ledger /\ busy' = busy
  BY DEF AdHoc!Retry
<1>0. billed' = billed + cost /\ lost' = lost + cost /\ cost \in Nat
  BY DEF AdHoc!Retry, AdHoc!Settings
<1> HIDE DEF c
<1>4. InBounds(c)
  BY <1>1, <1>2 DEF InBounds
<1>5. Load'[q] = Load[q] /\ c # None
  BY <1>1, <1>2, <1>3 DEF Load, SpendIInv, SpendTypes, AdHoc!Settings, Calling
<1>7. billed' \in Nat /\ lost' \in Nat /\ billed' - lost' = billed - lost + c.spent - req[q].spent
  BY <1>0, <1>1, <1>2 DEF SpendIInv, SpendTypes, Calling
<1>6. SumFunction(Load)' = SumFunction(Load)
  <2>1. SpendTypes'
    BY <1>2, <1>3, <1>7 DEF SpendIInv, SpendTypes
  <2>2. SumFunction(Load)' = SumFunction(Load) + Load'[q] - Load[q] /\ SumFunction(Load) \in Nat
    BY <1>3, <2>1, OneMoves DEF SpendIInv
  <2>3. Load[q] \in Nat
    BY LoadTypes DEF SpendIInv
  <2>. QED
    BY <1>5, <2>2, <2>3
<1>. QED
  BY <1>1, <1>2, <1>3, <1>4, <1>6, <1>7, SpendGoesOn DEF SpendIInv

(* An answer costs no more than it was admitted with. *)
LEMMA SpendCallKeeps ==
  ASSUME AdHoc!Settings, SpendIInv, NEW q \in Request, NEW cost \in 1 .. Dearest, AdHoc!Call(q, cost)
  PROVE  SpendIInv'
<1> DEFINE c == [req[q] EXCEPT !.spent = @ + cost, !.calls = @ - 1, !.asked = 0]
<1>0. cost \in Nat /\ cost <= req[q].asked /\ billed' = billed + cost /\ lost' = lost
  BY SpendBounds DEF AdHoc!Call
<1>1. req[q] \in Calling /\ req[q] # None /\ InBounds(req[q]) /\ req[q].asked > 0
  BY DEF AdHoc!Call, AdHoc!Asking, SpendIInv, SpendTypes, AdHoc!Under
<1>2. /\ c \in Calling /\ c.spent = req[q].spent + cost /\ c.asked = 0 /\ c.calls = req[q].calls - 1
      /\ req[q].spent \in Nat /\ req[q].asked \in Nat /\ req[q].calls \in Nat
  <2>1. req[q].calls \in Nat /\ req[q].calls > 0
    BY <1>1 DEF InBounds, Calling
  <2>2. req[q].spent \in Nat /\ req[q].asked \in Nat
    BY <1>1 DEF Calling
  <2>3. req[q].spent + cost \in Nat /\ req[q].calls - 1 \in Nat
    BY <1>0, <2>1, <2>2
  <2>. QED
    <3>1. PICK m \in Nat, n \in Nat : m = req[q].spent + cost /\ n = req[q].calls - 1
      BY <2>3
    <3>0. PICK r \in Calling : r = req[q]
      BY <1>1
    <3>2. c = [r EXCEPT !.spent = m, !.calls = n, !.asked = 0]
      BY <3>0, <3>1
    <3>3. c \in Calling /\ c.spent = m /\ c.asked = 0 /\ c.calls = n
      <4> HIDE DEF c
      <4>. QED
        BY <3>2 DEF Calling
    <3> HIDE DEF c
    <3>. QED
      BY <2>1, <2>2, <3>1, <3>3
<1>3. req' = [req EXCEPT ![q] = c] /\ ledger' = ledger /\ busy' = busy
  BY DEF AdHoc!Call
<1> HIDE DEF c
<1>4. InBounds(c)
  <2>1. /\ req[q].calls <= AdHoc!MostCalls /\ req[q].asked <= Dearest
        /\ req[q].spent <= (AdHoc!MostCalls - req[q].calls) * Dearest
    BY <1>1 DEF InBounds
  <2>2. \A k, n, m, a, b \in Nat : a <= (k - n) * m /\ b <= m => a + b <= (k - (n - 1)) * m
    OBVIOUS
  <2>3. cost <= Dearest
    BY <1>0, <1>2, <2>1, SpendBounds
  <2>4. req[q].spent + cost <= (AdHoc!MostCalls - (req[q].calls - 1)) * Dearest
    BY <1>0, <1>2, <2>1, <2>2, <2>3, SpendBounds
  <2>. QED
    BY <1>2, <2>1, <2>4, SpendBounds DEF InBounds
<1>5. Load'[q] = req[q].spent + cost /\ Load[q] = req[q].spent + req[q].asked
  BY <1>1, <1>2, <1>3 DEF Load, SpendIInv, SpendTypes, AdHoc!Settings, Calling
<1>6. ledger + SumFunction(Load)' <= Cap + AdHoc!MostAdded(Many)
  <2>1. SpendTypes'
    BY <1>0, <1>2, <1>3 DEF SpendIInv, SpendTypes
  <2>2. SumFunction(Load)' = SumFunction(Load) + Load'[q] - Load[q] /\ SumFunction(Load) \in Nat
          /\ SumFunction(Load)' \in Nat
    BY <1>3, <2>1, OneMoves DEF SpendIInv
  <2>3. SumFunction(Load)' <= SumFunction(Load)
    BY <1>0, <1>2, <1>5, <2>2
  <2>4. \A a, b, l \in Nat, m \in Int : b <= a /\ l + a <= m => l + b <= m
    OBVIOUS
  <2>5. Cap + AdHoc!MostAdded(Many) \in Int
    <3>1. Many \in Nat
      BY SpendBounds DEF Many
    <3>2. \A n, k, m \in Nat : (n * k - 1) * m \in Int
      OBVIOUS
    <3>. QED
      BY SpendSame, <3>1, <3>2, SpendBounds DEF AdHoc!MostAdded, Dearest, AdHoc!Settings
  <2>. QED
    BY <2>2, <2>3, <2>4, <2>5 DEF SpendIInv, SpendTypes
<1>7. billed' \in Nat /\ lost' \in Nat /\ billed' - lost' = billed - lost + c.spent - req[q].spent
  BY <1>0, <1>2 DEF SpendIInv, SpendTypes
<1>. QED
  BY <1>1, <1>2, <1>3, <1>4, <1>6, <1>7, SpendGoesOn DEF SpendIInv
(* A call is admitted while the ledger and its estimate are within the     *)
(* allowance: beyond that there are what this request spent before and     *)
(* what the others may have.                                               *)
LEMMA SpendCheckKeeps ==
  ASSUME AdHoc!Settings, SpendIInv, NEW q \in Request, NEW estimate \in Estimates,
         AdHoc!Check(q, estimate)
  PROVE  SpendIInv'
<1> DEFINE c == [req[q] EXCEPT !.asked = estimate, !.failed = 0, !.waited = 0, !.tries = 0]
<1>0. estimate \in Nat /\ estimate <= Dearest /\ ledger + estimate <= Cap
  BY SpendBounds DEF AdHoc!Check, AdHoc!Admits, AdHoc!Settings
<1>1. req[q] \in Calling /\ req[q] # None /\ InBounds(req[q]) /\ req[q].calls > 0
  BY DEF AdHoc!Check, SpendIInv, SpendTypes, AdHoc!Under
<1>2. c \in Calling /\ c.spent = req[q].spent /\ c.asked = estimate /\ c.calls = req[q].calls
  <2>1. PICK r \in Calling : r = req[q]
    BY <1>1
  <2>2. c = [r EXCEPT !.asked = estimate, !.failed = 0, !.waited = 0, !.tries = 0]
    BY <2>1
  <2>3. c \in Calling /\ c.spent = r.spent /\ c.asked = estimate /\ c.calls = r.calls
    <3> HIDE DEF c
    <3>. QED
      BY <1>0, <2>2 DEF Calling
  <2>. QED
    BY <2>1, <2>3
<1>3. req' = [req EXCEPT ![q] = c] /\ UNCHANGED <<ledger, billed, lost, busy>>
  BY DEF AdHoc!Check
<1> HIDE DEF c
<1>4. InBounds(c)
  BY <1>0, <1>1, <1>2 DEF InBounds
<1>5. c # None /\ req'[q] = c /\ \A p \in Request \ {q} : req'[p] = req[p]
  BY <1>2, <1>3 DEF SpendIInv, SpendTypes, AdHoc!Settings, Calling
<1>6. SpendTypes'
  BY <1>2, <1>3 DEF SpendIInv, SpendTypes
<1>7. Load' \in [Request -> Nat] /\ Load' \in [Request -> Int]
  <2>1. \A p \in Request : req'[p] # None => req'[p].spent \in Nat /\ req'[p].asked \in Nat
    BY <1>6 DEF SpendTypes, Calling
  <2>. QED
    BY <2>1 DEF Load
<1>8. Load'[q] = req[q].spent + estimate /\ req[q].spent \in Nat /\ req[q].calls \in Nat
  BY <1>1, <1>2, <1>5 DEF Load, Calling
<1>9. Load'[q] <= (AdHoc!MostCalls - 1) * Dearest + estimate
  <2>1. req[q].spent <= (AdHoc!MostCalls - req[q].calls) * Dearest
    BY <1>1 DEF InBounds
  <2>2. \A k, n, m \in Nat : n >= 1 => (k - n) * m <= (k - 1) * m
    <3> TAKE k, n, m \in Nat
    <3>1. \A a, b \in Int : a <= b => a * m <= b * m
      OBVIOUS
    <3>. QED
      BY <3>1
  <2>3. (AdHoc!MostCalls - req[q].calls) * Dearest <= (AdHoc!MostCalls - 1) * Dearest
    BY <1>1, <1>8, <2>2, SpendBounds
  <2>4. \A a, b \in Int : (AdHoc!MostCalls - a) * Dearest \in Int
    BY SpendBounds
  <2>. QED
    BY <1>0, <1>8, <2>1, <2>3, <2>4, SpendBounds
<1> DEFINE more == Dearest - estimate
<1> DEFINE rest == [p \in Request |-> IF p = q THEN Load'[p] + more ELSE Load'[p]]
<1>10. SumFunction(Load') <= (Many * AdHoc!MostCalls - 1) * Dearest + estimate
  <2>1. more \in Int
    BY <1>0, SpendBounds
  <2>2. rest \in [Request -> Int] /\ rest[q] = Load'[q] + more /\ \A p \in Request \ {q} :
            rest[p] = Load'[p]
    BY <1>7, <2>1
  <2>3. AdHoc!MostCalls * Dearest \in Nat
          /\ (AdHoc!MostCalls - 1) * Dearest + Dearest = AdHoc!MostCalls * Dearest
    <3>1. \A k, m \in Nat : k * m \in Nat /\ (k - 1) * m + m = k * m
      OBVIOUS
    <3>. QED
      BY <3>1, SpendBounds
  <2>4. rest[q] <= AdHoc!MostCalls * Dearest
    BY <1>0, <1>7, <1>9, <2>2, <2>3, SpendBounds
  <2>5. SumFunction(Load') = SumFunction(rest) - more
    <3>1. SumFunction(rest) = SumFunction(Load') + rest[q] - Load'[q]
      BY SpendSame, <1>7, <2>2, SumChanged DEF AdHoc!Settings
    <3>2. SumFunction(Load') \in Int /\ Load'[q] \in Int
      BY SpendSame, <1>7, SumNumber DEF AdHoc!Settings
    <3>. QED
      BY <2>1, <2>2, <3>1, <3>2
  <2>6. SumFunction(rest) \in Int
    BY SpendSame, <2>2, SumNumber DEF AdHoc!Settings
  <2> HIDE DEF rest
  <2>7. CASE busy
    <3>1. ASSUME NEW p \in Request \ {q}
          PROVE  Load'[p] <= AdHoc!MostCalls * Dearest
      <4>1. CASE req[p] = None
        BY <1>5, <2>3, <4>1 DEF Load
      <4>2. CASE req[p] # None
        <5>1. /\ InBounds(req[p]) /\ Load'[p] = req[p].spent + req[p].asked
              /\ req[p].spent \in Nat /\ req[p].asked \in Nat /\ req[p].calls \in Nat
          BY <1>5, <4>2 DEF Load, SpendIInv, SpendTypes, AdHoc!Under, Calling
        <5>2. CASE req[p].asked = 0
          <6>1. \A k, n, m \in Nat : (k - n) * m <= k * m
            <7> TAKE k, n, m \in Nat
            <7>1. \A a, b \in Int : a <= b => a * m <= b * m
              OBVIOUS
            <7>. QED
              BY <7>1
          <6>2. (AdHoc!MostCalls - req[p].calls) * Dearest <= AdHoc!MostCalls * Dearest
            BY <5>1, <6>1, SpendBounds
          <6>3. (AdHoc!MostCalls - req[p].calls) * Dearest \in Int
            BY <5>1, SpendBounds
          <6>. QED
            BY <2>3, <5>1, <5>2, <6>2, <6>3 DEF InBounds
        <5>3. CASE req[p].asked > 0
          <6>1. req[p].calls > 0
            BY <5>1, <5>3 DEF InBounds
          <6>2. \A k, n, m \in Nat : n >= 1 => (k - n) * m <= (k - 1) * m
            <7> TAKE k, n, m \in Nat
            <7>1. \A a, b \in Int : a <= b => a * m <= b * m
              OBVIOUS
            <7>. QED
              BY <7>1
          <6>3. (AdHoc!MostCalls - req[p].calls) * Dearest <= (AdHoc!MostCalls - 1) * Dearest
            BY <5>1, <6>1, <6>2, SpendBounds
          <6>4. \A a \in Int : (AdHoc!MostCalls - a) * Dearest \in Int
            BY SpendBounds
          <6>5. \A k, m \in Nat : (k - 1) * m + m = k * m
            OBVIOUS
          <6>6. (AdHoc!MostCalls - 1) * Dearest + Dearest = AdHoc!MostCalls * Dearest
            BY <6>5, SpendBounds
          <6>7. req[p].spent <= (AdHoc!MostCalls - req[p].calls) * Dearest /\ req[p].asked <= Dearest
            BY <5>1 DEF InBounds
          <6>8. (AdHoc!MostCalls - req[p].calls) * Dearest \in Int
                  /\ (AdHoc!MostCalls - 1) * Dearest \in Int
            BY <5>1, <6>4, SpendBounds
          <6>. QED
            BY <2>3, <5>1, <6>3, <6>6, <6>7, <6>8, SpendBounds
        <5>. QED
          BY <5>1, <5>2, <5>3
      <4>. QED
        BY <4>1, <4>2
    <3>2. SumFunction(rest) <= Cardinality(Request) * (AdHoc!MostCalls * Dearest)
      <4>1. \A p \in Request : rest[p] <= AdHoc!MostCalls * Dearest
        BY <2>2, <2>4, <3>1
      <4>. QED
        BY SpendSame, <2>2, <2>3, <4>1, SumBound DEF AdHoc!Settings
    <3>3. \A n, k, m \in Nat : n * (k * m) = (n * k - 1) * m + m /\ (n * k - 1) * m \in Int
      OBVIOUS
    <3>4. /\ Cardinality(Request) * (AdHoc!MostCalls * Dearest) = (Cardinality(Request) * AdHoc!MostCalls - 1) * Dearest + Dearest
          /\ (Cardinality(Request) * AdHoc!MostCalls - 1) * Dearest \in Int
      BY <3>3, SpendBounds
    <3>. QED
      BY <1>0, <2>5, <2>6, <2>7, <3>2, <3>4, SpendBounds DEF Many
  <2>8. CASE ~busy
    <3>1. \A p \in Request \ {q} : Load'[p] = 0
      BY <1>1, <1>5, <2>8 DEF Load, SpendIInv, AdHoc!Under
    <3> DEFINE only == [p \in Request |-> 0]
    <3>2. /\ only \in [Request -> Int] /\ only[q] = 0
          /\ \A p \in Request \ {q} : Load'[p] = only[p]
      BY <3>1
    <3>3. SumFunction(Load') = SumFunction(only) + Load'[q] - only[q]
      <4> HIDE DEF only
      <4>. QED
        BY SpendSame, <1>7, <3>2, SumChanged DEF AdHoc!Settings
    <3>4. SumFunction(only) <= Cardinality(Request) * 0 /\ SumFunction(only) \in Int
      <4>1. \A p \in Request : only[p] <= 0
        OBVIOUS
      <4> HIDE DEF only
      <4>. QED
        BY SpendSame, <3>2, <4>1, SumBound, SumNumber DEF AdHoc!Settings
    <3>5. Cardinality(Request) * 0 = 0
      BY SpendBounds
    <3> HIDE DEF only
    <3>6. SumFunction(Load') <= (AdHoc!MostCalls - 1) * Dearest + estimate
      <4>1. (AdHoc!MostCalls - 1) * Dearest \in Int
        BY SpendBounds
      <4>. QED
        BY <1>0, <1>7, <1>9, <3>2, <3>3, <3>4, <3>5, <4>1
    <3>7. Many * AdHoc!MostCalls - 1 = AdHoc!MostCalls - 1
      BY <2>8, SpendBounds DEF Many
    <3>. QED
      BY <3>6, <3>7
  <2>. QED
    BY <2>7, <2>8
<1>11. ledger + SumFunction(Load)' <= Cap + AdHoc!MostAdded(Many)
  <2>1. AdHoc!MostAdded(Many) = (Many * AdHoc!MostCalls - 1) * Dearest
    BY SpendSame DEF AdHoc!MostAdded, Dearest
  <2>2. Many \in Nat
    BY SpendBounds DEF Many
  <2>3. (Many * AdHoc!MostCalls - 1) * Dearest \in Int
    BY <2>2, SpendBounds
  <2>4. SumFunction(Load') \in Int
    BY SpendSame, <1>7, SumNumber DEF AdHoc!Settings
  <2>. QED
    BY <1>0, <1>10, <2>1, <2>3, <2>4 DEF SpendIInv, SpendTypes, AdHoc!Settings
<1>12. billed \in Nat /\ lost \in Nat /\ billed' - lost' = billed - lost + c.spent - req[q].spent
  BY <1>2, <1>3, <1>8 DEF SpendIInv, SpendTypes
<1>. QED
  BY <1>1, <1>2, <1>3, <1>4, <1>11, <1>12, SpendGoesOn DEF SpendIInv

(* A request that ends leaves what it spent in the ledger, or lost.        *)
LEMMA SpendEndKeeps ==
  ASSUME AdHoc!Settings, SpendIInv, NEW q \in Request, AdHoc!Store(q) \/ AdHoc!Fail(q)
  PROVE  SpendIInv'
<1>1. req[q] \in Calling /\ req[q] # None /\ req[q].spent \in Nat /\ req[q].asked \in Nat
  BY DEF AdHoc!Store, AdHoc!Fail, SpendIInv, SpendTypes, Calling
<1>2. req' = [req EXCEPT ![q] = None] /\ busy' = busy /\ billed' = billed
  BY DEF AdHoc!Store, AdHoc!Fail
<1>3. \/ ledger' = ledger + req[q].spent /\ lost' = lost
      \/ ledger' = ledger /\ lost' = lost + req[q].spent
  BY DEF AdHoc!Store, AdHoc!Fail
<1>4. SpendTypes'
  BY <1>1, <1>2, <1>3 DEF SpendIInv, SpendTypes
<1>5. req'[q] = None /\ AdHoc!Under' = AdHoc!Under \ {q} /\ \A p \in Request \ {q} : req'[p] = req[p]
  BY <1>2 DEF SpendIInv, SpendTypes, AdHoc!Under
<1>6. \A p \in AdHoc!Under' : InBounds(req'[p])
  BY <1>5 DEF SpendIInv, AdHoc!Under
<1>7. Spent[q] = req[q].spent /\ Spent'[q] = 0 /\ Load[q] = req[q].spent + req[q].asked /\ Load'[q] = 0
  BY <1>1, <1>5 DEF Spent, Load
<1>8. /\ AdHoc!Pending' = AdHoc!Pending + Spent'[q] - Spent[q]
      /\ SumFunction(Load)' = SumFunction(Load) + Load'[q] - Load[q]
      /\ AdHoc!Pending \in Nat /\ SumFunction(Load) \in Nat
  BY <1>2, <1>4, OneMoves DEF SpendIInv
<1>9. billed' = ledger' + AdHoc!Pending' + lost'
  BY <1>1, <1>2, <1>3, <1>7, <1>8 DEF SpendIInv, SpendTypes
<1>10. Cap + AdHoc!MostAdded(Many) \in Int /\ Many' = Many
  <2>1. Many \in Nat /\ Many' = Many
    BY <1>2, SpendBounds DEF Many
  <2>2. \A n, k, m \in Nat : (n * k - 1) * m \in Int
    OBVIOUS
  <2>. QED
    BY SpendSame, <2>1, <2>2, SpendBounds DEF AdHoc!MostAdded, Dearest, AdHoc!Settings
<1>11. ledger' + SumFunction(Load)' <= ledger + SumFunction(Load)
         /\ ledger' + SumFunction(Load)' \in Int
  BY <1>1, <1>3, <1>7, <1>8 DEF SpendIInv, SpendTypes
<1>12. ledger' + SumFunction(Load)' <= Cap + AdHoc!MostAdded(Many)
  BY <1>8, <1>10, <1>11 DEF SpendIInv, SpendTypes
<1>13. ~busy' => \A p, r \in AdHoc!Under' : p = r
  BY <1>2, <1>5 DEF SpendIInv
<1>. QED
  BY <1>4, <1>6, <1>9, <1>10, <1>12, <1>13 DEF SpendIInv, AdHoc!MostAdded

LEMMA SpendIInvNext ==
  ASSUME AdHoc!Settings, SpendIInv, [AdHoc!Next]_AdHoc!vars
  PROVE  SpendIInv'
<1>1. ASSUME NEW q \in Request, AdHoc!Ask(q)
      PROVE  SpendIInv'
  BY <1>1, SpendBeginKeeps, SpendBounds DEF AdHoc!Ask
<1>2. ASSUME NEW q \in Request, AdHoc!RollUp(q)
      PROVE  SpendIInv'
  BY <1>2, SpendBeginKeeps, SpendBounds DEF AdHoc!RollUp
<1>3. ASSUME NEW q \in Request, NEW n \in 0 .. MaxSections, AdHoc!Report(q, n)
      PROVE  SpendIInv'
  <2>1. n \in Nat /\ n <= AdHoc!MostCalls
    BY SpendBounds DEF AdHoc!Settings
  <2>. QED
    BY <1>3, <2>1, SpendBeginKeeps DEF AdHoc!Report
<1>4. ASSUME NEW q \in Request, NEW n \in Estimates, AdHoc!Check(q, n)
      PROVE  SpendIInv'
  BY <1>4, SpendCheckKeeps
<1>5. ASSUME NEW q \in Request, NEW n \in Waits, AdHoc!Throttle(q, n)
      PROVE  SpendIInv'
  BY <1>5, SpendThrottleKeeps
<1>6. ASSUME NEW q \in Request, NEW n \in 1 .. Max(Estimates), AdHoc!Call(q, n)
      PROVE  SpendIInv'
  BY <1>6, SpendCallKeeps DEF Dearest
<1>7. ASSUME NEW q \in Request, NEW n \in {0} \cup Estimates, AdHoc!Retry(q, n)
      PROVE  SpendIInv'
  BY <1>7, SpendRetryKeeps
<1>8. ASSUME NEW q \in Request, AdHoc!Store(q) \/ AdHoc!Fail(q)
      PROVE  SpendIInv'
  BY <1>8, SpendEndKeeps
<1>9. CASE UNCHANGED AdHoc!vars
  <2>1. UNCHANGED <<req, ledger, billed, lost, busy>>
    BY <1>9 DEF AdHoc!vars
  <2>2. Spent' = Spent /\ Load' = Load /\ AdHoc!Under' = AdHoc!Under /\ AdHoc!Pending' = AdHoc!Pending
    BY <2>1 DEF Spent, Load, AdHoc!Under, AdHoc!Pending
  <2>. QED
    BY <2>1, <2>2 DEF SpendIInv, SpendTypes, Many, AdHoc!MostAdded, InBounds
<1>. QED
  BY SpendSame, <1>1, <1>2, <1>3, <1>4, <1>5, <1>6, <1>7, <1>8, <1>9 DEF AdHoc!Next

LEMMA SpendMeans ==
  ASSUME AdHoc!Settings, SpendIInv
  PROVE  AdHoc!SpendIsBounded
<1>1. AdHoc!Pending <= SumFunction(Load) /\ AdHoc!Pending \in Nat /\ SumFunction(Load) \in Nat
  <2>1. /\ Spent \in [Request -> Nat] /\ Load \in [Request -> Nat]
        /\ Spent \in [Request -> Int] /\ Load \in [Request -> Int]
    BY LoadTypes DEF SpendIInv
  <2>2. \A p \in Request : Spent[p] <= Load[p]
    BY DEF SpendIInv, SpendTypes, Calling, Spent, Load
  <2>3. AdHoc!Pending = SumFunction(Spent)
    BY SpendSame DEF AdHoc!Pending, Spent
  <2>. QED
    BY SpendSame, <2>1, <2>2, <2>3, SumCovers, SumMonotone DEF AdHoc!Settings
<1>2. Cap + AdHoc!MostAdded(Many) \in Int
  <2>1. Many \in Nat
    BY SpendBounds DEF Many
  <2>2. \A n, k, m \in Nat : (n * k - 1) * m \in Int
    OBVIOUS
  <2>. QED
    BY SpendSame, <2>1, <2>2, SpendBounds DEF AdHoc!MostAdded, Dearest, AdHoc!Settings
<1>3. ledger + AdHoc!Pending <= Cap + AdHoc!MostAdded(Many)
  BY <1>1, <1>2 DEF SpendIInv, SpendTypes
<1>. QED
  BY SpendSame, <1>3 DEF AdHoc!SpendIsBounded, SpendIInv, Many

(* Every token billed is in the ledger, in a request under way or lost with *)
(* a call or a request that failed; and the allowance is exceeded by the    *)
(* other calls of one request at most, or of as many as overlap             *)
(* (check_budget in adhoc.py and llm/usage.py).                             *)
THEOREM SpendingIsBounded == MCSpec => []SpendIsBounded
<1>1. MCInit => SpendIInv
  BY PulseAssumption, SpendInitIInv DEF MCInit
<1>2. ASSUME SpendIInv, [MCNext]_<<part, github, people, vars, credentials, spending>> PROVE SpendIInv'
  <2>1. [AdHoc!Next]_AdHoc!vars
    BY <1>2 DEF MCNext, spending, AdHoc!vars
  <2>. QED
    BY <1>2, <2>1, PulseAssumption, SpendIInvNext
<1>3. SpendIInv => SpendIsBounded
  BY PulseAssumption, SpendMeans DEF SpendIsBounded
<1>. QED
  BY <1>1, <1>2, <1>3, PTL DEF MCSpec

-----------------------------------------------------------------------------
(***************************************************************************)
(* Passes over GitHub.  That nothing due is behind the cursor is not       *)
(* inductive by itself.  What a pass will save is whole (Whole) because what*)
(* the window leaves out was due by the cursor the pass has read and is    *)
(* stored since (Relied), because a push before the listing shows in its   *)
(* pushed_at (Foreseen), and because a branch whose head is stored is stored*)
(* as far as it is due (InLine).                                           *)
(***************************************************************************)
CommitRows == [branch : Branch \cup {Main}, author : Login, date : Nat, pushed : Nat]
Maybe   == Nat \cup {None}
Holders == [Login -> Staff \cup {None}]
Stage   == {"asleep", "read", "list", "stamp", "commits", "branches", "items", "save"}

InPass ==
  [pc : Stage, map : Holders, was : [GitHub!Commit -> Staff \cup {None}], pushed : Maybe, listed : Nat, cursor : Maybe,
   started : Nat, got : SUBSET Nat, fresh : SUBSET Nat, items : [Item -> Maybe], cut : BOOLEAN]

SyncTypes ==
  /\ now \in Nat /\ cursor \in Maybe /\ listed \in Nat
  /\ commits \in Seq(CommitRows) /\ Len(commits) <= MaxCommits
  /\ touched \in [Item -> Maybe] /\ copied \in [Item -> Maybe]
  /\ account \in Holders /\ owners \in [Login -> SUBSET Staff] /\ gone \subseteq Staff
  /\ stored \subseteq GitHub!Pushed /\ credit \in [GitHub!Commit -> Staff \cup {None}]
  /\ pass \in [Pass -> InPass]
  /\ \A p \in Pass : pass[p].got \subseteq GitHub!Pushed
  /\ crowded \in BOOLEAN /\ overlapped \in BOOLEAN

LEMMA MaxSame == \A S : GitHub!Max(S) = Max(S)
BY Zenon DEF Max, GitHub!Max

LEMMA PushedIs ==
  ASSUME SyncTypes
  PROVE  GitHub!Pushed = 1 .. Len(commits) /\ GitHub!Pushed \subseteq Nat /\ Len(commits) \in Nat
BY DEF SyncTypes, GitHub!Pushed

LEMMA AsleepIs ==
  ASSUME GitHub!Settings
  PROVE  GitHub!Asleep \in InPass /\ GitHub!Asleep.pc = "asleep" /\ GitHub!Asleep.got = {}
           /\ GitHub!Asleep.cursor = None
         /\ GitHub!Asleep.listed = 0 /\ GitHub!Asleep.started = 0
BY DEF GitHub!Asleep, GitHub!Nobody, InPass, Holders, Stage, Maybe

LEMMA CommitIs ==
  ASSUME SyncTypes, NEW c \in GitHub!Pushed
  PROVE  /\ c \in Nat /\ commits[c].pushed \in Nat /\ commits[c].date \in Nat
         /\ commits[c].branch \in Branch \cup {Main} /\ commits[c].author \in Login
<1>1. commits \in Seq(CommitRows) /\ c \in 1 .. Len(commits)
  BY PushedIs DEF SyncTypes
<1>2. commits[c] \in CommitRows
  BY <1>1
<1>. QED
  BY <1>1, <1>2 DEF CommitRows

(* A push adds a commit and changes none. *)
LEMMA PushAdds ==
  ASSUME GitHub!Settings, SyncTypes, GitHub!Push
  PROVE  /\ commits' \in Seq(CommitRows) /\ Len(commits') = Len(commits) + 1
         /\ Len(commits') <= MaxCommits
         /\ GitHub!Pushed' = GitHub!Pushed \cup {Len(commits) + 1}
         /\ \A c \in GitHub!Pushed : commits'[c] = commits[c]
         /\ commits'[Len(commits) + 1] \in CommitRows
         /\ commits'[Len(commits) + 1].pushed = now
<1>1. PICK b \in Branch \cup {Main}, l \in Login, d \in 1 .. now :
        commits' = Append(commits, [branch |-> b, author |-> l, date |-> d, pushed |-> now])
  BY DEF GitHub!Push
<1> DEFINE e == [branch |-> b, author |-> l, date |-> d, pushed |-> now]
<1>2. e \in CommitRows /\ e.pushed = now
  BY DEF SyncTypes, CommitRows
<1> HIDE DEF e
<1>3. commits' = Append(commits, e) /\ commits \in Seq(CommitRows)
  BY <1>1 DEF SyncTypes, e
<1>4. /\ commits' \in Seq(CommitRows) /\ Len(commits') = Len(commits) + 1
      /\ \A c \in 1 .. Len(commits) : commits'[c] = commits[c]
      /\ commits'[Len(commits) + 1] = e
  BY <1>2, <1>3
<1>5. GitHub!Pushed = 1 .. Len(commits) /\ GitHub!Pushed' = 1 .. Len(commits')
  BY <1>3, <1>4 DEF GitHub!Pushed
<1>6. Len(commits) < MaxCommits /\ Len(commits) \in Nat
  BY <1>3 DEF GitHub!Push
<1>7. Len(commits) + 1 <= MaxCommits
  BY <1>6 DEF GitHub!Settings
<1>. QED
  BY <1>2, <1>4, <1>5, <1>6, <1>7

LEMMA SyncInitTypes == GitHub!Settings /\ GitHub!Init => SyncTypes
<1> SUFFICES ASSUME GitHub!Settings, GitHub!Init PROVE SyncTypes
  OBVIOUS
<1>1. commits = << >> /\ commits \in Seq(CommitRows) /\ Len(commits) = 0
  BY DEF GitHub!Init
<1>2. pass \in [Pass -> InPass] /\ \A p \in Pass : pass[p].got \subseteq GitHub!Pushed
  BY AsleepIs DEF GitHub!Init
<1>3. touched \in [Item -> Maybe] /\ copied \in [Item -> Maybe]
        /\ credit \in [GitHub!Commit -> Staff \cup {None}]
  BY DEF GitHub!Init, Maybe
<1>4. Len(commits) <= MaxCommits /\ now \in Nat /\ listed \in Nat /\ cursor \in Maybe
  BY <1>1 DEF GitHub!Init, Maybe, GitHub!Settings
<1>5. stored \subseteq GitHub!Pushed /\ gone \subseteq Staff /\ crowded \in BOOLEAN /\ overlapped \in BOOLEAN
  BY DEF GitHub!Init
<1>6. account \in Holders /\ owners \in [Login -> SUBSET Staff]
  BY DEF GitHub!Init, Holders
<1>. QED
  BY <1>1, <1>2, <1>3, <1>4, <1>5, <1>6 DEF SyncTypes

LEMMA PassTypes ==
  ASSUME SyncTypes, NEW p \in Pass, NEW r \in InPass, r.got \subseteq GitHub!Pushed, GitHub!Step(p, r)
  PROVE  /\ pass' \in [Pass -> InPass] /\ pass'[p] = r
         /\ \A q \in Pass : q # p => pass'[q] = pass[q]
         /\ \A q \in Pass : pass'[q].got \subseteq GitHub!Pushed
BY DEF SyncTypes, GitHub!Step

(* What pass p goes on with, action by action. *)
Begins(p) == [GitHub!Asleep EXCEPT !.pc = "read"]
Reads(p)  == IF account = GitHub!Nobody THEN GitHub!Asleep ELSE [pass[p] EXCEPT !.pc = "list", !.map = account]
Lists(p)  == [pass[p] EXCEPT !.pc = "stamp", !.pushed = GitHub!PushedAt, !.listed = now]
Stamps(p) == [pass[p] EXCEPT !.pc = "commits", !.started = now, !.cursor = cursor]
Skips(p)  == [pass[p] EXCEPT !.pc = "items"]
Takes(p)  == GitHub!Since(GitHub!On(Main), GitHub!Window(pass[p].cursor))
Fetches(p) == [GitHub!Got(p, Takes(p)) EXCEPT !.pc = "branches"]
TakesOf(p, B) == UNION {GitHub!Since(GitHub!On(b), GitHub!Window(pass[p].cursor)) : b \in B}
Branching(p, B) == [GitHub!Got(p, TakesOf(p, B)) EXCEPT !.pc = "items", !.cut = B # GitHub!News(p)]
Sees(p, i) == touched[i] # None /\ (pass[p].cursor = None \/ touched[i] >= pass[p].cursor)
Looks(p) == [pass[p] EXCEPT !.pc = "save", !.items = [i \in Item |-> IF Sees(p, i) THEN touched[i] ELSE None]]

LEMMA PushedAtIs ==
  ASSUME GitHub!Settings, SyncTypes, \A c \in GitHub!Pushed : commits[c].pushed <= now
  PROVE  /\ GitHub!PushedAt \in Maybe
         /\ \A c \in GitHub!Pushed : GitHub!PushedAt # None /\ commits[c].pushed <= GitHub!PushedAt
<1> DEFINE S == {commits[c].pushed : c \in GitHub!Pushed}
<1>1. CASE GitHub!Pushed = {}
  BY <1>1 DEF GitHub!PushedAt, Maybe
<1>2. CASE GitHub!Pushed # {}
  <2>1. S \in SUBSET Nat /\ S # {} /\ \A x \in S : x <= now
    <3>1. \A c \in GitHub!Pushed : commits[c].pushed \in Nat
      BY CommitIs
    <3>2. PICK c : c \in GitHub!Pushed
      BY <1>2
    <3>3. commits[c].pushed \in S
      BY <3>2
    <3>. QED
      BY <3>1, <3>3
  <2>2. Max(S) \in S /\ \A y \in S : y <= Max(S)
    <3> HIDE DEF S
    <3>. QED
      BY <2>1, LargestOf DEF SyncTypes
  <2>3. GitHub!PushedAt = Max(S)
    BY <1>2, MaxSame DEF GitHub!PushedAt
  <2>4. GitHub!PushedAt \in Nat /\ GitHub!PushedAt # None
    BY <2>1, <2>2, <2>3 DEF GitHub!Settings
  <2>5. \A c \in GitHub!Pushed : commits[c].pushed \in S
    OBVIOUS
  <2>. QED
    BY <2>2, <2>3, <2>4, <2>5 DEF Maybe
<1>. QED
  BY <1>1, <1>2

LEMMA TakesIs ==
  ASSUME SyncTypes, NEW p \in Pass, NEW B \in SUBSET Branch
  PROVE  Takes(p) \subseteq GitHub!Pushed /\ TakesOf(p, B) \subseteq GitHub!Pushed
BY DEF Takes, TakesOf, GitHub!Since, GitHub!On

(* What a listing hands a pass: the commits, those of them that are new,   *)
(* and the authors their rows have.                                        *)
LEMMA GotIs ==
  ASSUME SyncTypes, NEW p \in Pass, NEW S
  PROVE  \E f \in [GitHub!Commit -> Staff \cup {None}] :
           GitHub!Got(p, S) =
             [pass[p] EXCEPT !.got = @ \cup S, !.fresh = @ \cup (S \ stored), !.was = f]
<1>1. pass[p].was \in [GitHub!Commit -> Staff \cup {None}]
  BY DEF SyncTypes, InPass
<1>2. PICK f \in [GitHub!Commit -> Staff \cup {None}] :
        f = [c \in GitHub!Commit |-> IF c \in S THEN credit[c] ELSE pass[p].was[c]]
  BY <1>1 DEF SyncTypes
<1>3. GitHub!Got(p, S) = [pass[p] EXCEPT !.got = @ \cup S, !.fresh = @ \cup (S \ stored), !.was = f]
  BY <1>2 DEF GitHub!Got
<1>. QED
  BY <1>3, Zenon

LEMMA GoesOnTyped ==
  ASSUME GitHub!Settings, SyncTypes, NEW p \in Pass, \A c \in GitHub!Pushed : commits[c].pushed <= now
  PROVE  /\ GitHub!Asleep \in InPass /\ Begins(p) \in InPass /\ Reads(p) \in InPass
              /\ Lists(p) \in InPass
         /\ Stamps(p) \in InPass /\ Skips(p) \in InPass /\ Fetches(p) \in InPass /\ Looks(p) \in InPass
         /\ \A B \in SUBSET Branch : Branching(p, B) \in InPass
<1>1. pass[p] \in InPass
  BY DEF SyncTypes
<1>2. GitHub!Asleep \in InPass /\ Begins(p) \in InPass
  BY AsleepIs DEF Begins, InPass, Stage
<1>3. Reads(p) \in InPass
  BY <1>1, <1>2 DEF Reads, InPass, Stage, SyncTypes
<1>4. Lists(p) \in InPass
  <2>1. GitHub!PushedAt \in Maybe
    BY PushedAtIs
  <2>. QED
    BY <1>1, <2>1 DEF Lists, InPass, Stage, SyncTypes
<1>5. Stamps(p) \in InPass /\ Skips(p) \in InPass
  BY <1>1 DEF Stamps, Skips, InPass, Stage, SyncTypes
<1>6. GitHub!Pushed \subseteq Nat
  BY PushedIs
<1>7. ASSUME NEW S \in SUBSET GitHub!Pushed
      PROVE  GitHub!Got(p, S) \in InPass
  <2>1. PICK f \in [GitHub!Commit -> Staff \cup {None}] :
          GitHub!Got(p, S) = [pass[p] EXCEPT !.got = @ \cup S, !.fresh = @ \cup (S \ stored), !.was = f]
    BY <1>7, GotIs, Zenon
  <2>. QED
    BY <1>1, <1>6, <1>7, <2>1 DEF InPass
<1>8. Fetches(p) \in InPass
  <2>1. PICK r \in InPass : r = GitHub!Got(p, Takes(p))
    BY <1>7, TakesIs
  <2>. QED
    BY <2>1 DEF Fetches, InPass, Stage
<1>9. ASSUME NEW B \in SUBSET Branch
      PROVE  Branching(p, B) \in InPass
  <2>1. PICK r \in InPass : r = GitHub!Got(p, TakesOf(p, B))
    BY <1>7, TakesIs
  <2>2. (B # GitHub!News(p)) \in BOOLEAN
    OBVIOUS
  <2>. QED
    BY <2>1, <2>2 DEF Branching, InPass, Stage
<1>10. Looks(p) \in InPass
  <2>1. PICK f \in [Item -> Maybe] : f = [i \in Item |-> IF Sees(p, i) THEN touched[i] ELSE None]
    BY DEF SyncTypes, Maybe
  <2>2. Looks(p) = [pass[p] EXCEPT !.pc = "save", !.items = f]
    BY <2>1 DEF Looks
  <2>3. f \in [Item -> Maybe]
    BY <2>1
  <2>4. [pass[p] EXCEPT !.pc = "save", !.items = f] \in InPass
    BY <1>1, <2>3 DEF InPass, Stage
  <2>. QED
    BY <2>2, <2>4
<1>. QED
  BY <1>2, <1>3, <1>4, <1>5, <1>8, <1>9, <1>10

(* Each step of a pass, and what it hands on. *)
GoesOn(p) ==
  \/ pass[p] = GitHub!Asleep /\ GitHub!Step(p, Begins(p))
  \/ pass[p].pc = "read" /\ GitHub!Step(p, Reads(p))
  \/ pass[p].pc = "list" /\ GitHub!Step(p, Lists(p))
  \/ pass[p].pc = "stamp" /\ GitHub!Step(p, Stamps(p))
  \/ pass[p].pc = "commits" /\ GitHub!NothingPushed(p) /\ GitHub!Step(p, Skips(p))
  \/ pass[p].pc = "commits" /\ ~GitHub!NothingPushed(p) /\ GitHub!Step(p, Fetches(p))
  \/ /\ pass[p].pc = "branches"
     /\ \E B \in SUBSET GitHub!News(p) : GitHub!Step(p, Branching(p, B))
  \/ pass[p].pc = "items" /\ GitHub!Step(p, Looks(p))
  \/ GitHub!Step(p, GitHub!Asleep)

Walks(p) ==
  \/ GitHub!Begin(p) \/ GitHub!Read(p) \/ GitHub!List(p) \/ GitHub!Stamp(p) \/ GitHub!SkipCommits(p)
       \/ GitHub!FetchCommits(p)
  \/ GitHub!FetchBranches(p) \/ GitHub!FetchItems(p) \/ GitHub!Fail(p)

Around ==
  \/ GitHub!Tick \/ (\E i \in Item : GitHub!Touch(i))
       \/ (\E u \in Staff : GitHub!Disconnect(u) \/ GitHub!Leave(u) \/ \E l \in Login : GitHub!Connect(u, l))

LEMMA WalksGoOn ==
  ASSUME NEW p \in Pass, Walks(p)
  PROVE  GoesOn(p) /\ UNCHANGED <<now, commits, touched, gone, cursor, stored, credit, copied, listed,
             crowded, moves>>
<1>1. CASE GitHub!Begin(p)
  BY <1>1 DEF GitHub!Begin, GoesOn, Begins, GitHub!github, GitHub!rows
<1>2. CASE GitHub!Read(p)
  BY <1>2 DEF GitHub!Read, GoesOn, Reads, GitHub!github, GitHub!rows
<1>3. CASE GitHub!List(p)
  BY <1>3 DEF GitHub!List, GoesOn, Lists, GitHub!github, GitHub!rows
<1>4. CASE GitHub!Stamp(p)
  BY <1>4 DEF GitHub!Stamp, GoesOn, Stamps, GitHub!github, GitHub!rows
<1>5. CASE GitHub!SkipCommits(p)
  BY <1>5 DEF GitHub!SkipCommits, GoesOn, Skips, GitHub!github, GitHub!rows
<1>6. CASE GitHub!FetchCommits(p)
  BY <1>6 DEF GitHub!FetchCommits, GoesOn, Fetches, Takes, GitHub!github, GitHub!rows
<1>7. CASE GitHub!FetchBranches(p)
  <2>1. PICK B \in SUBSET GitHub!News(p) :
          GitHub!Step(p, [GitHub!Got(p, UNION {GitHub!Since(GitHub!On(b), GitHub!Window(pass[p].cursor)) : b \in B})
                     EXCEPT !.pc = "items", !.cut = B # GitHub!News(p)])
    BY <1>7, Zenon DEF GitHub!FetchBranches
  <2>2. GitHub!Step(p, Branching(p, B))
    BY <2>1 DEF Branching, TakesOf
  <2>3. pass[p].pc = "branches"
    BY <1>7 DEF GitHub!FetchBranches
  <2>4. UNCHANGED <<now, commits, touched, gone, cursor, stored, credit, copied, listed, crowded,
            moves>>
    BY <1>7 DEF GitHub!FetchBranches, GitHub!github, GitHub!rows
  <2>. QED
    BY <2>2, <2>3, <2>4 DEF GoesOn
<1>8. CASE GitHub!FetchItems(p)
  <2>1. GitHub!Step(p, Looks(p))
    BY <1>8 DEF GitHub!FetchItems, Looks, Sees
  <2>. QED
    BY <1>8, <2>1 DEF GitHub!FetchItems, GoesOn, GitHub!github, GitHub!rows
<1>9. CASE GitHub!Fail(p)
  BY <1>9 DEF GitHub!Fail, GoesOn, GitHub!github, GitHub!rows
<1>. QED
  BY <1>1, <1>2, <1>3, <1>4, <1>5, <1>6, <1>7, <1>8, <1>9 DEF Walks

LEMMA SyncNextIs ==
  GitHub!Next => GitHub!Push \/ Around \/ \E p \in Pass : Walks(p) \/ GitHub!Save(p)
BY DEF GitHub!Next, Around, Walks

PushesPast == \A c \in GitHub!Pushed : commits[c].pushed <= now

(* What pass p goes on with has a type. *)
LEMMA GoesOnTypes ==
  ASSUME GitHub!Settings, SyncTypes, PushesPast, NEW p \in Pass, GoesOn(p)
  PROVE  \E r \in InPass : r.got \subseteq GitHub!Pushed /\ GitHub!Step(p, r)
<1>0. pass[p] \in InPass /\ pass[p].got \subseteq GitHub!Pushed
  BY DEF SyncTypes
<1>1. CASE GitHub!Step(p, Begins(p))
  <2>1. Begins(p) \in InPass /\ Begins(p).got = {}
    BY GoesOnTyped, AsleepIs DEF Begins, PushesPast, InPass
  <2>. QED
    BY <1>1, <2>1
<1>2. CASE GitHub!Step(p, Reads(p))
  <2>1. Reads(p) \in InPass
    BY GoesOnTyped DEF PushesPast
  <2>2. Reads(p).got = {} \/ Reads(p).got = pass[p].got
    BY <1>0, AsleepIs DEF Reads, InPass
  <2>. QED
    BY <1>0, <1>2, <2>1, <2>2
<1>3. CASE GitHub!Step(p, Lists(p))
  <2>1. Lists(p) \in InPass
    BY GoesOnTyped DEF PushesPast
  <2>2. Lists(p).got = pass[p].got
    BY <1>0 DEF Lists, InPass
  <2>. QED
    BY <1>0, <1>3, <2>1, <2>2
<1>4. CASE GitHub!Step(p, Stamps(p))
  <2>1. Stamps(p) \in InPass
    BY GoesOnTyped DEF PushesPast
  <2>2. Stamps(p).got = pass[p].got
    BY <1>0 DEF Stamps, InPass
  <2>. QED
    BY <1>0, <1>4, <2>1, <2>2
<1>5. CASE GitHub!Step(p, Skips(p))
  <2>1. Skips(p) \in InPass /\ Skips(p).got = pass[p].got
    BY <1>0, GoesOnTyped DEF Skips, PushesPast, InPass
  <2>. QED
    BY <1>0, <1>5, <2>1
<1>6. CASE GitHub!Step(p, Fetches(p))
  <2>1. Fetches(p) \in InPass
    BY GoesOnTyped DEF PushesPast
  <2>2. Fetches(p).got = pass[p].got \cup Takes(p)
    BY <1>0 DEF Fetches, GitHub!Got, InPass
  <2>3. Takes(p) \subseteq GitHub!Pushed
    BY TakesIs
  <2>. QED
    BY <1>0, <1>6, <2>1, <2>2, <2>3
<1>7. ASSUME NEW B \in SUBSET GitHub!News(p), GitHub!Step(p, Branching(p, B))
      PROVE  \E r \in InPass : r.got \subseteq GitHub!Pushed /\ GitHub!Step(p, r)
  <2>1. B \in SUBSET Branch
    BY DEF GitHub!News
  <2>2. Branching(p, B) \in InPass
    BY <2>1, GoesOnTyped DEF PushesPast
  <2>3. Branching(p, B).got = pass[p].got \cup TakesOf(p, B)
    BY <1>0 DEF Branching, GitHub!Got, InPass
  <2>4. TakesOf(p, B) \subseteq GitHub!Pushed
    BY <2>1, TakesIs
  <2>. QED
    BY <1>0, <1>7, <2>2, <2>3, <2>4
<1>8. CASE GitHub!Step(p, Looks(p))
  <2>1. Looks(p) \in InPass
    BY GoesOnTyped DEF PushesPast
  <2>2. Looks(p).got = pass[p].got
    BY <1>0 DEF Looks, InPass
  <2>. QED
    BY <1>0, <1>8, <2>1, <2>2
<1>9. CASE GitHub!Step(p, GitHub!Asleep)
  BY <1>9, AsleepIs
<1>. QED
  BY <1>1, <1>2, <1>3, <1>4, <1>5, <1>6, <1>7, <1>8, <1>9 DEF GoesOn

LEMMA SyncTypesNext ==
  ASSUME GitHub!Settings, SyncTypes, PushesPast, [GitHub!Next]_GitHub!vars
  PROVE  SyncTypes'
<1>1. CASE UNCHANGED GitHub!vars
  BY <1>1 DEF GitHub!vars, SyncTypes, GitHub!Pushed
<1>2. CASE GitHub!Push
  <2>1. GitHub!Pushed \subseteq GitHub!Pushed'
    BY <1>2, PushAdds
  <2>2. commits' \in Seq(CommitRows) /\ Len(commits') <= MaxCommits
    BY <1>2, PushAdds
  <2>3. UNCHANGED <<now, touched, account, owners, gone, cursor, stored, credit, copied, listed, crowded, pass,
            overlapped>>
    BY <1>2 DEF GitHub!Push, GitHub!rows, GitHub!links
  <2>. QED
    BY <2>1, <2>2, <2>3 DEF SyncTypes
<1>3. CASE Around
  <2>1. UNCHANGED <<commits, cursor, stored, credit, copied, listed, crowded, pass, overlapped>>
    BY <1>3 DEF Around, GitHub!Tick, GitHub!Touch, GitHub!Connect, GitHub!Disconnect, GitHub!Leave,
       GitHub!github, GitHub!rows
  <2>2. now' \in Nat /\ touched' \in [Item -> Maybe] /\ gone' \subseteq Staff
    BY <1>3 DEF Around, GitHub!Tick, GitHub!Touch, GitHub!Connect, GitHub!Disconnect, GitHub!Leave,
       GitHub!github, GitHub!rows, SyncTypes, Maybe
  <2>4. account' \in Holders /\ owners' \in [Login -> SUBSET Staff]
    <3>1. ASSUME NEW u \in Staff, NEW m PROVE GitHub!Relink(u, m) \in Holders
      BY DEF GitHub!Relink, SyncTypes, Holders
    <3>2. ASSUME NEW u \in Staff, NEW l \in Login, GitHub!Connect(u, l)
          PROVE  account' \in Holders /\ owners' \in [Login -> SUBSET Staff]
      BY <3>1, <3>2 DEF GitHub!Connect, SyncTypes
    <3>3. ASSUME NEW u \in Staff, GitHub!Disconnect(u)
          PROVE  account' \in Holders /\ owners' \in [Login -> SUBSET Staff]
      BY <3>1, <3>3 DEF GitHub!Disconnect, SyncTypes
    <3>. QED
      BY <1>3, <3>2, <3>3 DEF Around, GitHub!Tick, GitHub!Touch, GitHub!Leave, GitHub!links, SyncTypes
  <2>3. GitHub!Pushed' = GitHub!Pushed
    BY <2>1 DEF GitHub!Pushed
  <2>. QED
    BY <2>1, <2>2, <2>3, <2>4 DEF SyncTypes
<1>4. ASSUME NEW p \in Pass, Walks(p)
      PROVE  SyncTypes'
  <2>1. PICK r \in InPass : r.got \subseteq GitHub!Pushed /\ GitHub!Step(p, r)
    BY <1>4, WalksGoOn, GoesOnTypes
  <2>2. pass' \in [Pass -> InPass] /\ \A q \in Pass : pass'[q].got \subseteq GitHub!Pushed
    BY <2>1, PassTypes
  <2>3. UNCHANGED <<now, commits, touched, gone, cursor, stored, credit, copied, listed, crowded,
            moves>>
    BY <1>4, WalksGoOn
  <2>4. account' \in Holders /\ owners' \in [Login -> SUBSET Staff] /\ overlapped' \in BOOLEAN
    <3>1. CASE GitHub!Begin(p)
      BY <3>1 DEF GitHub!Begin, SyncTypes, Holders
    <3>2. CASE ~GitHub!Begin(p)
      <4>1. account' = account /\ owners' = owners /\ overlapped' = overlapped
        BY <1>4, <3>2, Zenon DEF Walks, GitHub!Read, GitHub!List, GitHub!Stamp, GitHub!SkipCommits,
           GitHub!FetchCommits, GitHub!FetchBranches, GitHub!FetchItems, GitHub!Fail, GitHub!links
      <4>. QED
        BY <4>1 DEF SyncTypes
    <3>. QED
      BY <3>1, <3>2
  <2>5. GitHub!Pushed' = GitHub!Pushed
    BY <2>3 DEF GitHub!Pushed
  <2>. QED
    BY <2>2, <2>3, <2>4, <2>5 DEF SyncTypes
<1>5. ASSUME NEW p \in Pass, GitHub!Save(p)
      PROVE  SyncTypes'
  <2>0. pass[p] \in InPass
    BY DEF SyncTypes
  <2>1. pass' \in [Pass -> InPass] /\ \A q \in Pass : pass'[q].got \subseteq GitHub!Pushed
    BY <1>5, PassTypes, AsleepIs DEF GitHub!Save
  <2>2. UNCHANGED <<now, commits, touched, account, owners, gone, overlapped>>
    BY <1>5 DEF GitHub!Save, GitHub!github, GitHub!links
  <2>3. GitHub!Pushed' = GitHub!Pushed
    BY <2>2 DEF GitHub!Pushed
  <2>4. stored' \subseteq GitHub!Pushed
    BY <1>5 DEF GitHub!Save, SyncTypes
  <2>5. cursor' \in Maybe /\ listed' \in Nat
    BY <1>5, <2>0 DEF GitHub!Save, GitHub!NextCursor, InPass, Maybe
  <2>6. crowded' \in BOOLEAN
    BY <1>5, <2>0 DEF GitHub!Save, InPass, SyncTypes
  <2>7. credit' \in [GitHub!Commit -> Staff \cup {None}]
    <3>1. ASSUME NEW c \in GitHub!Commit
          PROVE  GitHub!Credited(p, c) \in Staff \cup {None}
      <4>1. credit[c] \in Staff \cup {None} /\ pass[p].was[c] \in Staff \cup {None}
        BY <2>0 DEF InPass, SyncTypes
      <4>2. c \in pass[p].got => pass[p].map[commits[c].author] \in Staff \cup {None}
        BY <2>0, CommitIs DEF InPass, Holders, SyncTypes
      <4>. QED
        BY <4>1, <4>2 DEF GitHub!Credited, GitHub!Attribute
    <3>2. credit' = [c \in GitHub!Commit |-> GitHub!Credited(p, c)]
      BY <1>5 DEF GitHub!Save
    <3>. QED
      BY <3>1, <3>2
  <2>8. copied' \in [Item -> Maybe]
    <3>1. copied' = [i \in Item |-> IF pass[p].items[i] # None THEN pass[p].items[i] ELSE copied[i]]
      BY <1>5 DEF GitHub!Save
    <3>2. pass[p].items \in [Item -> Maybe] /\ copied \in [Item -> Maybe]
      BY <2>0 DEF InPass, SyncTypes
    <3>. QED
      BY <3>1, <3>2
  <2>. QED
    BY <2>1, <2>2, <2>3, <2>4, <2>5, <2>6, <2>7, <2>8 DEF SyncTypes
<1>. QED
  BY <1>1, <1>2, <1>3, <1>4, <1>5, SyncNextIs

-----------------------------------------------------------------------------
(* The inductive invariant.  r is what a pass has in hand.                 *)

Timely(c) == commits[c].pushed + Delay <= commits[c].date + Overlap
OffMain(c) == commits[c].branch # Main

(* The clock, the cursor and the moments a pass noted. *)
Clocked ==
  /\ PushesPast /\ listed <= now
  /\ cursor # None => cursor <= now /\ cursor <= listed + Delay

Timed(r) ==
  /\ r.listed <= now /\ r.started <= now
  /\ r.cursor # None => r.cursor <= now
  /\ r.pc = "stamp" => now <= r.listed + Delay
  /\ r.pc \in {"commits", "branches", "items", "save"} => r.started <= r.listed + Delay

(* pushed_at is no older than what was pushed before the listing. *)
Foreseen(r) ==
  r.pc \in {"stamp", "commits"} =>
    \A c \in GitHub!Pushed :
        commits[c].pushed < r.listed => r.pushed # None /\ commits[c].pushed <= r.pushed

(* What was due by the cursor a pass has read is stored. *)
Relied(r) ==
  r.cursor # None =>
    \A c \in GitHub!Pushed :
      Timely(c) /\ commits[c].pushed + Delay < r.cursor => c \in stored \/ (OffMain(c) /\ crowded)

(* A branch is stored from its beginning on, which is why a branch whose   *)
(* head is stored need not be asked for.                                   *)
Behind(c, d) == c <= d /\ commits[c].branch = commits[d].branch /\ OffMain(c) /\ Timely(c)
InLine    == \A c, d \in GitHub!Pushed : Behind(c, d) /\ d \in stored => c \in stored \/ crowded
LineOf(r) == \A c, d \in GitHub!Pushed :
    Behind(c, d) /\ d \in r.got => c \in stored \cup r.got \/ crowded

Gathered(r) ==
  /\ r.pc \in {"asleep", "read", "list", "stamp", "commits"} => r.got = {}
  /\ r.pc = "branches" => \A c \in r.got : ~OffMain(c)

(* What a pass will have stored is all that was pushed before it listed.   *)
Whole(r) ==
  /\ r.pc \in {"branches", "items", "save"} =>
       \A c \in GitHub!Pushed :
           Timely(c) /\ ~OffMain(c) /\ commits[c].pushed < r.listed => c \in stored \cup r.got
  /\ r.pc \in {"items", "save"} =>
       \A c \in GitHub!Pushed : Timely(c) /\ OffMain(c) /\ commits[c].pushed < r.listed =>
         c \in stored \cup r.got \/ crowded \/ r.cut

Facts(r) == Timed(r) /\ Foreseen(r) /\ Relied(r) /\ LineOf(r) /\ Gathered(r) /\ Whole(r)

SyncIInv ==
  /\ SyncTypes /\ Clocked /\ GitHub!NothingBehindCursor /\ InLine
  /\ \A p \in Pass : Facts(pass[p])

-----------------------------------------------------------------------------
LEMMA AsleepFacts ==
  ASSUME GitHub!Settings, SyncTypes, NEW r \in InPass, r.pc \in {"asleep", "read"}, r.got = {},
         r.cursor = None,
         r.listed = 0, r.started = 0
  PROVE  Facts(r)
<1>1. now \in Nat
  BY DEF SyncTypes
<1>2. Timed(r)
  BY <1>1 DEF Timed
<1>. QED
  BY <1>2 DEF Facts, Foreseen, Relied, LineOf, Gathered, Whole

LEMMA SyncInitIInv ==
  ASSUME GitHub!Settings, GitHub!Init
  PROVE  SyncIInv
<1>1. SyncTypes
  BY SyncInitTypes
<1>2. GitHub!Pushed = {}
  BY <1>1, PushedIs DEF GitHub!Init
<1>3. Clocked /\ GitHub!NothingBehindCursor /\ InLine
  BY <1>2 DEF GitHub!Init, Clocked, PushesPast, GitHub!NothingBehindCursor, GitHub!Due, InLine
<1>4. \A p \in Pass : Facts(pass[p])
  BY <1>1, AsleepIs, AsleepFacts DEF GitHub!Init
<1>. QED
  BY <1>1, <1>3, <1>4 DEF SyncIInv

(* What a pass has in hand stays true of it while rows are only added,     *)
LEMMA FactsStay ==
  ASSUME SyncTypes, NEW r \in InPass, Facts(r),
         commits' = commits, now' = now, stored \subseteq stored', crowded => crowded'
  PROVE  Facts(r)'
<1>1. GitHub!Pushed' = GitHub!Pushed /\ \A c :
          (Timely(c)' <=> Timely(c)) /\ (OffMain(c)' <=> OffMain(c))
  BY DEF GitHub!Pushed, Timely, OffMain
<1>2. Timed(r)' /\ Foreseen(r)' /\ Gathered(r)'
  BY <1>1 DEF Facts, Timed, Foreseen, Gathered
<1>3. Relied(r)'
  BY <1>1 DEF Facts, Relied
<1>4. LineOf(r)'
  <2>1. \A c, d : Behind(c, d)' <=> Behind(c, d)
    BY <1>1 DEF Behind
  <2>. QED
    BY <1>1, <2>1 DEF Facts, LineOf
<1>5. Whole(r)'
  BY <1>1 DEF Facts, Whole
<1>. QED
  BY <1>2, <1>3, <1>4, <1>5 DEF Facts

(* and while commits are pushed.                                           *)
LEMMA FactsPush ==
  ASSUME GitHub!Settings, SyncTypes, Clocked, NEW r \in InPass, r.got \subseteq GitHub!Pushed, Facts(r),
         GitHub!Push
  PROVE  Facts(r)'
<1> DEFINE n == Len(commits) + 1
<1>0. UNCHANGED <<now, stored, crowded>>
  BY DEF GitHub!Push, GitHub!rows
<1>1. GitHub!Pushed' = GitHub!Pushed \cup {n} /\ n \notin GitHub!Pushed /\ n \in Nat
        /\ \A c \in GitHub!Pushed : c \in Nat /\ c < n
  BY PushAdds, PushedIs
<1>2. \A c \in GitHub!Pushed : commits'[c] = commits[c]
  BY PushAdds
<1>3. commits'[n].pushed = now /\ now \in Nat
  BY PushAdds DEF SyncTypes
<1> HIDE DEF n
<1>4. \A c \in GitHub!Pushed : (Timely(c)' <=> Timely(c)) /\ (OffMain(c)' <=> OffMain(c))
  BY <1>2 DEF Timely, OffMain
<1>5. r.listed \in Nat /\ r.listed <= now /\ r.cursor \in Maybe /\ (r.cursor # None => r.cursor <= now)
  BY DEF Facts, Timed, InPass
<1>6. Timed(r)' /\ Gathered(r)'
  BY <1>0, <1>4 DEF Facts, Timed, Gathered
<1>7. Foreseen(r)'
  BY <1>1, <1>2, <1>3, <1>5 DEF Facts, Foreseen
<1>8. Relied(r)'
  <2> SUFFICES ASSUME r.cursor # None, NEW c \in GitHub!Pushed', Timely(c)',
                      (commits[c].pushed)' + Delay < r.cursor
               PROVE  c \in stored' \/ (OffMain(c)' /\ crowded')
    BY DEF Relied
  <2>1. c # n
    BY <1>3, <1>5 DEF GitHub!Settings, Maybe
  <2>2. c \in GitHub!Pushed /\ Timely(c) /\ commits[c].pushed + Delay < r.cursor
    BY <1>1, <1>2, <1>4, <2>1
  <2>. QED
    BY <1>0, <1>4, <2>2 DEF Facts, Relied
<1>9. LineOf(r)'
  <2> SUFFICES ASSUME NEW c \in GitHub!Pushed', NEW d \in GitHub!Pushed', Behind(c, d)', d \in r.got
               PROVE  c \in stored' \cup r.got \/ crowded'
    BY DEF LineOf
  <2>1. d \in GitHub!Pushed /\ c <= d
    BY DEF Behind
  <2>2. c \in GitHub!Pushed
    BY <1>1, <2>1
  <2>3. Behind(c, d)
    BY <1>2, <1>4, <2>1, <2>2 DEF Behind
  <2>. QED
    BY <1>0, <2>1, <2>2, <2>3 DEF Facts, LineOf
<1>10. Whole(r)'
  <2>1. ASSUME NEW c \in GitHub!Pushed', (commits[c].pushed)' < r.listed, Timely(c)'
        PROVE  c \in GitHub!Pushed /\ commits[c].pushed < r.listed /\ Timely(c)
                 /\ (OffMain(c)' <=> OffMain(c))
    <3>1. c # n
      BY <1>3, <1>5, <2>1
    <3>. QED
      BY <1>1, <1>2, <1>4, <2>1, <3>1
  <2>. QED
    BY <1>0, <2>1 DEF Facts, Whole
<1>. QED
  BY <1>6, <1>7, <1>8, <1>9, <1>10 DEF Facts

LEMMA FactsTick ==
  ASSUME GitHub!Settings, SyncTypes, NEW p \in Pass, Facts(pass[p]), GitHub!Tick
  PROVE  Facts(pass[p])'
<1>1. now' = now + 1 /\ now \in Nat /\ UNCHANGED <<commits, stored, crowded, pass>>
  BY DEF GitHub!Tick, SyncTypes, GitHub!github, GitHub!rows
<1>2. pass[p].pc = "stamp" => now < pass[p].listed + Delay
  BY DEF GitHub!Tick
<1>3. PICK r \in InPass : r = pass[p]
  BY DEF SyncTypes
<1>4. GitHub!Pushed' = GitHub!Pushed /\ \A c :
          (Timely(c)' <=> Timely(c)) /\ (OffMain(c)' <=> OffMain(c))
  BY <1>1 DEF GitHub!Pushed, Timely, OffMain
<1>5. r.listed \in Nat /\ r.started \in Nat /\ r.cursor \in Maybe
  BY DEF InPass
<1>6. Facts(r) /\ (r.pc = "stamp" => now < r.listed + Delay)
  BY <1>2, <1>3
<1>7. Timed(r)'
  BY <1>1, <1>5, <1>6 DEF Facts, Timed, GitHub!Settings, Maybe
<1>8. Foreseen(r)' /\ Gathered(r)' /\ Relied(r)' /\ Whole(r)'
  BY <1>1, <1>4, <1>6 DEF Facts, Foreseen, Gathered, Relied, Whole
<1>9. LineOf(r)'
  <2>1. \A c, d : Behind(c, d)' <=> Behind(c, d)
    BY <1>1, <1>4 DEF Behind
  <2>. QED
    BY <1>1, <1>4, <1>6, <2>1 DEF Facts, LineOf
<1>10. Facts(r)'
  BY <1>7, <1>8, <1>9 DEF Facts
<1>. QED
  BY <1>1, <1>3, <1>10

-----------------------------------------------------------------------------
(* What a pass goes on with has the same facts behind it.                  *)

LEMMA FactsRead ==
  ASSUME GitHub!Settings, SyncIInv, NEW p \in Pass, pass[p].pc = "read"
  PROVE  Facts(Reads(p))
<1>1. SyncTypes /\ pass[p] \in InPass /\ Facts(pass[p])
  BY DEF SyncIInv, SyncTypes
<1>2. CASE account = GitHub!Nobody
  BY <1>1, <1>2, AsleepIs, AsleepFacts DEF Reads
<1>3. CASE account # GitHub!Nobody
  <2>1. PICK r \in InPass : r = pass[p]
    BY <1>1
  <2>2. PICK s \in InPass : s = Reads(p)
    BY <1>1, GoesOnTyped DEF SyncIInv, Clocked, PushesPast
  <2>3. /\ s.pc = "list" /\ s.got = r.got /\ s.cursor = r.cursor
        /\ s.listed = r.listed /\ s.started = r.started
    BY <1>1, <1>3, <2>1, <2>2 DEF Reads, InPass
  <2>4. Facts(r) /\ r.pc = "read"
    BY <1>1, <2>1
  <2>5. Timed(s) /\ Gathered(s) /\ Foreseen(s) /\ Whole(s)
    BY <2>3, <2>4 DEF Facts, Timed, Foreseen, Gathered, Whole
  <2>6. Relied(s) /\ LineOf(s)
    BY <2>3, <2>4 DEF Facts, Relied, LineOf
  <2>. QED
    BY <2>2, <2>5, <2>6 DEF Facts
<1>. QED
  BY <1>2, <1>3

LEMMA FactsList ==
  ASSUME GitHub!Settings, SyncIInv, NEW p \in Pass, pass[p].pc = "list"
  PROVE  Facts(Lists(p))
<1>1. SyncTypes /\ PushesPast /\ now \in Nat
  BY DEF SyncIInv, SyncTypes, Clocked
<1>2. PICK r \in InPass : r = pass[p] /\ Facts(r) /\ r.pc = "list"
  BY DEF SyncIInv, SyncTypes
<1>3. PICK s \in InPass : s = Lists(p)
  BY <1>1, GoesOnTyped DEF PushesPast
<1>4. /\ s.pc = "stamp" /\ s.got = r.got /\ s.cursor = r.cursor /\ s.started = r.started
      /\ s.listed = now /\ s.pushed = GitHub!PushedAt
  BY <1>2, <1>3 DEF Lists, InPass
<1>5. Timed(s)
  BY <1>1, <1>2, <1>4 DEF Facts, Timed, GitHub!Settings
<1>6. Foreseen(s)
  BY <1>1, <1>4, PushedAtIs DEF Foreseen, PushesPast
<1>7. Relied(s) /\ LineOf(s) /\ Gathered(s) /\ Whole(s)
  BY <1>2, <1>4 DEF Facts, Relied, LineOf, Gathered, Whole
<1>. QED
  BY <1>3, <1>5, <1>6, <1>7 DEF Facts

(* The cursor is no later than a latency after its listing, so what was    *)
(* pushed a latency before the cursor was listed, and is stored.           *)
LEMMA FactsStamp ==
  ASSUME GitHub!Settings, SyncIInv, NEW p \in Pass, pass[p].pc = "stamp"
  PROVE  Facts(Stamps(p))
<1>1. SyncTypes /\ PushesPast /\ now \in Nat /\ cursor \in Maybe /\ listed \in Nat
  BY DEF SyncIInv, SyncTypes, Clocked
<1>2. PICK r \in InPass : r = pass[p] /\ Facts(r) /\ r.pc = "stamp"
  BY DEF SyncIInv, SyncTypes
<1>3. PICK s \in InPass : s = Stamps(p)
  BY <1>1, GoesOnTyped DEF PushesPast
<1>4. /\ s.pc = "commits" /\ s.got = r.got /\ s.cursor = cursor /\ s.started = now
      /\ s.listed = r.listed /\ s.pushed = r.pushed
  BY <1>2, <1>3 DEF Stamps, InPass
<1>5. Timed(s)
  BY <1>1, <1>2, <1>4 DEF Facts, Timed, SyncIInv, Clocked
<1>6. Foreseen(s) /\ LineOf(s) /\ Gathered(s) /\ Whole(s)
  BY <1>2, <1>4 DEF Facts, Foreseen, LineOf, Gathered, Whole
<1>7. Relied(s)
  <2> SUFFICES ASSUME cursor # None, NEW c \in GitHub!Pushed, Timely(c),
                      commits[c].pushed + Delay < cursor
               PROVE  c \in stored \/ (OffMain(c) /\ crowded)
    BY <1>4 DEF Relied
  <2>1. cursor <= listed + Delay /\ cursor \in Nat
    BY <1>1 DEF SyncIInv, Clocked, Maybe
  <2>2. commits[c].pushed < listed
    BY <1>1, <2>1, CommitIs DEF GitHub!Settings
  <2>3. GitHub!Due(c)
    BY <2>2 DEF GitHub!Due, Timely
  <2>. QED
    BY <2>3 DEF SyncIInv, GitHub!NothingBehindCursor, OffMain
<1>. QED
  BY <1>3, <1>5, <1>6, <1>7 DEF Facts

(* Nothing pushed since the window opens: all there is was pushed a latency *)
(* before the cursor.                                                      *)
LEMMA FactsSkip ==
  ASSUME GitHub!Settings, SyncIInv, NEW p \in Pass, pass[p].pc = "commits", GitHub!NothingPushed(p)
  PROVE  Facts(Skips(p))
<1>1. SyncTypes /\ PushesPast
  BY DEF SyncIInv, Clocked
<1>2. PICK r \in InPass : r = pass[p] /\ Facts(r) /\ r.pc = "commits"
  BY DEF SyncIInv, SyncTypes
<1>3. PICK s \in InPass : s = Skips(p)
  BY <1>1, GoesOnTyped DEF PushesPast
<1>4. /\ s.pc = "items" /\ s.got = r.got /\ s.cursor = r.cursor /\ s.started = r.started
      /\ s.listed = r.listed /\ s.pushed = r.pushed
  BY <1>2, <1>3 DEF Skips, InPass
<1>5. Timed(s) /\ Foreseen(s) /\ Relied(s) /\ LineOf(s) /\ Gathered(s)
  BY <1>2, <1>4 DEF Facts, Timed, Foreseen, Relied, LineOf, Gathered
<1>6. r.cursor # None /\ r.cursor \in Nat /\ r.pushed \in Nat /\ r.pushed <= r.cursor - Overlap
  BY <1>2 DEF GitHub!NothingPushed, GitHub!Window, InPass, Maybe
<1>7. ASSUME NEW c \in GitHub!Pushed, Timely(c), commits[c].pushed < s.listed
      PROVE  c \in stored \/ (OffMain(c) /\ crowded)
  <2>1. commits[c].pushed <= r.pushed
    BY <1>2, <1>4, <1>7 DEF Facts, Foreseen
  <2>2. commits[c].pushed + Delay < r.cursor
    BY <1>1, <1>6, <2>1, CommitIs DEF GitHub!Settings
  <2>. QED
    BY <1>2, <1>6, <1>7, <2>2 DEF Facts, Relied
<1>8. Whole(s)
  BY <1>7 DEF Whole
<1>. QED
  BY <1>3, <1>5, <1>8 DEF Facts

(* A commit of its branch that the window leaves out is one relied on.     *)
LEMMA Reached ==
  ASSUME GitHub!Settings, SyncTypes, NEW r \in InPass, Relied(r), NEW c \in GitHub!Pushed, Timely(c),
         c \notin GitHub!Since(GitHub!On(commits[c].branch), GitHub!Window(r.cursor))
  PROVE  c \in stored \/ (OffMain(c) /\ crowded)
<1>1. c \in GitHub!On(commits[c].branch)
  BY DEF GitHub!On
<1>2. GitHub!Window(r.cursor) # None /\ ~(commits[c].date >= GitHub!Window(r.cursor))
  BY <1>1 DEF GitHub!Since
<1>3. r.cursor # None /\ r.cursor \in Nat
  BY <1>2 DEF GitHub!Window, InPass, Maybe
<1>4. GitHub!Window(r.cursor) = r.cursor - Overlap
  BY <1>3 DEF GitHub!Window
<1>5. commits[c].pushed + Delay < r.cursor
  BY <1>2, <1>3, <1>4, CommitIs DEF GitHub!Settings, Timely
<1>. QED
  BY <1>3, <1>5 DEF Relied

LEMMA FactsFetch ==
  ASSUME GitHub!Settings, SyncIInv, NEW p \in Pass, pass[p].pc = "commits"
  PROVE  Facts(Fetches(p))
<1>1. SyncTypes /\ PushesPast
  BY DEF SyncIInv, Clocked
<1>2. PICK r \in InPass : r = pass[p] /\ Facts(r) /\ r.pc = "commits"
  BY DEF SyncIInv, SyncTypes
<1>3. PICK s \in InPass : s = Fetches(p)
  BY <1>1, GoesOnTyped DEF PushesPast
<1>4. /\ s.pc = "branches" /\ s.cursor = r.cursor /\ s.started = r.started
      /\ s.listed = r.listed /\ s.got = r.got \cup Takes(p)
  <2>1. PICK f \in [GitHub!Commit -> Staff \cup {None}] : GitHub!Got(p, Takes(p)) =
          [pass[p] EXCEPT !.got = @ \cup Takes(p), !.fresh = @ \cup (Takes(p) \ stored), !.was = f]
    BY <1>1, GotIs, Zenon
  <2>. QED
    BY <1>2, <1>3, <2>1 DEF Fetches, InPass
<1>5. s.got = GitHub!Since(GitHub!On(Main), GitHub!Window(r.cursor))
  BY <1>2, <1>4 DEF Facts, Gathered, Takes
<1>6. \A c \in s.got : ~OffMain(c)
  BY <1>5 DEF GitHub!Since, GitHub!On, OffMain
<1>7. Timed(s) /\ Foreseen(s) /\ Relied(s) /\ Gathered(s)
  BY <1>2, <1>4, <1>6 DEF Facts, Timed, Foreseen, Relied, Gathered
<1>8. LineOf(s)
  BY <1>6 DEF LineOf, Behind, OffMain
<1>9. Whole(s)
  <2>1. ASSUME NEW c \in GitHub!Pushed, Timely(c), ~OffMain(c)
        PROVE  c \in stored \cup s.got
    <3>1. commits[c].branch = Main
      BY <2>1 DEF OffMain
    <3>2. c \in GitHub!Since(GitHub!On(commits[c].branch), GitHub!Window(r.cursor)) => c \in s.got
      BY <1>5, <3>1
    <3>3. Relied(r)
      BY <1>2 DEF Facts
    <3>. QED
      BY <1>1, <2>1, <3>2, <3>3, Reached
  <2>. QED
    BY <1>4, <2>1 DEF Whole
<1>. QED
  BY <1>3, <1>7, <1>8, <1>9 DEF Facts

(* The head of a branch is its last commit.                                *)
LEMMA TipIs ==
  ASSUME SyncTypes, NEW c \in GitHub!Pushed
  PROVE  LET b == commits[c].branch
         IN  GitHub!Tip(b) \in GitHub!Pushed /\ c <= GitHub!Tip(b) /\ commits[GitHub!Tip(b)].branch = b
<1> DEFINE b == commits[c].branch
           S == GitHub!On(b)
<1>1. S \in SUBSET Nat /\ S # {} /\ (\A x \in S : x <= Len(commits)) /\ Len(commits) \in Nat
  BY PushedIs DEF GitHub!On
<1>2. c \in S
  BY DEF GitHub!On
<1>3. Max(S) \in S /\ \A y \in S : y <= Max(S)
  <2> HIDE DEF S
  <2>. QED
    BY <1>1, LargestOf
<1>4. GitHub!Tip(b) = Max(S)
  BY MaxSame DEF GitHub!Tip
<1>5. GitHub!Tip(b) \in S /\ c <= GitHub!Tip(b)
  BY <1>2, <1>3, <1>4
<1>. QED
  BY <1>5 DEF GitHub!On

(* The other branches: those whose head is stored are stored as far as     *)
(* they are due, those read give what the window lets through.             *)
LEMMA FactsBranches ==
  ASSUME GitHub!Settings, SyncIInv, NEW p \in Pass, pass[p].pc = "branches",
         NEW B \in SUBSET GitHub!News(p)
  PROVE  Facts(Branching(p, B))
<1>1. SyncTypes /\ PushesPast /\ InLine /\ B \in SUBSET Branch
  BY DEF SyncIInv, Clocked, GitHub!News
<1>2. PICK r \in InPass : r = pass[p] /\ Facts(r) /\ r.pc = "branches"
  BY DEF SyncIInv, SyncTypes
<1>3. PICK s \in InPass : s = Branching(p, B)
  BY <1>1, GoesOnTyped DEF PushesPast
<1>4. /\ s.pc = "items" /\ s.cursor = r.cursor /\ s.started = r.started
      /\ s.listed = r.listed /\ s.got = r.got \cup TakesOf(p, B)
      /\ s.cut <=> B # GitHub!News(p)
  <2>1. PICK f \in [GitHub!Commit -> Staff \cup {None}] : GitHub!Got(p, TakesOf(p, B)) =
          [pass[p] EXCEPT !.got = @ \cup TakesOf(p, B), !.fresh = @ \cup (TakesOf(p, B) \ stored), !.was = f]
    BY <1>1, GotIs, Zenon
  <2>. QED
    BY <1>2, <1>3, <2>1 DEF Branching, InPass
<1>5. s.cut <=> B # GitHub!News(p)
  BY <1>4
<1>6. Relied(r) /\ \A c \in r.got : ~OffMain(c)
  BY <1>2 DEF Facts, Gathered
<1>7. Timed(s) /\ Foreseen(s) /\ Relied(s) /\ Gathered(s)
  BY <1>2, <1>4 DEF Facts, Timed, Foreseen, Relied, Gathered
<1>8. ASSUME NEW c \in GitHub!Pushed, Timely(c), commits[c].branch \in B
      PROVE  c \in stored \cup s.got \/ crowded
  <2>1. c \in GitHub!Since(GitHub!On(commits[c].branch), GitHub!Window(r.cursor)) => c \in TakesOf(p, B)
    BY <1>2, <1>8 DEF TakesOf
  <2>2. c \in stored \/ crowded
          \/ c \in GitHub!Since(GitHub!On(commits[c].branch), GitHub!Window(r.cursor))
    BY <1>1, <1>6, <1>8, Reached
  <2>. QED
    BY <1>4, <2>1, <2>2
<1>9. LineOf(s)
  <2> SUFFICES ASSUME NEW c \in GitHub!Pushed, NEW d \in GitHub!Pushed, Behind(c, d), d \in s.got
               PROVE  c \in stored \cup s.got \/ crowded
    BY DEF LineOf
  <2>1. OffMain(d) /\ Timely(c) /\ commits[c].branch = commits[d].branch
    BY DEF Behind, OffMain
  <2>2. d \in TakesOf(p, B)
    BY <1>4, <1>6, <2>1
  <2>3. commits[d].branch \in B
    BY <2>2 DEF TakesOf, GitHub!Since, GitHub!On
  <2>. QED
    BY <1>8, <2>1, <2>3
<1>10. ASSUME NEW c \in GitHub!Pushed, Timely(c), ~OffMain(c), commits[c].pushed < s.listed
       PROVE  c \in stored \cup s.got
  BY <1>2, <1>4, <1>10 DEF Facts, Whole
<1>11. ASSUME NEW c \in GitHub!Pushed, Timely(c), OffMain(c), B = GitHub!News(p)
       PROVE  c \in stored \cup s.got \/ crowded
  <2> DEFINE b == commits[c].branch
  <2>1. b \in Branch
    BY <1>1, <1>11, CommitIs DEF OffMain
  <2>2. GitHub!Tip(b) \in GitHub!Pushed /\ c <= GitHub!Tip(b) /\ commits[GitHub!Tip(b)].branch = b
    BY <1>1, TipIs
  <2>3. CASE b \in B
    BY <1>8, <1>11, <2>3
  <2>4. CASE b \notin B
    <3>1. GitHub!On(b) # {}
      BY DEF GitHub!On
    <3>2. GitHub!Tip(b) \in stored \cup r.got
      BY <1>2, <1>11, <2>1, <2>4, <3>1 DEF GitHub!News
    <3>3. OffMain(GitHub!Tip(b))
      BY <1>11, <2>2 DEF OffMain
    <3>4. GitHub!Tip(b) \in stored
      BY <1>6, <3>2, <3>3
    <3>5. Behind(c, GitHub!Tip(b))
      BY <1>11, <2>2 DEF Behind
    <3>. QED
      BY <1>1, <2>2, <3>4, <3>5 DEF InLine
  <2>. QED
    BY <2>3, <2>4
<1>12. Whole(s)
  BY <1>5, <1>10, <1>11 DEF Whole
<1>. QED
  BY <1>3, <1>7, <1>9, <1>12 DEF Facts

LEMMA FactsLook ==
  ASSUME GitHub!Settings, SyncIInv, NEW p \in Pass, pass[p].pc = "items"
  PROVE  Facts(Looks(p))
<1>1. SyncTypes /\ PushesPast
  BY DEF SyncIInv, Clocked
<1>2. PICK r \in InPass : r = pass[p] /\ Facts(r) /\ r.pc = "items"
  BY DEF SyncIInv, SyncTypes
<1>3. PICK s \in InPass : s = Looks(p)
  BY <1>1, GoesOnTyped DEF PushesPast
<1>4. /\ s.pc = "save" /\ s.cursor = r.cursor /\ s.started = r.started
      /\ s.listed = r.listed /\ s.got = r.got /\ s.cut = r.cut
  <2> DEFINE f == [i \in Item |-> IF Sees(p, i) THEN touched[i] ELSE None]
  <2>1. s = [r EXCEPT !.pc = "save", !.items = f]
    BY <1>2, <1>3, Zenon DEF Looks
  <2> HIDE DEF f
  <2>. QED
    BY <1>2, <2>1 DEF InPass
<1>5. Timed(s) /\ Foreseen(s) /\ Relied(s) /\ Gathered(s) /\ LineOf(s)
  BY <1>2, <1>4 DEF Facts, Timed, Foreseen, Relied, Gathered, LineOf
<1>6. Whole(s)
  BY <1>2, <1>4 DEF Facts, Whole
<1>. QED
  BY <1>3, <1>5, <1>6 DEF Facts

LEMMA GoesOnFacts ==
  ASSUME GitHub!Settings, SyncIInv, NEW p \in Pass, GoesOn(p)
  PROVE  \E r \in InPass : r.got \subseteq GitHub!Pushed /\ GitHub!Step(p, r) /\ Facts(r)
<1>1. PICK r \in InPass : r.got \subseteq GitHub!Pushed /\ GitHub!Step(p, r)
  BY GoesOnTypes DEF SyncIInv, Clocked
<1>2. pass'[p] = r
  BY <1>1, PassTypes DEF SyncIInv
<1>3. ASSUME NEW s, GitHub!Step(p, s), Facts(s)
      PROVE  Facts(r)
  <2>1. pass'[p] = s
    BY <1>3 DEF GitHub!Step, SyncIInv, SyncTypes
  <2>. QED
    BY <1>2, <1>3, <2>1
<1>4. SyncTypes
  BY DEF SyncIInv
<1>5. Begins(p) \in InPass /\ Facts(Begins(p)) /\ Facts(GitHub!Asleep)
  <2>1. Begins(p) \in InPass /\ Begins(p).pc = "read" /\ Begins(p).got = {} /\ Begins(p).cursor = None
        /\ Begins(p).listed = 0 /\ Begins(p).started = 0
    BY AsleepIs DEF Begins, InPass, Stage
  <2>. QED
    BY <1>4, <2>1, AsleepIs, AsleepFacts
<1>6. CASE pass[p] = GitHub!Asleep /\ GitHub!Step(p, Begins(p))
  BY <1>1, <1>3, <1>5, <1>6
<1>7. CASE pass[p].pc = "read" /\ GitHub!Step(p, Reads(p))
  BY <1>1, <1>3, <1>7, FactsRead
<1>8. CASE pass[p].pc = "list" /\ GitHub!Step(p, Lists(p))
  BY <1>1, <1>3, <1>8, FactsList
<1>9. CASE pass[p].pc = "stamp" /\ GitHub!Step(p, Stamps(p))
  BY <1>1, <1>3, <1>9, FactsStamp
<1>10. CASE pass[p].pc = "commits" /\ GitHub!NothingPushed(p) /\ GitHub!Step(p, Skips(p))
  BY <1>1, <1>3, <1>10, FactsSkip
<1>11. CASE pass[p].pc = "commits" /\ ~GitHub!NothingPushed(p) /\ GitHub!Step(p, Fetches(p))
  BY <1>1, <1>3, <1>11, FactsFetch
<1>12. CASE pass[p].pc = "branches" /\ \E B \in SUBSET GitHub!News(p) : GitHub!Step(p, Branching(p, B))
  BY <1>1, <1>3, <1>12, FactsBranches
<1>13. CASE pass[p].pc = "items" /\ GitHub!Step(p, Looks(p))
  BY <1>1, <1>3, <1>13, FactsLook
<1>14. CASE GitHub!Step(p, GitHub!Asleep)
  BY <1>1, <1>3, <1>5, <1>14
<1>. QED
  BY <1>6, <1>7, <1>8, <1>9, <1>10, <1>11, <1>12, <1>13, <1>14 DEF GoesOn

(* The commit of a pass: its cursor goes with its listing, and what it     *)
(* brings completes what is stored.                                        *)
LEMMA SaveKeeps ==
  ASSUME GitHub!Settings, SyncIInv, NEW p \in Pass, GitHub!Save(p)
  PROVE  Clocked' /\ GitHub!NothingBehindCursor' /\ InLine'
<1>1. PICK r \in InPass : r = pass[p] /\ Facts(r) /\ r.pc = "save"
  BY DEF SyncIInv, SyncTypes, GitHub!Save
<1>2. /\ stored' = stored \cup r.got /\ cursor' = r.started /\ listed' = r.listed
      /\ crowded' = (crowded \/ r.cut) /\ commits' = commits /\ now' = now
  BY <1>1 DEF GitHub!Save, GitHub!NextCursor, GitHub!github
<1>3. GitHub!Pushed' = GitHub!Pushed /\ \A c :
          (Timely(c)' <=> Timely(c)) /\ (OffMain(c)' <=> OffMain(c))
  BY <1>2 DEF GitHub!Pushed, Timely, OffMain
<1>4. Clocked'
  <2>1. PushesPast'
    BY <1>2, <1>3 DEF SyncIInv, Clocked, PushesPast
  <2>2. r.started <= now /\ r.started <= r.listed + Delay /\ r.listed <= now
    BY <1>1 DEF Facts, Timed
  <2>. QED
    BY <1>2, <2>1, <2>2 DEF Clocked
<1>5. GitHub!NothingBehindCursor'
  <2> SUFFICES ASSUME NEW c \in GitHub!Pushed', GitHub!Due(c)', ~OffMain(c) \/ ~crowded'
               PROVE  c \in stored'
    BY <1>3 DEF GitHub!NothingBehindCursor, OffMain
  <2>1. c \in GitHub!Pushed /\ Timely(c) /\ commits[c].pushed < r.listed
    BY <1>2, <1>3 DEF GitHub!Due, Timely
  <2>2. CASE OffMain(c)
    <3>1. ~crowded /\ ~r.cut
      BY <1>2, <2>2
    <3>. QED
      BY <1>1, <1>2, <2>1, <2>2, <3>1 DEF Facts, Whole
  <2>3. CASE ~OffMain(c)
    BY <1>1, <1>2, <2>1, <2>3 DEF Facts, Whole
  <2>. QED
    BY <2>2, <2>3
<1>6. InLine'
  <2> SUFFICES ASSUME NEW c \in GitHub!Pushed, NEW d \in GitHub!Pushed, Behind(c, d), d \in stored'
               PROVE  c \in stored' \/ crowded'
    <3>1. \A c, d : Behind(c, d)' <=> Behind(c, d)
      BY <1>2, <1>3 DEF Behind
    <3>. QED
      BY <1>3, <3>1 DEF InLine
  <2>1. CASE d \in stored
    BY <1>2, <2>1 DEF SyncIInv, InLine
  <2>2. CASE d \in r.got
    BY <1>1, <1>2, <2>2 DEF Facts, LineOf
  <2>. QED
    BY <1>2, <2>1, <2>2
<1>. QED
  BY <1>4, <1>5, <1>6

LEMMA SyncIInvNext ==
  ASSUME GitHub!Settings, SyncIInv, [GitHub!Next]_GitHub!vars
  PROVE  SyncIInv'
<1>0. SyncTypes /\ SyncTypes' /\ PushesPast /\ now \in Nat
  BY SyncTypesNext DEF SyncIInv, Clocked, SyncTypes
<1>1. CASE UNCHANGED GitHub!vars
  BY <1>1 DEF GitHub!vars, SyncIInv, SyncTypes, Clocked, PushesPast, GitHub!NothingBehindCursor,
     GitHub!Due, InLine, Behind, Timely, OffMain,
              Facts, Timed, Foreseen, Relied, LineOf, Gathered, Whole, GitHub!Pushed
<1>2. CASE GitHub!Push
  <2> DEFINE n == Len(commits) + 1
  <2>1. UNCHANGED <<now, cursor, listed, stored, crowded, pass>>
    BY <1>2 DEF GitHub!Push, GitHub!rows
  <2>2. GitHub!Pushed' = GitHub!Pushed \cup {n} /\ commits'[n].pushed = now /\ \A c \in GitHub!Pushed :
            commits'[c] = commits[c] /\ c < n
    BY <1>0, <1>2, PushAdds, PushedIs
  <2>3. n \notin stored /\ stored \subseteq GitHub!Pushed /\ n \in Nat /\ GitHub!Pushed \subseteq Nat
    BY <1>0, PushedIs DEF SyncTypes
  <2> HIDE DEF n
  <2>4. Clocked'
    BY <1>0, <2>1, <2>2 DEF SyncIInv, Clocked, PushesPast
  <2>5. GitHub!NothingBehindCursor'
    <3> SUFFICES ASSUME NEW c \in GitHub!Pushed', GitHub!Due(c)',
                        (commits[c].branch)' = Main \/ ~crowded'
                 PROVE  c \in stored'
      BY DEF GitHub!NothingBehindCursor
    <3>1. c # n
      <4>1. now < listed => FALSE
        <5>1. listed <= now
          BY DEF SyncIInv, Clocked
        <5>. QED
          BY <1>0, <5>1 DEF SyncTypes
      <4>. QED
        BY <2>1, <2>2, <4>1 DEF GitHub!Due
    <3>2. c \in GitHub!Pushed /\ GitHub!Due(c) /\ (commits[c].branch = Main \/ ~crowded)
      BY <2>1, <2>2, <3>1 DEF GitHub!Due
    <3>. QED
      BY <2>1, <3>2 DEF SyncIInv, GitHub!NothingBehindCursor
  <2>6. InLine'
    <3> SUFFICES ASSUME NEW c \in GitHub!Pushed', NEW d \in GitHub!Pushed', Behind(c, d)', d \in stored'
                 PROVE  c \in stored' \/ crowded'
      BY DEF InLine
    <3>1. d \in GitHub!Pushed /\ c <= d
      BY <2>1, <2>3 DEF Behind
    <3>2. c \in GitHub!Pushed
      <4>1. d < n
        BY <2>2, <3>1
      <4>2. c = n => FALSE
        <5>1. d \in Nat
          BY <2>3, <3>1
        <5>. QED
          BY <2>3, <3>1, <4>1, <5>1
      <4>3. c \in GitHub!Pushed \cup {n}
        BY <2>2
      <4>. QED
        BY <4>2, <4>3
    <3>3. Behind(c, d)
      BY <2>2, <3>1, <3>2 DEF Behind, Timely, OffMain
    <3>. QED
      BY <2>1, <3>1, <3>2, <3>3 DEF SyncIInv, InLine
  <2>7. ASSUME NEW q \in Pass
        PROVE  Facts(pass[q])'
    <3>1. PICK r \in InPass : r = pass[q] /\ Facts(r) /\ r.got \subseteq GitHub!Pushed
      BY <1>0 DEF SyncIInv, SyncTypes
    <3>2. Facts(r)'
      BY <1>0, <1>2, <3>1, FactsPush DEF SyncIInv
    <3>. QED
      BY <2>1, <3>1, <3>2
  <2>. QED
    BY <1>0, <2>4, <2>5, <2>6, <2>7 DEF SyncIInv
<1>3. ASSUME UNCHANGED <<commits, cursor, listed, stored, crowded>>, now' >= now
      PROVE  Clocked' /\ GitHub!NothingBehindCursor' /\ InLine'
  <2>1. GitHub!Pushed' = GitHub!Pushed
    BY <1>3 DEF GitHub!Pushed
  <2>2. GitHub!NothingBehindCursor' /\ InLine'
    BY <1>3, <2>1 DEF SyncIInv, GitHub!NothingBehindCursor, GitHub!Due, InLine, Behind, Timely, OffMain
  <2>3. PushesPast'
    <3>1. \A c \in GitHub!Pushed : commits[c].pushed \in Nat /\ commits[c].pushed <= now
      BY <1>0, CommitIs DEF PushesPast
    <3>. QED
      BY <1>0, <1>3, <2>1, <3>1 DEF PushesPast, SyncTypes
  <2>4. listed \in Nat /\ listed <= now
        /\ (cursor # None => cursor \in Nat /\ cursor <= now /\ cursor <= listed + Delay)
    BY <1>0 DEF SyncIInv, Clocked, SyncTypes, Maybe
  <2>. QED
    BY <1>0, <1>3, <2>2, <2>3, <2>4 DEF Clocked, SyncTypes
<1>4. CASE GitHub!Tick
  <2>1. UNCHANGED <<commits, cursor, listed, stored, crowded>> /\ now' >= now
    BY <1>0, <1>4 DEF GitHub!Tick, GitHub!github, GitHub!rows
  <2>2. \A q \in Pass : Facts(pass[q])'
    BY <1>0, <1>4, FactsTick DEF SyncIInv
  <2>. QED
    BY <1>0, <1>3, <2>1, <2>2 DEF SyncIInv
<1>5. CASE Around /\ ~GitHub!Tick
  <2>1. UNCHANGED <<now, commits, cursor, listed, stored, crowded, pass>>
    BY <1>5 DEF Around, GitHub!Touch, GitHub!Connect, GitHub!Disconnect, GitHub!Leave, GitHub!github,
       GitHub!rows
  <2>2. ASSUME NEW q \in Pass
        PROVE  Facts(pass[q])'
    <3>1. PICK r \in InPass : r = pass[q] /\ Facts(r)
      BY <1>0 DEF SyncIInv, SyncTypes
    <3>2. Facts(r)'
      BY <1>0, <2>1, <3>1, FactsStay
    <3>. QED
      BY <2>1, <3>1, <3>2
  <2>3. now' >= now
    BY <1>0, <2>1
  <2>. QED
    BY <1>0, <1>3, <2>1, <2>2, <2>3 DEF SyncIInv
<1>6. ASSUME NEW p \in Pass, NEW s \in InPass, Facts(s), s.got \subseteq GitHub!Pushed,
             GitHub!Step(p, s),
             commits' = commits, now' = now, stored \subseteq stored', crowded
               => crowded', NEW q \in Pass
      PROVE  Facts(pass[q])'
  <2>1. PICK r \in InPass : r = IF q = p THEN s ELSE pass[q]
    BY <1>0 DEF SyncTypes
  <2>2. pass'[q] = r
    BY <1>0, <1>6, <2>1, PassTypes
  <2>3. Facts(r)
    BY <1>6, <2>1 DEF SyncIInv
  <2>4. Facts(r)'
    BY <1>0, <1>6, <2>3, FactsStay
  <2>. QED
    BY <2>2, <2>4
<1>7. ASSUME NEW p \in Pass, Walks(p)
      PROVE  SyncIInv'
  <2>1. GoesOn(p) /\ UNCHANGED <<now, commits, cursor, stored, listed, crowded>>
    BY <1>7, WalksGoOn
  <2>2. PICK s \in InPass : s.got \subseteq GitHub!Pushed /\ GitHub!Step(p, s) /\ Facts(s)
    BY <2>1, GoesOnFacts
  <2>3. \A q \in Pass : Facts(pass[q])'
    BY <1>6, <2>1, <2>2
  <2>4. now' >= now
    BY <1>0, <2>1
  <2>. QED
    BY <1>0, <1>3, <2>1, <2>3, <2>4 DEF SyncIInv
<1>8. ASSUME NEW p \in Pass, GitHub!Save(p)
      PROVE  SyncIInv'
  <2>1. commits' = commits /\ now' = now /\ stored \subseteq stored' /\ (crowded => crowded')
          /\ GitHub!Step(p, GitHub!Asleep)
    BY <1>8 DEF GitHub!Save, GitHub!github
  <2>2. GitHub!Asleep \in InPass /\ Facts(GitHub!Asleep) /\ GitHub!Asleep.got \subseteq GitHub!Pushed
    BY <1>0, AsleepIs, AsleepFacts
  <2>3. \A q \in Pass : Facts(pass[q])'
    BY <1>6, <2>1, <2>2
  <2>. QED
    BY <1>0, <1>8, <2>3, SaveKeeps DEF SyncIInv
<1>. QED
  BY <1>1, <1>2, <1>4, <1>5, <1>7, <1>8, SyncNextIs

-----------------------------------------------------------------------------
(* Issues and pull requests, with passes one at a time.                    *)

Solo == ~overlapped => \A p, q \in Pass : pass[p] # GitHub!Asleep /\ pass[q] # GitHub!Asleep => p = q

(* The cursor is the one the pass has read, and what it did not bring was  *)
(* as it is at the time of that cursor.                                    *)
Abreast(r) ==
  ~overlapped =>
    /\ r.pc \in {"commits", "branches", "items", "save"} => r.cursor = cursor
    /\ r.pc = "save" =>
         \A i \in Item : touched[i] # None /\ touched[i] < r.started =>
           IF r.items[i] # None THEN r.items[i] = touched[i] ELSE copied[i] = touched[i]

ItemsFollowed == Solo /\ GitHub!ItemsAreCurrent /\ \A p \in Pass : Abreast(pass[p])

LEMMA GoesOnAbreast ==
  ASSUME GitHub!Settings, SyncIInv, ItemsFollowed, NEW p \in Pass, GoesOn(p)
  PROVE  \E r \in InPass : r.got \subseteq GitHub!Pushed /\ GitHub!Step(p, r) /\ Abreast(r)
<1>1. PICK r \in InPass : r.got \subseteq GitHub!Pushed /\ GitHub!Step(p, r)
  BY GoesOnTypes DEF SyncIInv, Clocked
<1>2. pass'[p] = r
  BY <1>1, PassTypes DEF SyncIInv
<1>3. ASSUME NEW s, GitHub!Step(p, s)
      PROVE  r = s
  <2>1. pass'[p] = s
    BY <1>3 DEF GitHub!Step, SyncIInv, SyncTypes
  <2>. QED
    BY <1>2, <2>1
<1>4. PICK t \in InPass : t = pass[p] /\ Abreast(t)
  BY DEF SyncIInv, SyncTypes, ItemsFollowed
<1>5. ASSUME r.pc \in {"asleep", "read", "list", "stamp"}
      PROVE  Abreast(r)
  BY <1>5 DEF Abreast
<1>6. CASE GitHub!Step(p, Begins(p)) \/ GitHub!Step(p, GitHub!Asleep)
  BY <1>1, <1>3, <1>5, <1>6, AsleepIs DEF Begins, InPass
<1>7. CASE pass[p].pc = "read" /\ GitHub!Step(p, Reads(p))
  BY <1>1, <1>3, <1>4, <1>5, <1>7, AsleepIs DEF Reads, InPass
<1>8. CASE pass[p].pc = "list" /\ GitHub!Step(p, Lists(p))
  BY <1>1, <1>3, <1>4, <1>5, <1>8 DEF Lists, InPass
<1>9. CASE pass[p].pc = "stamp" /\ GitHub!Step(p, Stamps(p))
  <2>1. r = [t EXCEPT !.pc = "commits", !.started = now, !.cursor = cursor]
    BY <1>3, <1>4, <1>9 DEF Stamps
  <2>2. r.pc = "commits" /\ r.cursor = cursor
    BY <2>1 DEF InPass
  <2>. QED
    BY <1>1, <2>2 DEF Abreast
<1>10. ASSUME r.pc \in {"branches", "items"}, r.cursor = t.cursor, t.pc \in {"commits", "branches"}
       PROVE  Abreast(r)
  BY <1>4, <1>10 DEF Abreast
<1>11. CASE pass[p].pc = "commits" /\ GitHub!Step(p, Skips(p))
  <2>1. r.pc = "items" /\ r.cursor = t.cursor
    BY <1>3, <1>4, <1>11 DEF Skips, InPass
  <2>. QED
    BY <1>1, <1>4, <1>10, <1>11, <2>1
<1>12. CASE pass[p].pc = "commits" /\ GitHub!Step(p, Fetches(p))
  <2>1. r.pc = "branches" /\ r.cursor = t.cursor
    BY <1>3, <1>4, <1>12 DEF Fetches, GitHub!Got, InPass
  <2>. QED
    BY <1>1, <1>4, <1>10, <1>12, <2>1
<1>13. ASSUME pass[p].pc = "branches", NEW B \in SUBSET GitHub!News(p), GitHub!Step(p, Branching(p, B))
       PROVE  Abreast(r)
  <2>1. r.pc = "items" /\ r.cursor = t.cursor
    BY <1>3, <1>4, <1>13 DEF Branching, GitHub!Got, InPass
  <2>. QED
    BY <1>4, <1>10, <1>13, <2>1
<1>14. CASE pass[p].pc = "items" /\ GitHub!Step(p, Looks(p))
  <2> DEFINE f == [i \in Item |-> IF Sees(p, i) THEN touched[i] ELSE None]
  <2>1. r = [t EXCEPT !.pc = "save", !.items = f]
    BY <1>3, <1>4, <1>14, Zenon DEF Looks
  <2>2. \A i \in Item : f[i] = IF Sees(p, i) THEN touched[i] ELSE None
    OBVIOUS
  <2> HIDE DEF f
  <2>3. r.pc = "save" /\ r.cursor = t.cursor /\ r.items = f /\ r.started = t.started
    BY <1>4, <2>1 DEF InPass
  <2>4. ASSUME ~overlapped, NEW i \in Item, touched[i] # None, touched[i] < r.started
        PROVE  IF r.items[i] # None THEN r.items[i] = touched[i] ELSE copied[i] = touched[i]
    <3>1. t.cursor = cursor
      BY <1>4, <1>14, <2>4 DEF Abreast
    <3>2. CASE Sees(p, i)
      BY <2>2, <2>3, <2>4, <3>2
    <3>3. CASE ~Sees(p, i)
      <4>1. cursor # None /\ ~(touched[i] >= cursor)
        BY <1>4, <2>4, <3>1, <3>3 DEF Sees
      <4>2. cursor \in Nat /\ touched[i] \in Nat
        BY <2>4, <4>1 DEF SyncIInv, SyncTypes, Maybe
      <4>3. copied[i] = touched[i]
        BY <2>4, <4>1, <4>2 DEF ItemsFollowed, GitHub!ItemsAreCurrent
      <4>. QED
        BY <2>2, <2>3, <3>3, <4>3
    <3>. QED
      BY <3>2, <3>3
  <2>5. ~overlapped => r.cursor = cursor
    BY <1>4, <1>14, <2>3 DEF Abreast
  <2>. QED
    BY <1>1, <2>3, <2>4, <2>5 DEF Abreast
<1>. QED
  BY <1>1, <1>6, <1>7, <1>8, <1>9, <1>11, <1>12, <1>13, <1>14 DEF GoesOn

LEMMA ItemsNext ==
  ASSUME GitHub!Settings, SyncIInv, ItemsFollowed, [GitHub!Next]_GitHub!vars
  PROVE  ItemsFollowed'
<1>0. SyncTypes /\ now \in Nat
  BY DEF SyncIInv, SyncTypes
<1>1. ASSUME UNCHANGED <<cursor, copied, pass, overlapped, touched>>
      PROVE  ItemsFollowed'
  BY <1>1 DEF ItemsFollowed, Solo, GitHub!ItemsAreCurrent, Abreast
<1>2. CASE UNCHANGED GitHub!vars \/ GitHub!Push \/ GitHub!Tick \/ \E u \in Staff :
               GitHub!Disconnect(u) \/ GitHub!Leave(u) \/ \E l \in Login : GitHub!Connect(u, l)
  BY <1>1, <1>2 DEF GitHub!vars, GitHub!Push, GitHub!Tick, GitHub!Connect, GitHub!Disconnect,
     GitHub!Leave, GitHub!github, GitHub!rows
<1>3. ASSUME NEW i \in Item, GitHub!Touch(i)
      PROVE  ItemsFollowed'
  <2>1. UNCHANGED <<cursor, copied, pass, overlapped>>
    BY <1>3 DEF GitHub!Touch, GitHub!rows
  <2>2. touched'[i] = now /\ \A j \in Item : j # i => touched'[j] = touched[j]
    BY <1>0, <1>3 DEF GitHub!Touch, SyncTypes
  <2>3. GitHub!ItemsAreCurrent'
    <3>1. cursor # None => cursor \in Nat /\ cursor <= now
      BY DEF SyncIInv, Clocked, SyncTypes, Maybe
    <3>2. cursor # None => ~(now < cursor)
      BY <1>0, <3>1
    <3>. QED
      BY <2>1, <2>2, <3>2 DEF ItemsFollowed, GitHub!ItemsAreCurrent
  <2>4. ASSUME NEW q \in Pass
        PROVE  Abreast(pass[q])'
    <3>1. PICK r \in InPass : r = pass[q] /\ Abreast(r) /\ Facts(r)
      BY <1>0 DEF SyncIInv, SyncTypes, ItemsFollowed
    <3>2. ~(now < r.started)
      BY <1>0, <3>1 DEF Facts, Timed, InPass
    <3>3. Abreast(r)'
      BY <2>1, <2>2, <3>1, <3>2 DEF Abreast
    <3>. QED
      BY <2>1, <3>1, <3>3
  <2>5. Solo'
    BY <2>1 DEF ItemsFollowed, Solo
  <2>. QED
    BY <2>3, <2>4, <2>5 DEF ItemsFollowed
<1>4. ASSUME NEW p \in Pass, Walks(p)
      PROVE  ItemsFollowed'
  <2>1. GoesOn(p) /\ UNCHANGED <<cursor, copied, touched>>
    BY <1>4, WalksGoOn
  <2>2. PICK s \in InPass : s.got \subseteq GitHub!Pushed /\ GitHub!Step(p, s) /\ Abreast(s)
    BY <2>1, GoesOnAbreast
  <2>3. pass'[p] = s /\ \A q \in Pass : q # p => pass'[q] = pass[q]
    BY <1>0, <2>2, PassTypes
  <2>4. overlapped => overlapped'
    BY <1>4, Zenon DEF Walks, GitHub!Begin, GitHub!Read, GitHub!List, GitHub!Stamp, GitHub!SkipCommits,
       GitHub!FetchCommits, GitHub!FetchBranches, GitHub!FetchItems, GitHub!Fail
  <2>5. Solo'
    <3>1. CASE GitHub!Begin(p)
      BY <2>3, <3>1 DEF GitHub!Begin, ItemsFollowed, Solo
    <3>2. CASE pass[p] # GitHub!Asleep
      BY <2>3, <2>4, <3>2 DEF ItemsFollowed, Solo
    <3>3. ~GitHub!Begin(p) => pass[p].pc # "asleep"
      BY <1>4, Zenon DEF Walks, GitHub!Read, GitHub!List, GitHub!Stamp, GitHub!SkipCommits,
         GitHub!FetchCommits, GitHub!FetchBranches, GitHub!FetchItems, GitHub!Fail
    <3>. QED
      BY <3>1, <3>2, <3>3, AsleepIs
  <2>6. ASSUME NEW q \in Pass
        PROVE  Abreast(pass[q])'
    <3>1. PICK r \in InPass : r = (IF q = p THEN s ELSE pass[q]) /\ Abreast(r)
      BY <1>0, <2>2 DEF SyncTypes, ItemsFollowed
    <3>2. Abreast(r)'
      BY <2>1, <2>4, <3>1 DEF Abreast
    <3>. QED
      BY <2>3, <3>1, <3>2
  <2>7. GitHub!ItemsAreCurrent'
    BY <2>1, <2>4 DEF ItemsFollowed, GitHub!ItemsAreCurrent
  <2>. QED
    BY <2>5, <2>6, <2>7 DEF ItemsFollowed
<1>5. ASSUME NEW p \in Pass, GitHub!Save(p)
      PROVE  ItemsFollowed'
  <2>1. PICK r \in InPass : r = pass[p] /\ Abreast(r) /\ r.pc = "save"
    BY <1>0, <1>5 DEF SyncTypes, ItemsFollowed, GitHub!Save
  <2>2. cursor' = r.started /\ touched' = touched /\ overlapped' = overlapped
    BY <1>5, <2>1 DEF GitHub!Save, GitHub!NextCursor, GitHub!github
  <2>3. \A i \in Item : copied'[i] = IF r.items[i] # None THEN r.items[i] ELSE copied[i]
    BY <1>5, <2>1 DEF GitHub!Save
  <2>4. pass'[p] = GitHub!Asleep /\ \A q \in Pass : q # p => pass'[q] = pass[q]
    BY <1>0, <1>5, PassTypes, AsleepIs DEF GitHub!Save
  <2>5. GitHub!ItemsAreCurrent'
    BY <2>1, <2>2, <2>3 DEF Abreast, GitHub!ItemsAreCurrent
  <2>6. Solo'
    BY <2>2, <2>4 DEF ItemsFollowed, Solo
  <2>7. pass[p] # GitHub!Asleep
    BY <2>1, AsleepIs
  <2>8. ~overlapped' => \A q \in Pass : pass'[q] = GitHub!Asleep
    BY <2>2, <2>4, <2>7 DEF ItemsFollowed, Solo
  <2>9. ASSUME NEW q \in Pass
        PROVE  Abreast(pass[q])'
    <3>1. CASE overlapped'
      BY <3>1 DEF Abreast
    <3>2. CASE ~overlapped'
      BY <2>8, <3>2, AsleepIs DEF Abreast
    <3>. QED
      BY <3>1, <3>2
  <2>. QED
    BY <2>5, <2>6, <2>9 DEF ItemsFollowed
<1>. QED
  BY <1>2, <1>3, <1>4, <1>5, SyncNextIs DEF Around

-----------------------------------------------------------------------------
(* Credit goes to people who have had the author's account connected: an   *)
(* owner is recorded, the login map of a pass is one that was read, and a  *)
(* row is only written from that map.                                      *)
Had(map) == \A l \in Login : map[l] # None => map[l] \in owners[l]

Owned ==
  /\ Had(account) /\ \A p \in Pass : Had(pass[p].map)
  /\ \A c \in GitHub!Commit :
       credit[c] # None => c \in GitHub!Pushed /\ credit[c] \in owners[commits[c].author]

(* What CreditStays says of a step. *)
StaysOwned ==
  \A c \in GitHub!Pushed :
    credit[c] # None => credit'[c] # None /\ {credit[c], credit'[c]} \subseteq owners[commits[c].author]

LEMMA NobodyHad == Had(GitHub!Nobody)
BY DEF Had, GitHub!Nobody

(* The login map of a pass: none, the one of today, or the one it has.     *)
LEMMA MapsAreRead ==
  ASSUME GitHub!Settings, SyncTypes, PushesPast, NEW p \in Pass, GoesOn(p)
  PROVE  /\ pass'[p].map \in {GitHub!Nobody, account, pass[p].map}
         /\ \A q \in Pass : q # p => pass'[q] = pass[q]
<1>1. PICK r \in InPass : r.got \subseteq GitHub!Pushed /\ GitHub!Step(p, r)
  BY GoesOnTypes
<1>2. pass'[p] = r /\ \A q \in Pass : q # p => pass'[q] = pass[q]
  BY <1>1, PassTypes
<1>3. ASSUME NEW s, GitHub!Step(p, s) PROVE r = s
  <2>1. pass'[p] = s
    BY <1>3 DEF GitHub!Step, SyncTypes
  <2>. QED
    BY <1>2, <2>1
<1>4. PICK t \in InPass : t = pass[p]
  BY DEF SyncTypes
<1>5. GitHub!Asleep.map = GitHub!Nobody /\ GitHub!Asleep \in InPass
  BY AsleepIs DEF GitHub!Asleep
<1>7. ASSUME GitHub!Step(p, Begins(p)) \/ GitHub!Step(p, GitHub!Asleep)
      PROVE  r.map = GitHub!Nobody
  BY <1>3, <1>5, <1>7 DEF Begins, InPass
<1>8. ASSUME GitHub!Step(p, Reads(p))
      PROVE  r.map \in {GitHub!Nobody, account}
  BY <1>3, <1>4, <1>5, <1>8 DEF Reads, InPass
<1>9. ASSUME GitHub!Step(p, Lists(p)) \/ GitHub!Step(p, Stamps(p)) \/ GitHub!Step(p, Skips(p))
      PROVE  r.map = t.map
  BY <1>3, <1>4, <1>9 DEF Lists, Stamps, Skips, InPass
<1>10. ASSUME GitHub!Step(p, Fetches(p))
       PROVE  r.map = t.map
  <2>1. PICK f \in [GitHub!Commit -> Staff \cup {None}] : GitHub!Got(p, Takes(p)) =
          [t EXCEPT !.got = @ \cup Takes(p), !.fresh = @ \cup (Takes(p) \ stored), !.was = f]
    BY <1>4, GotIs, Zenon
  <2>. QED
    BY <1>3, <1>10, <2>1 DEF Fetches, InPass
<1>11. ASSUME NEW B, GitHub!Step(p, Branching(p, B))
       PROVE  r.map = t.map
  <2>1. PICK f \in [GitHub!Commit -> Staff \cup {None}] : GitHub!Got(p, TakesOf(p, B)) =
          [t EXCEPT !.got = @ \cup TakesOf(p, B), !.fresh = @ \cup (TakesOf(p, B) \ stored), !.was = f]
    BY <1>4, GotIs, Zenon
  <2>. QED
    BY <1>3, <1>11, <2>1 DEF Branching, InPass
<1>12. ASSUME GitHub!Step(p, Looks(p))
       PROVE  r.map = t.map
  <2>1. PICK f : Looks(p) = [t EXCEPT !.pc = "save", !.items = f]
    BY <1>4, Zenon DEF Looks
  <2>. QED
    BY <1>3, <1>4, <1>12, <2>1 DEF InPass
<1>13. r.map \in {GitHub!Nobody, account, t.map}
  BY <1>4, <1>7, <1>8, <1>9, <1>10, <1>11, <1>12 DEF GoesOn
<1>. QED
  BY <1>2, <1>4, <1>13

LEMMA SaveCredits ==
  ASSUME GitHub!Settings, SyncIInv, Owned, NEW p \in Pass, GitHub!Save(p)
  PROVE  StaysOwned /\ Owned'
<1>1. /\ credit' = [c \in GitHub!Commit |-> GitHub!Credited(p, c)]
      /\ UNCHANGED <<commits, account, owners>> /\ GitHub!Step(p, GitHub!Asleep)
  BY DEF GitHub!Save, GitHub!github, GitHub!links
<1>2. GitHub!Pushed' = GitHub!Pushed
  BY <1>1 DEF GitHub!Pushed
<1>3. SyncTypes /\ pass[p].got \subseteq GitHub!Pushed
  BY DEF SyncIInv, SyncTypes
<1>4. ASSUME NEW c \in GitHub!Commit
      PROVE  \/ credit'[c] = credit[c]
             \/ /\ c \in GitHub!Pushed /\ credit'[c] # None
                /\ credit'[c] \in owners[commits[c].author]
  <2>1. credit'[c] = GitHub!Credited(p, c)
    BY <1>1
  <2>2. CASE c \in pass[p].got /\ pass[p].map[commits[c].author] # None
    <3>1. commits[c].author \in Login
      BY <1>3, <2>2, CommitIs
    <3>2. pass[p].map[commits[c].author] \in owners[commits[c].author]
      BY <2>2, <3>1 DEF Owned, Had
    <3>. QED
      BY <1>3, <2>1, <2>2, <3>2 DEF GitHub!Credited, GitHub!Attribute
  <2>3. CASE ~(c \in pass[p].got /\ pass[p].map[commits[c].author] # None)
    BY <2>1, <2>3 DEF GitHub!Credited, GitHub!Attribute
  <2>. QED
    BY <2>2, <2>3
<1>5. GitHub!Pushed \subseteq GitHub!Commit
  BY <1>3, PushedIs DEF SyncTypes, GitHub!Commit, GitHub!Settings
<1>6. StaysOwned
  BY <1>4, <1>5 DEF StaysOwned, Owned
<1>7. \A q \in Pass : Had(pass'[q].map)
  <2>1. pass'[p] = GitHub!Asleep /\ \A q \in Pass : q # p => pass'[q] = pass[q]
    BY <1>1, <1>3, PassTypes, AsleepIs
  <2>2. GitHub!Asleep.map = GitHub!Nobody
    BY DEF GitHub!Asleep
  <2>. QED
    BY <2>1, <2>2, NobodyHad DEF Owned
<1>8. Owned'
  BY <1>1, <1>2, <1>4, <1>7 DEF Owned, Had
<1>. QED
  BY <1>6, <1>8

LEMMA CreditsNext ==
  ASSUME GitHub!Settings, SyncIInv, Owned, [GitHub!Next]_GitHub!vars
  PROVE  StaysOwned /\ Owned'
<1>0. SyncTypes /\ PushesPast /\ GitHub!Pushed \subseteq GitHub!Commit
  BY PushedIs DEF SyncIInv, SyncTypes, Clocked, GitHub!Commit, GitHub!Settings
<1>1. CASE \E p \in Pass : GitHub!Save(p)
  BY <1>1, SaveCredits
<1>2. CASE ~\E p \in Pass : GitHub!Save(p)
  <2>1. credit' = credit
    <3>1. ASSUME NEW p \in Pass, Walks(p) PROVE credit' = credit
      BY <3>1, WalksGoOn
    <3>. QED
      BY <1>2, <3>1, SyncNextIs DEF GitHub!vars, GitHub!Push, Around, GitHub!Tick, GitHub!Touch,
         GitHub!Connect, GitHub!Disconnect, GitHub!Leave, GitHub!rows
  <2>2. \A c \in GitHub!Pushed : c \in GitHub!Pushed' /\ commits'[c] = commits[c]
    <3>1. CASE GitHub!Push
      BY <3>1, PushAdds DEF SyncIInv
    <3>2. CASE ~GitHub!Push
      <4>1. ASSUME NEW p \in Pass, Walks(p) PROVE commits' = commits
        BY <4>1, WalksGoOn
      <4>2. commits' = commits
        BY <1>2, <3>2, <4>1, SyncNextIs DEF GitHub!vars, Around, GitHub!Tick, GitHub!Touch,
           GitHub!Connect, GitHub!Disconnect, GitHub!Leave, GitHub!github
      <4>. QED
        BY <4>2 DEF GitHub!Pushed
    <3>. QED
      BY <3>1, <3>2
  <2>3. StaysOwned
    BY <1>0, <2>1 DEF StaysOwned, Owned
  <2>4. /\ \A l \in Login : owners[l] \subseteq owners'[l]
        /\ Had(account)' /\ \A q \in Pass : Had(pass[q].map)'
    <3>1. CASE UNCHANGED GitHub!vars \/ GitHub!Push \/ GitHub!Tick
               \/ (\E i \in Item : GitHub!Touch(i)) \/ \E u \in Staff : GitHub!Leave(u)
      <4>1. UNCHANGED <<account, owners, pass>>
        BY <3>1 DEF GitHub!vars, GitHub!Push, GitHub!Tick, GitHub!Touch, GitHub!Leave, GitHub!links
      <4>. QED
        BY <4>1 DEF Owned, Had
    <3>2. ASSUME NEW u \in Staff, NEW l \in Login, GitHub!Connect(u, l)
          PROVE  <2>4!:
      <4>1. /\ account' = GitHub!Relink(u, l) /\ pass' = pass
            /\ owners' = [owners EXCEPT ![l] = @ \cup {u}]
        BY <3>2 DEF GitHub!Connect
      <4>2. owners \in [Login -> SUBSET Staff]
        BY <1>0 DEF SyncTypes
      <4>3. /\ u \in owners'[l] /\ \A m \in Login : owners[m] \subseteq owners'[m]
        BY <4>1, <4>2
      <4>4. \A m \in Login : account'[m] # None => account'[m] \in owners'[m]
        BY <4>1, <4>3 DEF Owned, Had, GitHub!Relink
      <4>. QED
        BY <4>1, <4>3, <4>4 DEF Owned, Had
    <3>3. ASSUME NEW u \in Staff, GitHub!Disconnect(u)
          PROVE  <2>4!:
      <4>1. account' = GitHub!Relink(u, None) /\ UNCHANGED <<owners, pass>>
        BY <3>3 DEF GitHub!Disconnect
      <4>2. \A l \in Login : account'[l] \in {None, account[l]}
        BY <4>1 DEF GitHub!Relink, GitHub!Settings
      <4>. QED
        BY <4>1, <4>2 DEF Owned, Had
    <3>4. ASSUME NEW p \in Pass, Walks(p)
          PROVE  <2>4!:
      <4>1. owners' = owners /\ Had(account')
        <5>1. CASE GitHub!Begin(p)
          BY <5>1 DEF GitHub!Begin, Owned, Had
        <5>2. CASE ~GitHub!Begin(p)
          <6>1. account' = account /\ owners' = owners
            BY <3>4, <5>2, Zenon DEF Walks, GitHub!Read, GitHub!List, GitHub!Stamp, GitHub!SkipCommits,
               GitHub!FetchCommits, GitHub!FetchBranches, GitHub!FetchItems, GitHub!Fail, GitHub!links
          <6>. QED
            BY <6>1 DEF Owned
        <5>. QED
          BY <5>1, <5>2
      <4>2. \A q \in Pass : Had(pass'[q].map)
        <5>1. GoesOn(p)
          BY <3>4, WalksGoOn
        <5>2. /\ pass'[p].map \in {GitHub!Nobody, account, pass[p].map}
              /\ \A q \in Pass : q # p => pass'[q] = pass[q]
          BY <1>0, <5>1, MapsAreRead
        <5>. QED
          BY <5>2, NobodyHad DEF Owned
      <4>. QED
        BY <4>1, <4>2 DEF Had
    <3>. QED
      BY <1>2, <3>1, <3>2, <3>3, <3>4, SyncNextIs DEF Around
  <2>5. \A c \in GitHub!Pushed : commits[c].author \in Login
    BY <1>0, CommitIs
  <2>. QED
    BY <2>1, <2>2, <2>3, <2>4, <2>5 DEF Owned
<1>. QED
  BY <1>1, <1>2

-----------------------------------------------------------------------------
LEMMA SyncSteps ==
  ASSUME [MCNext]_<<part, github, people, vars, credentials, spending>>
  PROVE  [GitHub!Next]_GitHub!vars
BY DEF MCNext, People, Items, Branches, Passes, github, GitHub!vars

LEMMA SyncBegins == MCInit => SyncIInv /\ ItemsFollowed /\ Owned
<1> SUFFICES ASSUME MCInit PROVE SyncIInv /\ ItemsFollowed /\ Owned
  OBVIOUS
<1>1. GitHub!Settings /\ GitHub!Init
  BY PulseAssumption DEF MCInit
<1>2. \A p \in Pass : pass[p] = GitHub!Asleep
  BY <1>1 DEF GitHub!Init
<1>3. ItemsFollowed
  BY <1>1, <1>2, AsleepIs DEF GitHub!Init, ItemsFollowed, Solo, GitHub!ItemsAreCurrent, Abreast
<1>4. Owned
  <2>1. GitHub!Asleep.map = GitHub!Nobody
    BY DEF GitHub!Asleep
  <2>. QED
    BY <1>1, <1>2, <2>1, NobodyHad DEF GitHub!Init, Owned, Had
<1>. QED
  BY <1>1, <1>3, <1>4, SyncInitIInv

(* With passes one at a time, no pull request or issue touched before the  *)
(* last pass began is out of date (sync.py: since = last_synced_at).       *)
THEOREM ItemsFollow == MCSpec => []GitHub!ItemsAreCurrent
<1>1. MCInit => SyncIInv /\ ItemsFollowed
  BY SyncBegins
<1>2. SyncIInv /\ ItemsFollowed /\ [MCNext]_<<part, github, people, vars, credentials, spending>>
      => (SyncIInv /\ ItemsFollowed)'
  BY PulseAssumption, SyncSteps, SyncIInvNext, ItemsNext
<1>3. ItemsFollowed => GitHub!ItemsAreCurrent
  BY DEF ItemsFollowed
<1>. QED
  BY <1>1, <1>2, <1>3, PTL DEF MCSpec

(* Behind the cursor nothing that is due is missing, whichever pushes land *)
(* in the middle of passes, whichever passes fail and however many overlap *)
(* (sync.py: _commit_window, _pushed_since, _sync_branches and the stamp); *)
(* and items are as in ItemsFollow.                                        *)
THEOREM NothingMissed == MCSpec => []NothingBehindCursor
<1>1. MCInit => SyncIInv
  BY SyncBegins
<1>2. SyncIInv /\ [MCNext]_<<part, github, people, vars, credentials, spending>>
      => SyncIInv'
  BY PulseAssumption, SyncSteps, SyncIInvNext
<1>3. SyncIInv => GitHub!NothingBehindCursor
  BY DEF SyncIInv
<1>4. MCSpec => []GitHub!NothingBehindCursor
  BY <1>1, <1>2, <1>3, PTL DEF MCSpec
<1>. QED
  BY <1>4, ItemsFollow, PTL DEF NothingBehindCursor

(* No step leaves a commit that is credited without credit, and whoever    *)
(* has it, before and after, has had its author's GitHub account connected:*)
(* it moves only to a later owner of that account (sync.py: _attribute).   *)
THEOREM CreditIsKept == MCSpec => CreditStays
<1>1. MCInit => SyncIInv /\ Owned
  BY SyncBegins
<1>2. SyncIInv /\ Owned /\ [MCNext]_<<part, github, people, vars, credentials, spending>>
      => (SyncIInv /\ Owned)'
  BY PulseAssumption, SyncSteps, SyncIInvNext, CreditsNext
<1>3. SyncIInv /\ Owned /\ [MCNext]_<<part, github, people, vars, credentials, spending>>
      => [StaysOwned]_GitHub!vars
  BY PulseAssumption, SyncSteps, CreditsNext
<1>. QED
  BY <1>1, <1>2, <1>3, PTL DEF MCSpec, CreditStays, GitHub!CreditStays, StaysOwned
=============================================================================
