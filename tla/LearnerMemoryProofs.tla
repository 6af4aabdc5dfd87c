------------------------- MODULE LearnerMemoryProofs -------------------------
(***************************************************************************)
(* What the memory of a learner keeps, for any number of requests,         *)
(* processes and sessions, any reports and any memory they start from,     *)
(* with PostgreSQL and without, however many threads are cut off and       *)
(* processes restarted.                                                    *)
(***************************************************************************)
EXTENDS LearnerMemory, WellFoundedInduction, TLAPS

-----------------------------------------------------------------------------
(***************************************************************************)
(* The invariant                                                           *)
(***************************************************************************)
Whole(st) == st \in Stores /\ CountsOnce(st)

Keeps(st, later) == ~ Forgets(st, later)

\* How far the report of session s is in the memory.
HasBrief(st, s) == s \in Counted(st)
HasMistake(st, s) == ~ Report[s].correct => st.errors[MistakeOf(s)] # "none"
HasScore(st, s) == s \in Range(st.mastery.ema)
HasWeak(st, s) == ~ Report[s].correct => s \in st.weak
HasReport(st, s) == HasBrief(st, s) /\ HasMistake(st, s) /\ HasScore(st, s) /\ HasWeak(st, s)

\* A commit has written what the operations before its own write.
SoFar(st, r) ==
    /\ r.op # "brief" => HasBrief(st, r.session)
    /\ r.op \notin {"brief", "error"} => HasMistake(st, r.session)
    /\ r.op \notin {"brief", "error", "semantic"} => HasScore(st, r.session) /\ HasWeak(st, r.session)

\* What is in hand is what is left of the writes of the operation, and still
\* right for the rows as they are now.
BriefHand(st, r) ==
    \/ r.hand = <<>> /\ HasBrief(st, r.session)
    \/ r.hand = <<Brief(r.session)>>

PutError(s, state) == [op |-> "error", id |-> MistakeOf(s), state |-> state]

ErrorHand(st, r) ==
    \/ r.hand = <<>> /\ HasMistake(st, r.session)
    \/ r.hand = <<PutError(r.session, "open")>> /\ st.errors[MistakeOf(r.session)] = "none"
    \/ r.hand = <<PutError(r.session, "resolved")>> /\ Report[r.session].correct

PutMastery(st, s) == [op |-> "mastery", row |-> Folded(st.mastery, s)]
PutWeak(st, s) == [op |-> "weak", row |-> st.weak \cup {s}]

SemanticHand(st, r) ==
    \/ r.hand = <<>> /\ HasScore(st, r.session) /\ HasWeak(st, r.session)
    \/ r.hand = <<PutWeak(st, r.session)>> /\ HasScore(st, r.session)
    \/ /\ r.hand = <<PutMastery(st, r.session)>> /\ r.session \notin st.mastery.applied
       /\ HasWeak(st, r.session)
    \/ /\ r.hand = <<PutMastery(st, r.session), PutWeak(st, r.session)>>
       /\ r.session \notin st.mastery.applied

ScheduleHand(st, r) ==
    \/ r.hand = <<>>
    \/ /\ r.hand = <<[op |-> "schedule", row |-> Folded(st.schedule, r.session)]>>
       /\ r.session \notin st.schedule.applied

\* A brief is only deleted when an archive speaks for its session.
ArchiveHand(st, r) ==
    /\ \A i \in DOMAIN r.hand :
        /\ r.hand[i].op \in {"archive", "delete"}
        /\ r.hand[i].op = "archive" => r.hand[i].ids \cap Archived(st) = {}
        /\ r.hand[i].op = "delete" =>
               \/ r.hand[i].id \in Archived(st)
               \/ \E j \in DOMAIN r.hand :
                      j < i /\ r.hand[j].op = "archive" /\ r.hand[i].id \in r.hand[j].ids
    /\ \A i, j \in DOMAIN r.hand :
           r.hand[i].op = "archive" /\ r.hand[j].op = "archive" => i = j

\* The first rows of a memory are only put into an empty one.
MigrateHand(st, r) ==
    /\ \A i \in DOMAIN r.hand :
        /\ r.hand[i].op \in {"mastery", "weak", "brief"}
        /\ r.hand[i].op = "mastery" =>
               /\ st.mastery = NoRow
               /\ \E id \in OldSessions : r.hand[i].row = [applied |-> {}, ema |-> <<id>>]
        /\ r.hand[i].op = "weak" => st.weak = {}
    /\ \A i, j \in DOMAIN r.hand :
           r.hand[i].op = r.hand[j].op /\ r.hand[i].op # "brief" => i = j

Hand(st, r) ==
    /\ r.op = "brief" => BriefHand(st, r)
    /\ r.op = "error" => ErrorHand(st, r)
    /\ r.op = "semantic" => SemanticHand(st, r)
    /\ r.op = "schedule" => ScheduleHand(st, r)
    /\ r.op = "archive" => ArchiveHand(st, r)
    /\ r.op = "migrate" => MigrateHand(st, r)

\* The operations of each kind of request, and the stages of each operation.
Kind(r) ==
    \/ r.kind = "commit" /\ r.session \in Sessions
       /\ r.op \in {"brief", "error", "semantic", "archive", "snapshot", "mark"}
    \/ r.kind = "review" /\ r.session \in Sessions /\ r.op \in {"schedule", "snapshot"}
    \/ r.kind = "read" /\ r.op = "migrate"

Stage(r, inPostgres) ==
    \/ r.op = "snapshot" /\ ~ inPostgres /\ r.stage \in {"copy", "dump"}
    \/ r.op = "mark" /\ r.stage = "mark"
    \/ /\ r.op \notin {"snapshot", "mark"}
       /\ \/ inPostgres /\ r.stage \in {"gate", "late"}
          \/ r.stage \in {"lock", "write"}

\* The snapshot in hand is newer than the file, and not than the memory.
CopyInv(r, st, file) ==
    /\ Whole(r.copy)
    /\ Keeps(file, r.copy) /\ Keeps(r.copy, st)
    /\ r.kind = "commit" => HasReport(r.copy, r.session)

Lasting(inPostgres, st, file) == IF inPostgres THEN st ELSE file

RequestInv(r, inPostgres, st, file) ==
    \/ r = Idle
    \/ /\ r.home \in Processes /\ Kind(r) /\ Stage(r, inPostgres)
       /\ r.kind = "commit" => SoFar(st, r)
       /\ r.stage = "write" => Hand(st, r)
       /\ r.stage = "dump" => CopyInv(r, st, file)
       /\ r.stage = "mark" => HasReport(Lasting(inPostgres, st, file), r.session)

\* At most one request writes; but for a migration in memory, it holds the lock.
OneWriter ==
    /\ \A a, b \in Attempts : req[a].stage = "write" /\ req[b].stage = "write" => a = b
    /\ \A a \in Attempts :
           lock = a <=> req[a].stage = "write" /\ (postgres \/ req[a].op # "migrate")

OneDumper == \A a \in Attempts : dumping = a <=> req[a].stage = "dump"

StoresInv ==
    /\ Whole(store) /\ Whole(disk)
    /\ ~ postgres => Keeps(disk, store)

MarkedInv == \A s \in marked : HasReport(Lasting(postgres, store, disk), s)

RequestsInv == \A a \in Attempts : RequestInv(req[a], postgres, store, disk)

LocksInv == OneWriter /\ OneDumper /\ OneThreadPerProcess

MemoryInv == TypeOK /\ StoresInv /\ LocksInv /\ RequestsInv /\ MarkedInv

-----------------------------------------------------------------------------
\* What an element more, or less, changes of the elements of a sequence.
LEMMA RangeOfAppend ==
    ASSUME NEW S, NEW s \in Seq(S), NEW x
    PROVE  Range(Append(s, x)) = Range(s) \cup {x}
<1>1. DOMAIN s = 1..Len(s) /\ Len(s) \in Nat
  OBVIOUS
<1>2. DOMAIN Append(s, x) = 1..(Len(s) + 1)
  OBVIOUS
<1>3. \A i \in 1..Len(s) : Append(s, x)[i] = s[i]
  OBVIOUS
<1>4. Append(s, x)[Len(s) + 1] = x
  OBVIOUS
<1>5. 1..(Len(s) + 1) = 1..Len(s) \cup {Len(s) + 1}
  BY <1>1
<1> QED
  BY <1>1, <1>2, <1>3, <1>4, <1>5 DEF Range


(***************************************************************************)
(* Sequences                                                               *)
(***************************************************************************)
\* A set of numbers that is not empty has a least one.
LEMMA LeastOf ==
    ASSUME NEW S \in SUBSET Nat, S # {}
    PROVE  \E n \in S : \A m \in S : n <= m
<1>1. \E n \in S : \A m \in S : ~ (<<m, n>> \in OpToRel(<, Nat))
  BY NatLessThanWellFounded, WFMin
<1>2. PICK n \in S : \A m \in S : ~ (m < n)
  BY <1>1 DEF OpToRel
<1> QED
  BY <1>2

\* Only() keeps the briefs of the sessions it is asked for, and no others.
LEMMA OnlyThose ==
    ASSUME NEW S, NEW briefs \in Seq(S), NEW ids
    PROVE  /\ Only(briefs, ids) \in Seq(S)
           /\ Range(Only(briefs, ids)) = Range(briefs) \cap ids
<1> DEFINE N == Len(briefs)
           Next1(f, n) == IF n = 0 THEN <<>>
                          ELSE IF briefs[n] \in ids THEN Append(f[n - 1], briefs[n]) ELSE f[n - 1]
           Upto(f, n) == f = [i \in 0..n |-> Next1(f, i)]
<1>1. N \in Nat /\ DOMAIN briefs = 1..N /\ \A i \in 1..N : briefs[i] \in S
  OBVIOUS
<1>2. \A n \in 0..N : \E f : Upto(f, n)
  <2> DEFINE Bad == {n \in 0..N : ~ \E f : Upto(f, n)}
  <2>1. SUFFICES ASSUME Bad # {} PROVE FALSE
    OBVIOUS
  <2>2. PICK n \in Bad : \A m \in Bad : n <= m
    <3> HIDE DEF Bad
    <3>1. Bad \in SUBSET Nat
      BY <1>1 DEF Bad
    <3> QED
      BY <2>1, <3>1, LeastOf
  <2>3. n # 0
    <3>1. Upto([i \in 0..0 |-> <<>>], 0)
      OBVIOUS
    <3> QED
      BY <3>1
  <2>4. n - 1 \in 0..N /\ n \in Nat /\ n - 1 \in Nat
    BY <1>1, <2>3
  <2>5. PICK f : Upto(f, n - 1)
    <3>1. n - 1 \notin Bad
      <4>1. n \in Nat /\ ~ (n <= n - 1)
        BY <1>1
      <4> HIDE DEF Bad
      <4> QED
        BY <2>2, <4>1
    <3> HIDE DEF Upto
    <3> QED
      BY <2>4, <3>1
  <2> DEFINE g == [i \in 0..n |-> IF i < n THEN f[i] ELSE Next1(f, n)]
  <2>6. \A i \in 0..n : g[i] = Next1(g, i)
    <3>1. ASSUME NEW i \in 0..n, i < n PROVE g[i] = Next1(g, i)
      <4>1. g[i] = f[i] /\ i \in 0..(n - 1)
        BY <2>4, <3>1
      <4>2. f[i] = Next1(f, i)
        BY <2>5, <4>1
      <4>3. i # 0 => i - 1 \in 0..n /\ i - 1 < n
        BY <2>4, <3>1
      <4>4. i # 0 => g[i - 1] = f[i - 1]
        BY <4>3
      <4> QED
        BY <4>1, <4>2, <4>4
    <3>2. ASSUME NEW i \in 0..n, ~ (i < n) PROVE g[i] = Next1(g, i)
      <4>1. i = n /\ g[n] = Next1(f, n)
        BY <2>4, <3>2
      <4>2. n - 1 \in 0..n /\ n - 1 < n
        BY <2>4
      <4>3. g[n - 1] = f[n - 1]
        BY <4>2
      <4> QED
        BY <4>1, <4>3
    <3> QED
      BY <3>1, <3>2
  <2>7. Upto(g, n)
    <3>1. g = [i \in 0..n |-> g[i]]
      OBVIOUS
    <3> HIDE DEF g
    <3> QED
      BY <2>6, <3>1
  <2> QED
    BY <2>2, <2>7
<1>3. PICK f : Upto(f, N) /\ Only(briefs, ids) = f[N]
  <2> DEFINE F == CHOOSE f : Upto(f, N)
  <2>1. \E f : Upto(f, N)
    <3> HIDE DEF Upto
    <3> QED
      BY <1>1, <1>2
  <2>2. Upto(F, N)
    BY <2>1
  <2>3. Only(briefs, ids) = F[N]
    BY DEF Only
  <2> QED
    BY <2>2, <2>3
<1> DEFINE Right(n) == f[n] \in Seq(S) /\ Range(f[n]) = {briefs[i] : i \in 1..n} \cap ids
<1>4. \A n \in 0..N : Right(n)
  <2> DEFINE Bad == {n \in 0..N : ~ Right(n)}
  <2>1. SUFFICES ASSUME Bad # {} PROVE FALSE
    OBVIOUS
  <2>2. PICK n \in Bad : \A m \in Bad : n <= m
    <3> HIDE DEF Bad
    <3>1. Bad \in SUBSET Nat
      BY <1>1 DEF Bad
    <3> QED
      BY <2>1, <3>1, LeastOf
  <2>3. \A i \in 0..N : f[i] = Next1(f, i)
    BY <1>3
  <2>4. n # 0
    <3>1. ASSUME n = 0 PROVE FALSE
      <4>1. f[0] = <<>>
        BY <1>1, <2>3
      <4>2. Range(f[0]) = {} /\ f[0] \in Seq(S)
        BY <4>1 DEF Range
      <4>3. {briefs[i] : i \in 1..0} = {}
        OBVIOUS
      <4> QED
        BY <2>2, <3>1, <4>2, <4>3
    <3> QED
      BY <3>1
  <2>5. n - 1 \in 0..N /\ n \in 1..N /\ n - 1 < n
    BY <1>1, <2>2, <2>4
  <2>6. Right(n - 1)
    <3>1. n - 1 \notin Bad
      <4>1. n \in Nat /\ ~ (n <= n - 1)
        BY <1>1
      <4> HIDE DEF Bad
      <4> QED
        BY <2>2, <4>1
    <3> HIDE DEF Right
    <3> QED
      BY <2>5, <3>1
  <2> DEFINE t == f[n - 1]
  <2>7. f[n] = IF briefs[n] \in ids THEN Append(t, briefs[n]) ELSE t
    BY <2>3, <2>4, <2>5
  <2>8. {briefs[i] : i \in 1..n} = {briefs[i] : i \in 1..(n - 1)} \cup {briefs[n]}
    <3>1. 1..n = 1..(n - 1) \cup {n}
      BY <2>5
    <3> QED
      BY <3>1
  <2>9. t \in Seq(S) /\ Range(t) = {briefs[i] : i \in 1..(n - 1)} \cap ids
    BY <2>6
  <2> HIDE DEF t
  <2>10. Append(t, briefs[n]) \in Seq(S) /\ Range(Append(t, briefs[n])) = Range(t) \cup {briefs[n]}
    <3>1. briefs[n] \in S
      BY <1>1, <2>5
    <3> QED
      BY <2>9, <3>1, RangeOfAppend
  <2> QED
    BY <2>2, <2>7, <2>8, <2>9, <2>10
<1>5. {briefs[i] : i \in 1..N} = Range(briefs)
  BY <1>1 DEF Range
<1>6. Right(N)
  <2> HIDE DEF Right
  <2> QED
    BY <1>1, <1>4
<1> QED
  BY <1>3, <1>5, <1>6

\* A prefix agrees with the sequence as far as it goes.
LEMMA PrefixAgrees ==
    ASSUME NEW S, NEW s \in Seq(S), NEW t \in Seq(S)
    PROVE  IsPrefix(s, t) <=> Len(s) <= Len(t) /\ \A i \in 1..Len(s) : s[i] = t[i]
<1>1. Len(s) \in Nat /\ Len(t) \in Nat /\ DOMAIN s = 1..Len(s)
  OBVIOUS
<1>2. SubSeq(s, 1, Len(s)) = s
  OBVIOUS
<1>3. ASSUME Len(s) <= Len(t)
      PROVE  /\ SubSeq(t, 1, Len(s)) \in Seq(S) /\ Len(SubSeq(t, 1, Len(s))) = Len(s)
             /\ \A i \in 1..Len(s) : SubSeq(t, 1, Len(s))[i] = t[i]
  BY <1>1, <1>3
<1>4. ASSUME Len(s) <= Len(t), \A i \in 1..Len(s) : s[i] = t[i]
      PROVE  s = SubSeq(t, 1, Len(s))
  <2> DEFINE u == SubSeq(t, 1, Len(s))
  <2>1. u \in Seq(S) /\ Len(u) = Len(s) /\ \A i \in 1..Len(s) : u[i] = s[i]
    BY <1>3, <1>4
  <2> HIDE DEF u
  <2>2. u = s
    BY <2>1
  <2> QED
    BY <2>2 DEF u
<1> QED
  BY <1>1, <1>2, <1>3, <1>4 DEF IsPrefix

\* A sequence is a prefix of itself.
LEMMA PrefixOfItself ==
    ASSUME NEW S, NEW s \in Seq(S)
    PROVE  IsPrefix(s, s)
<1>1. Len(s) \in Nat
  OBVIOUS
<1> QED
  BY <1>1, PrefixAgrees

\* Being a prefix adds up.
LEMMA PrefixOfPrefix ==
    ASSUME NEW S, NEW s \in Seq(S), NEW t \in Seq(S), NEW u \in Seq(S),
           IsPrefix(s, t), IsPrefix(t, u)
    PROVE  IsPrefix(s, u)
<1>1. Len(s) \in Nat /\ Len(t) \in Nat /\ Len(u) \in Nat
  OBVIOUS
<1>2. Len(s) <= Len(t) /\ \A i \in 1..Len(s) : s[i] = t[i]
  BY PrefixAgrees
<1>3. Len(t) <= Len(u) /\ \A i \in 1..Len(t) : t[i] = u[i]
  BY PrefixAgrees
<1>4. Len(s) <= Len(u) /\ \A i \in 1..Len(s) : s[i] = u[i]
  BY <1>1, <1>2, <1>3
<1> QED
  BY <1>4, PrefixAgrees

\* A sequence is a prefix of itself and one more element.
LEMMA PrefixOfAppend ==
    ASSUME NEW S, NEW s \in Seq(S), NEW x \in S
    PROVE  IsPrefix(s, Append(s, x))
<1>1. Len(s) \in Nat /\ Append(s, x) \in Seq(S) /\ Len(Append(s, x)) = Len(s) + 1
  OBVIOUS
<1>2. \A i \in 1..Len(s) : Append(s, x)[i] = s[i]
  OBVIOUS
<1>3. Len(s) <= Len(Append(s, x))
  BY <1>1
<1> QED
  BY <1>1, <1>2, <1>3, PrefixAgrees

\* The empty sequence is a prefix of every sequence.
LEMMA PrefixOfEmpty ==
    ASSUME NEW S, NEW t \in Seq(S)
    PROVE  IsPrefix(<<>>, t)
<1> DEFINE e == <<>>
<1>1. e \in Seq(S) /\ Len(e) = 0 /\ Len(t) \in Nat
  OBVIOUS
<1> HIDE DEF e
<1>2. Len(e) <= Len(t) /\ \A i \in 1..Len(e) : e[i] = t[i]
  BY <1>1
<1>3. IsPrefix(e, t)
  BY <1>1, <1>2, PrefixAgrees
<1> QED
  BY <1>3 DEF e

\* What is in a prefix is in the whole.
LEMMA PrefixRange ==
    ASSUME NEW S, NEW s \in Seq(S), NEW t \in Seq(S), IsPrefix(s, t)
    PROVE  Range(s) \subseteq Range(t)
<1>1. /\ DOMAIN s = 1..Len(s) /\ DOMAIN t = 1..Len(t)
      /\ Len(s) \in Nat /\ Len(t) \in Nat
  OBVIOUS
<1>2. Len(s) <= Len(t) /\ \A i \in 1..Len(s) : s[i] = t[i]
  BY PrefixAgrees
<1>3. 1..Len(s) \subseteq 1..Len(t)
  BY <1>1, <1>2
<1> QED
  BY <1>1, <1>2, <1>3 DEF Range

\* A score that is folded in once stays there once.
LEMMA InjectiveAppend ==
    ASSUME NEW S, NEW s \in Seq(S), NEW x \in S, IsInjective(s), x \notin Range(s)
    PROVE  IsInjective(Append(s, x))
<1>1. Len(s) \in Nat /\ DOMAIN s = 1..Len(s) /\ DOMAIN Append(s, x) = 1..(Len(s) + 1)
  OBVIOUS
<1>2. \A i \in 1..Len(s) : Append(s, x)[i] = s[i] /\ s[i] # x
  BY <1>1 DEF Range
<1>3. Append(s, x)[Len(s) + 1] = x
  OBVIOUS
<1>4. ASSUME NEW i \in 1..(Len(s) + 1), NEW j \in 1..(Len(s) + 1), Append(s, x)[i] = Append(s, x)[j]
      PROVE  i = j
  <2>1. CASE i \in 1..Len(s) /\ j \in 1..Len(s)
    BY <1>1, <1>2, <1>4, <2>1 DEF IsInjective
  <2>2. CASE ~ (i \in 1..Len(s)) /\ ~ (j \in 1..Len(s))
    BY <1>1, <2>2
  <2>3. CASE i \in 1..Len(s) /\ ~ (j \in 1..Len(s))
    <3>1. j = Len(s) + 1
      BY <1>1, <2>3
    <3> QED
      BY <1>2, <1>3, <1>4, <2>3, <3>1
  <2>4. CASE ~ (i \in 1..Len(s)) /\ j \in 1..Len(s)
    <3>1. i = Len(s) + 1
      BY <1>1, <2>4
    <3> QED
      BY <1>2, <1>3, <1>4, <2>4, <3>1
  <2> QED
    BY <2>1, <2>2, <2>3, <2>4
<1> QED
  BY <1>1, <1>4 DEF IsInjective

-----------------------------------------------------------------------------
(***************************************************************************)
(* What a memory keeps                                                     *)
(***************************************************************************)
LEMMA StoreFields ==
    ASSUME NEW st \in Stores
    PROVE  /\ st.briefs \in Seq(Ids) /\ st.archives \in SUBSET SUBSET Ids
           /\ st.mastery \in Rows /\ st.schedule \in Rows
           /\ st.mastery.ema \in Seq(Ids) /\ st.schedule.ema \in Seq(Ids)
           /\ st.mastery.applied \in SUBSET Sessions /\ st.schedule.applied \in SUBSET Sessions
           /\ st.weak \in SUBSET Ids
           /\ st.errors \in [Sessions -> {"none", "open", "resolved"}]
           /\ st.legacy \in Seq(OldSessions)
BY DEF Stores, Rows

\* The same, said without the negation.
LEMMA KeepsMeans ==
    ASSUME NEW st, NEW later
    PROVE  Keeps(st, later) <=>
               /\ Counted(st) \subseteq Counted(later) /\ st.weak \subseteq later.weak
               /\ IsPrefix(st.mastery.ema, later.mastery.ema)
               /\ IsPrefix(st.schedule.ema, later.schedule.ema)
               /\ \A s \in Sessions : /\ st.errors[s] # "none" => later.errors[s] # "none"
                                      /\ st.errors[s] = "resolved" => later.errors[s] = "resolved"
BY DEF Keeps, Forgets

\* A store forgets nothing while it stays as it is.
LEMMA KeepsItself ==
    ASSUME NEW st \in Stores
    PROVE  Keeps(st, st)
BY KeepsMeans, StoreFields, PrefixOfItself

\* Forgetting nothing adds up.
LEMMA KeepsOnKeeping ==
    ASSUME NEW st \in Stores, NEW mid \in Stores, NEW later \in Stores,
           Keeps(st, mid), Keeps(mid, later)
    PROVE  Keeps(st, later)
<1>1. IsPrefix(st.mastery.ema, later.mastery.ema)
  BY KeepsMeans, StoreFields, PrefixOfPrefix
<1>2. IsPrefix(st.schedule.ema, later.schedule.ema)
  BY KeepsMeans, StoreFields, PrefixOfPrefix
<1>3. /\ Counted(st) \subseteq Counted(mid) /\ Counted(mid) \subseteq Counted(later)
      /\ st.weak \subseteq mid.weak /\ mid.weak \subseteq later.weak
  BY KeepsMeans
<1>4. \A s \in Sessions : /\ st.errors[s] # "none" => later.errors[s] # "none"
                          /\ st.errors[s] = "resolved" => later.errors[s] = "resolved"
  BY KeepsMeans
<1> QED
  BY <1>1, <1>2, <1>3, <1>4, KeepsMeans

\* What is written of a session's mistakes is about a session.
LEMMA MistakeIsASession ==
    ASSUME NEW s \in Sessions
    PROVE  MistakeOf(s) \in Sessions /\ Report[s].correct \in BOOLEAN
BY ReportAssumption DEF MistakeOf

\* Nothing of a report is lost on the way to a later memory.
LEMMA ReportIsKept ==
    ASSUME NEW st \in Stores, NEW later \in Stores, Keeps(st, later), NEW s \in Sessions
    PROVE  /\ HasBrief(st, s) => HasBrief(later, s)
           /\ HasMistake(st, s) => HasMistake(later, s)
           /\ HasScore(st, s) => HasScore(later, s)
           /\ HasWeak(st, s) => HasWeak(later, s)
           /\ HasReport(st, s) => HasReport(later, s)
<1>1. HasBrief(st, s) => HasBrief(later, s)
  BY KeepsMeans DEF HasBrief
<1>2. HasMistake(st, s) => HasMistake(later, s)
  BY KeepsMeans, MistakeIsASession DEF HasMistake
<1>3. HasScore(st, s) => HasScore(later, s)
  BY KeepsMeans, StoreFields, PrefixRange DEF HasScore
<1>4. HasWeak(st, s) => HasWeak(later, s)
  BY KeepsMeans DEF HasWeak
<1> QED
  BY <1>1, <1>2, <1>3, <1>4 DEF HasReport

-----------------------------------------------------------------------------
(***************************************************************************)
(* One write                                                               *)
(***************************************************************************)
LEMMA PutFields ==
    ASSUME NEW w \in Puts
    PROVE  /\ w.op \in {"brief", "delete", "archive", "error", "weak", "mastery", "schedule"}
           /\ w.op \in {"brief", "delete"} => w.id \in Ids
           /\ w.op = "archive" => w.ids \in SUBSET Ids
           /\ w.op = "error" => w.id \in Sessions /\ w.state \in {"open", "resolved"}
           /\ w.op = "weak" => w.row \in SUBSET Ids
           /\ w.op \in {"mastery", "schedule"} => w.row \in Rows
BY DEF Puts


\* The brief of a session makes it counted, and changes no score.
LEMMA PutBrief ==
    ASSUME NEW st, Whole(st), NEW w \in Puts, w.op = "brief"
    PROVE  /\ Whole(Apply(st, w)) /\ Keeps(st, Apply(st, w))
           /\ w.id \in Counted(Apply(st, w))
           /\ Apply(st, w).mastery = st.mastery /\ Apply(st, w).weak = st.weak
<1> DEFINE later == Apply(st, w)
           briefs == IF w.id \in Range(st.briefs) THEN st.briefs ELSE Append(st.briefs, w.id)
<1>1. st \in Stores /\ CountsOnce(st) /\ w.id \in Ids
  BY PutFields DEF Whole
<1>2. later = [st EXCEPT !.briefs = briefs]
  BY DEF Apply
<1>3. st.briefs \in Seq(Ids)
  BY <1>1, StoreFields
<1>4. briefs \in Seq(Ids) /\ Range(briefs) = Range(st.briefs) \cup {w.id}
  BY <1>1, <1>3, RangeOfAppend
<1> HIDE DEF briefs, later
<1>5. /\ later \in Stores /\ later.briefs = briefs
      /\ later.archives = st.archives /\ later.mastery = st.mastery /\ later.weak = st.weak
      /\ later.errors = st.errors /\ later.schedule = st.schedule
  BY <1>1, <1>2, <1>4 DEF Stores
<1>6. CountsOnce(later)
  BY <1>1, <1>5 DEF CountsOnce
<1>7. Counted(later) = Counted(st) \cup {w.id}
  BY <1>4, <1>5 DEF Counted, Archived
<1>8. Keeps(st, st)
  BY <1>1, KeepsItself
<1>9. Keeps(st, later)
  BY <1>5, <1>7, <1>8, KeepsMeans
<1> QED
  BY <1>5, <1>6, <1>7, <1>9 DEF Whole, later

\* A brief that an archive speaks for is not missed.
LEMMA PutDelete ==
    ASSUME NEW st, Whole(st), NEW w \in Puts, w.op = "delete", w.id \in Archived(st)
    PROVE  /\ Whole(Apply(st, w)) /\ Keeps(st, Apply(st, w))
           /\ Archived(Apply(st, w)) = Archived(st)
<1> DEFINE later == Apply(st, w)
           briefs == Only(st.briefs, Ids \ {w.id})
<1>1. st \in Stores /\ CountsOnce(st) /\ w.id \in Ids
  BY PutFields DEF Whole
<1>2. later = [st EXCEPT !.briefs = briefs]
  BY DEF Apply
<1>3. st.briefs \in Seq(Ids)
  BY <1>1, StoreFields
<1>4. briefs \in Seq(Ids) /\ Range(briefs) = Range(st.briefs) \cap (Ids \ {w.id})
  BY <1>3, OnlyThose
<1>5. Range(st.briefs) \subseteq Ids
  BY <1>3 DEF Range
<1> HIDE DEF briefs, later
<1>6. /\ later \in Stores /\ later.briefs = briefs
      /\ later.archives = st.archives /\ later.mastery = st.mastery /\ later.weak = st.weak
      /\ later.errors = st.errors /\ later.schedule = st.schedule
  BY <1>1, <1>2, <1>4 DEF Stores
<1>7. CountsOnce(later)
  BY <1>1, <1>6 DEF CountsOnce
<1>8. Archived(later) = Archived(st)
  BY <1>6 DEF Archived
<1>9. Counted(st) \subseteq Counted(later)
  BY <1>4, <1>5, <1>6, <1>8 DEF Counted
<1>10. Keeps(st, st)
  BY <1>1, KeepsItself
<1>11. Keeps(st, later)
  BY <1>6, <1>9, <1>10, KeepsMeans
<1> QED
  BY <1>6, <1>7, <1>8, <1>11 DEF Whole, later

\* An archive of briefs no other archive has keeps the store whole.
LEMMA PutArchive ==
    ASSUME NEW st, Whole(st), NEW w \in Puts, w.op = "archive", w.ids \cap Archived(st) = {}
    PROVE  /\ Whole(Apply(st, w)) /\ Keeps(st, Apply(st, w))
           /\ Archived(Apply(st, w)) = Archived(st) \cup w.ids
<1> DEFINE later == Apply(st, w)
<1>1. st \in Stores /\ CountsOnce(st) /\ w.ids \in SUBSET Ids
  BY PutFields DEF Whole
<1>2. later = [st EXCEPT !.archives = @ \cup {w.ids}]
  BY DEF Apply
<1> HIDE DEF later
<1>3. /\ later \in Stores /\ later.archives = st.archives \cup {w.ids}
      /\ later.briefs = st.briefs /\ later.mastery = st.mastery /\ later.weak = st.weak
      /\ later.errors = st.errors /\ later.schedule = st.schedule
  BY <1>1, <1>2 DEF Stores
<1>4. Archived(later) = Archived(st) \cup w.ids
  BY <1>3 DEF Archived
<1>5. \A x \in st.archives : x \cap w.ids = {}
  BY DEF Archived
<1>6. \A x, y \in later.archives : x # y => x \cap y = {}
  <2>1. \A x, y \in st.archives : x # y => x \cap y = {}
    BY <1>1 DEF CountsOnce
  <2> QED
    BY <1>3, <1>5, <2>1
<1>7. CountsOnce(later)
  BY <1>1, <1>3, <1>6 DEF CountsOnce
<1>8. Counted(st) \subseteq Counted(later)
  BY <1>3, <1>4 DEF Counted
<1>9. Keeps(st, st)
  BY <1>1, KeepsItself
<1>10. Keeps(st, later)
  BY <1>3, <1>8, <1>9, KeepsMeans
<1> QED
  BY <1>3, <1>4, <1>7, <1>10 DEF Whole, later

\* A mistake is opened once, or resolved.
LEMMA PutMistake ==
    ASSUME NEW st, Whole(st), NEW w \in Puts, w.op = "error",
           st.errors[w.id] = "none" \/ w.state = "resolved"
    PROVE  /\ Whole(Apply(st, w)) /\ Keeps(st, Apply(st, w))
           /\ Apply(st, w).errors[w.id] # "none"
<1> DEFINE later == Apply(st, w)
<1>1. /\ st \in Stores /\ CountsOnce(st) /\ w.id \in Sessions /\ w.state \in {"open", "resolved"}
      /\ st.errors \in [Sessions -> {"none", "open", "resolved"}]
  BY PutFields, StoreFields DEF Whole
<1> DEFINE errors == [st.errors EXCEPT ![w.id] = w.state]
<1>2. later = [st EXCEPT !.errors = errors]
  BY <1>1 DEF Apply, Stores
<1>3. errors \in [Sessions -> {"none", "open", "resolved"}]
  BY <1>1
<1>4. /\ errors[w.id] = w.state
      /\ \A s \in Sessions : s # w.id => errors[s] = st.errors[s]
  BY <1>1
<1> HIDE DEF later, errors
<1>5. /\ later \in Stores /\ later.errors = errors
      /\ later.briefs = st.briefs /\ later.archives = st.archives /\ later.mastery = st.mastery
      /\ later.weak = st.weak /\ later.schedule = st.schedule
  BY <1>1, <1>2, <1>3 DEF Stores
<1>6. CountsOnce(later)
  BY <1>1, <1>5 DEF CountsOnce
<1>7. Counted(later) = Counted(st)
  BY <1>5 DEF Counted, Archived
<1>8. Keeps(st, st)
  BY <1>1, KeepsItself
<1>9. \A s \in Sessions : /\ st.errors[s] # "none" => later.errors[s] # "none"
                          /\ st.errors[s] = "resolved" => later.errors[s] = "resolved"
  BY <1>1, <1>4, <1>5
<1>10. Keeps(st, later)
  BY <1>5, <1>7, <1>8, <1>9, KeepsMeans
<1>11. later.errors[w.id] # "none"
  BY <1>1, <1>4, <1>5
<1> QED
  BY <1>5, <1>6, <1>10, <1>11 DEF Whole, later

\* Weak points that only grow keep the store whole.
LEMMA PutWeakPoints ==
    ASSUME NEW st, Whole(st), NEW w \in Puts, w.op = "weak", st.weak \subseteq w.row
    PROVE  /\ Whole(Apply(st, w)) /\ Keeps(st, Apply(st, w))
           /\ Apply(st, w).weak = w.row /\ Apply(st, w).mastery = st.mastery
<1> DEFINE later == Apply(st, w)
<1>1. st \in Stores /\ CountsOnce(st) /\ w.row \in SUBSET Ids
  BY PutFields DEF Whole
<1>2. later = [st EXCEPT !.weak = w.row]
  BY DEF Apply
<1> HIDE DEF later
<1>3. /\ later \in Stores /\ later.weak = w.row
      /\ later.briefs = st.briefs /\ later.archives = st.archives /\ later.mastery = st.mastery
      /\ later.errors = st.errors /\ later.schedule = st.schedule
  BY <1>1, <1>2 DEF Stores
<1>4. CountsOnce(later)
  BY <1>1, <1>3 DEF CountsOnce
<1>5. Counted(later) = Counted(st)
  BY <1>3 DEF Counted, Archived
<1>6. Keeps(st, st)
  BY <1>1, KeepsItself
<1>7. Keeps(st, later)
  BY <1>3, <1>5, <1>6, KeepsMeans
<1> QED
  BY <1>3, <1>4, <1>7 DEF Whole, later

\* Rows in which each session has its score once.
RowOnce(row) == IsInjective(row.ema) /\ \A s \in Sessions : s \in row.applied <=> s \in Range(row.ema)

\* A session folded into scores that do not have it is there once.
LEMMA FoldsOnce ==
    ASSUME NEW row \in Rows, RowOnce(row), NEW s \in Sessions, s \notin row.applied
    PROVE  /\ Folded(row, s) \in Rows /\ RowOnce(Folded(row, s))
           /\ IsPrefix(row.ema, Folded(row, s).ema)
           /\ s \in Range(Folded(row, s).ema)
<1>1. row.ema \in Seq(Ids) /\ row.applied \in SUBSET Sessions /\ s \in Ids
  BY DEF Rows, Ids
<1>2. s \notin Range(row.ema)
  BY DEF RowOnce
<1>3. Folded(row, s).ema = Append(row.ema, s) /\ Folded(row, s).applied = row.applied \cup {s}
  BY DEF Folded
<1>4. Append(row.ema, s) \in Seq(Ids)
  BY <1>1
<1>5. IsInjective(Append(row.ema, s))
  BY <1>1, <1>2, InjectiveAppend DEF RowOnce
<1>6. Range(Append(row.ema, s)) = Range(row.ema) \cup {s}
  BY <1>1, RangeOfAppend
<1>7. IsPrefix(row.ema, Append(row.ema, s))
  BY <1>1, PrefixOfAppend
<1>8. Folded(row, s) \in Rows
  BY <1>1, <1>4 DEF Folded, Rows
<1> QED
  BY <1>3, <1>5, <1>6, <1>7, <1>8 DEF RowOnce

\* Scores that go on from the stored ones keep the store whole.
LEMMA PutScores ==
    ASSUME NEW st, Whole(st), NEW w \in Puts, w.op = "mastery",
           IsPrefix(st.mastery.ema, w.row.ema), RowOnce(w.row)
    PROVE  /\ Whole(Apply(st, w)) /\ Keeps(st, Apply(st, w))
           /\ Apply(st, w).mastery = w.row /\ Apply(st, w).weak = st.weak
<1> DEFINE later == Apply(st, w)
<1>1. st \in Stores /\ CountsOnce(st) /\ w.row \in Rows
  BY PutFields DEF Whole
<1>2. later = [st EXCEPT !.mastery = w.row]
  BY DEF Apply
<1> HIDE DEF later
<1>3. /\ later \in Stores /\ later.mastery = w.row
      /\ later.briefs = st.briefs /\ later.archives = st.archives /\ later.weak = st.weak
      /\ later.errors = st.errors /\ later.schedule = st.schedule
  BY <1>1, <1>2 DEF Stores
<1>4. CountsOnce(later)
  BY <1>1, <1>3 DEF CountsOnce, RowOnce
<1>5. Counted(later) = Counted(st)
  BY <1>3 DEF Counted, Archived
<1>6. Keeps(st, st)
  BY <1>1, KeepsItself
<1>7. Keeps(st, later)
  BY <1>3, <1>5, <1>6, KeepsMeans
<1> QED
  BY <1>3, <1>4, <1>7 DEF Whole, later

\* A schedule that goes on from the stored one keeps the store whole.
LEMMA PutReviews ==
    ASSUME NEW st, Whole(st), NEW w \in Puts, w.op = "schedule",
           IsPrefix(st.schedule.ema, w.row.ema), RowOnce(w.row)
    PROVE  Whole(Apply(st, w)) /\ Keeps(st, Apply(st, w))
<1> DEFINE later == Apply(st, w)
<1>1. st \in Stores /\ CountsOnce(st) /\ w.row \in Rows
  BY PutFields DEF Whole
<1>2. later = [st EXCEPT !.schedule = w.row]
  BY DEF Apply
<1> HIDE DEF later
<1>3. /\ later \in Stores /\ later.schedule = w.row
      /\ later.briefs = st.briefs /\ later.archives = st.archives /\ later.weak = st.weak
      /\ later.errors = st.errors /\ later.mastery = st.mastery
  BY <1>1, <1>2 DEF Stores
<1>4. CountsOnce(later)
  BY <1>1, <1>3 DEF CountsOnce, RowOnce
<1>5. Counted(later) = Counted(st)
  BY <1>3 DEF Counted, Archived
<1>6. Keeps(st, st)
  BY <1>1, KeepsItself
<1>7. Keeps(st, later)
  BY <1>3, <1>5, <1>6, KeepsMeans
<1> QED
  BY <1>3, <1>4, <1>7 DEF Whole, later

-----------------------------------------------------------------------------
(***************************************************************************)
(* The writes of an operation                                              *)
(***************************************************************************)
LEMMA RestOfHand ==
    ASSUME NEW S, NEW hand \in Seq(S), hand # <<>>
    PROVE  /\ Head(hand) \in S /\ Head(hand) = hand[1] /\ 1 \in DOMAIN hand
           /\ Tail(hand) \in Seq(S)
           /\ DOMAIN Tail(hand) = 1..(Len(hand) - 1)
           /\ \A i \in DOMAIN Tail(hand) : Tail(hand)[i] = hand[i + 1] /\ i + 1 \in DOMAIN hand
           /\ \A j \in DOMAIN hand : j = 1 \/ j - 1 \in DOMAIN Tail(hand)
           /\ DOMAIN hand \subseteq Nat
<1>1. Len(hand) \in Nat /\ Len(hand) # 0 /\ DOMAIN hand = 1..Len(hand)
  OBVIOUS
<1>2. /\ Tail(hand) \in Seq(S) /\ Len(Tail(hand)) = Len(hand) - 1
      /\ \A i \in 1..(Len(hand) - 1) : Tail(hand)[i] = hand[i + 1]
  OBVIOUS
<1>3. DOMAIN Tail(hand) = 1..(Len(hand) - 1)
  BY <1>2
<1> QED
  BY <1>1, <1>2, <1>3

\* What a request may have in hand.
LEMMA RequestFields ==
    ASSUME NEW r \in Requests
    PROVE  /\ r.kind \in {"commit", "review", "read", None} /\ r.session \in Sessions \cup {None}
           /\ r.home \in Processes \cup {None} /\ r.op \in Ops /\ r.stage \in Stages
           /\ r.hand \in Seq(Puts) /\ r.copy \in Stores \cup {None}
BY DEF Requests

\* The next write of an error book fits the store, and so does the rest.
LEMMA ErrorWriteFits ==
    ASSUME NEW st, Whole(st), NEW r \in Requests, r.session \in Sessions, r.hand # <<>>,
           ErrorHand(st, r), NEW q, q.session = r.session, q.hand = Tail(r.hand)
    PROVE  /\ Whole(Apply(st, Head(r.hand))) /\ Keeps(st, Apply(st, Head(r.hand)))
           /\ ErrorHand(Apply(st, Head(r.hand)), q)
<1> DEFINE w == Head(r.hand)
           s == r.session
<1>1. w \in Puts
  BY RequestFields, RestOfHand
<1>2. CASE r.hand = <<PutError(s, "open")>> /\ st.errors[MistakeOf(s)] = "none"
  <2>1. w.op = "error" /\ w.id = MistakeOf(s) /\ q.hand = <<>>
    BY <1>2 DEF PutError
  <2> HIDE DEF w
  <2>2. /\ Whole(Apply(st, w)) /\ Keeps(st, Apply(st, w))
        /\ Apply(st, w).errors[MistakeOf(s)] # "none"
    BY <1>1, <1>2, <2>1, PutMistake
  <2>3. ErrorHand(Apply(st, w), q)
    BY <2>1, <2>2 DEF ErrorHand, HasMistake
  <2> QED
    BY <2>2, <2>3 DEF w
<1>3. CASE r.hand = <<PutError(s, "resolved")>> /\ Report[s].correct
  <2>1. w.op = "error" /\ w.state = "resolved" /\ q.hand = <<>>
    BY <1>3 DEF PutError
  <2> HIDE DEF w
  <2>2. Whole(Apply(st, w)) /\ Keeps(st, Apply(st, w))
    BY <1>1, <2>1, PutMistake
  <2>3. ErrorHand(Apply(st, w), q)
    BY <1>3, <2>1 DEF ErrorHand, HasMistake
  <2> QED
    BY <2>2, <2>3 DEF w
<1> QED
  BY <1>2, <1>3 DEF ErrorHand

\* The next write of scores and weak points fits, and so does the rest.
LEMMA SemanticWriteFits ==
    ASSUME NEW st, Whole(st), NEW r \in Requests, r.session \in Sessions, r.hand # <<>>,
           SemanticHand(st, r), NEW q, q.session = r.session, q.hand = Tail(r.hand)
    PROVE  /\ Whole(Apply(st, Head(r.hand))) /\ Keeps(st, Apply(st, Head(r.hand)))
           /\ SemanticHand(Apply(st, Head(r.hand)), q)
<1> DEFINE w == Head(r.hand)
           s == r.session
           later == Apply(st, w)
<1>1. w \in Puts
  BY RequestFields, RestOfHand
<1>2. st \in Stores /\ st.mastery \in Rows /\ RowOnce(st.mastery)
  BY StoreFields DEF Whole, CountsOnce, RowOnce
<1>3. CASE r.hand = <<PutWeak(st, s)>> /\ HasScore(st, s)
  <2>1. w.op = "weak" /\ w.row = st.weak \cup {s} /\ q.hand = <<>>
    BY <1>3 DEF PutWeak
  <2> HIDE DEF w
  <2>2. /\ Whole(later) /\ Keeps(st, later)
        /\ later.weak = w.row /\ later.mastery = st.mastery
    BY <1>1, <2>1, PutWeakPoints
  <2> HIDE DEF later
  <2>3. HasScore(later, s) /\ HasWeak(later, s)
    BY <1>3, <2>1, <2>2 DEF HasScore, HasWeak
  <2>4. SemanticHand(later, q)
    BY <2>1, <2>3 DEF SemanticHand
  <2> QED
    BY <2>2, <2>4 DEF w, later
<1>4. ASSUME w = PutMastery(st, s), s \notin st.mastery.applied
      PROVE  /\ Whole(later) /\ Keeps(st, later)
             /\ later.weak = st.weak /\ HasScore(later, s)
  <2>1. w.op = "mastery" /\ w.row = Folded(st.mastery, s)
    BY <1>4 DEF PutMastery
  <2>2. /\ RowOnce(w.row) /\ IsPrefix(st.mastery.ema, w.row.ema)
        /\ s \in Range(w.row.ema)
    BY <1>2, <1>4, <2>1, FoldsOnce
  <2> HIDE DEF w
  <2>3. /\ Whole(later) /\ Keeps(st, later)
        /\ later.mastery = w.row /\ later.weak = st.weak
    BY <1>1, <2>1, <2>2, PutScores
  <2> HIDE DEF later
  <2> QED
    BY <2>2, <2>3 DEF HasScore
<1>5. CASE r.hand = <<PutMastery(st, s)>> /\ s \notin st.mastery.applied /\ HasWeak(st, s)
  <2>1. w = PutMastery(st, s) /\ q.hand = <<>>
    BY <1>5
  <2> HIDE DEF w, later
  <2>2. /\ Whole(later) /\ Keeps(st, later)
        /\ later.weak = st.weak /\ HasScore(later, s)
    BY <1>4, <1>5, <2>1
  <2>3. HasWeak(later, s)
    BY <1>5, <2>2 DEF HasWeak
  <2>4. SemanticHand(later, q)
    BY <2>1, <2>2, <2>3 DEF SemanticHand
  <2> QED
    BY <2>2, <2>4 DEF w, later
<1>6. CASE r.hand = <<PutMastery(st, s), PutWeak(st, s)>> /\ s \notin st.mastery.applied
  <2>1. w = PutMastery(st, s) /\ q.hand = <<PutWeak(st, s)>>
    BY <1>6
  <2> HIDE DEF w, later
  <2>2. /\ Whole(later) /\ Keeps(st, later)
        /\ later.weak = st.weak /\ HasScore(later, s)
    BY <1>4, <1>6, <2>1
  <2>3. PutWeak(later, s) = PutWeak(st, s)
    BY <2>2 DEF PutWeak
  <2>4. SemanticHand(later, q)
    BY <2>1, <2>2, <2>3 DEF SemanticHand
  <2> QED
    BY <2>2, <2>4 DEF w, later
<1> QED
  BY <1>3, <1>5, <1>6 DEF SemanticHand

\* The next write of a schedule fits, and so does the rest.
LEMMA ScheduleWriteFits ==
    ASSUME NEW st, Whole(st), NEW r \in Requests, r.session \in Sessions, r.hand # <<>>,
           ScheduleHand(st, r), NEW q, q.hand = Tail(r.hand)
    PROVE  /\ Whole(Apply(st, Head(r.hand))) /\ Keeps(st, Apply(st, Head(r.hand)))
           /\ ScheduleHand(Apply(st, Head(r.hand)), q)
<1> DEFINE w == Head(r.hand)
           s == r.session
<1>1. w \in Puts
  BY RequestFields, RestOfHand
<1>2. st \in Stores /\ st.schedule \in Rows /\ RowOnce(st.schedule)
  BY StoreFields DEF Whole, CountsOnce, RowOnce
<1>3. /\ r.hand = <<[op |-> "schedule", row |-> Folded(st.schedule, s)]>>
      /\ s \notin st.schedule.applied
  BY DEF ScheduleHand
<1>4. w.op = "schedule" /\ w.row = Folded(st.schedule, s) /\ q.hand = <<>>
  BY <1>3
<1> HIDE DEF w
<1>5. RowOnce(w.row) /\ IsPrefix(st.schedule.ema, w.row.ema)
  BY <1>2, <1>3, <1>4, FoldsOnce
<1>6. Whole(Apply(st, w)) /\ Keeps(st, Apply(st, w))
  BY <1>1, <1>4, <1>5, PutReviews
<1>7. ScheduleHand(Apply(st, w), q)
  BY <1>4 DEF ScheduleHand
<1> QED
  BY <1>6, <1>7 DEF w

\* The next write of an archiving fits, and so does the rest.
LEMMA ArchiveWriteFits ==
    ASSUME NEW st, Whole(st), NEW r \in Requests, r.hand # <<>>,
           ArchiveHand(st, r), NEW q, q.hand = Tail(r.hand)
    PROVE  /\ Whole(Apply(st, Head(r.hand))) /\ Keeps(st, Apply(st, Head(r.hand)))
           /\ ArchiveHand(Apply(st, Head(r.hand)), q)
<1> DEFINE w == Head(r.hand)
           later == Apply(st, w)
           rest == Tail(r.hand)
           hand == r.hand
<1>1. hand \in Seq(Puts) /\ hand # <<>>
  BY RequestFields
<1>2. /\ w \in Puts /\ w = hand[1] /\ 1 \in DOMAIN hand
      /\ rest \in Seq(Puts)
      /\ \A i \in DOMAIN rest : rest[i] = hand[i + 1] /\ i + 1 \in DOMAIN hand
      /\ \A j \in DOMAIN hand : j = 1 \/ j - 1 \in DOMAIN rest
      /\ DOMAIN hand \subseteq Nat
      /\ DOMAIN rest \subseteq Nat
  BY <1>1, RestOfHand
<1>3. /\ \A i \in DOMAIN hand :
          /\ hand[i].op \in {"archive", "delete"}
          /\ hand[i].op = "archive" => hand[i].ids \cap Archived(st) = {}
          /\ hand[i].op = "delete" =>
                 \/ hand[i].id \in Archived(st)
                 \/ \E j \in DOMAIN hand :
                        j < i /\ hand[j].op = "archive" /\ hand[i].id \in hand[j].ids
      /\ \A i, j \in DOMAIN hand : hand[i].op = "archive" /\ hand[j].op = "archive" => i = j
  BY DEF ArchiveHand
<1>4. \A j \in DOMAIN hand : ~ (j < 1)
  <2>1. DOMAIN hand = 1..Len(hand)
    BY <1>1
  <2> QED
    BY <2>1
<1> HIDE DEF w, later, rest, hand
<1>5. CASE w.op = "delete"
  <2>1. w.id \in Archived(st)
    BY <1>2, <1>3, <1>4, <1>5
  <2>2. Whole(later) /\ Keeps(st, later) /\ Archived(later) = Archived(st)
    BY <1>2, <1>5, <2>1, PutDelete DEF later
  <2>3. ASSUME NEW i \in DOMAIN rest, rest[i].op = "delete"
        PROVE  \/ rest[i].id \in Archived(st)
               \/ \E j \in DOMAIN rest :
                      j < i /\ rest[j].op = "archive" /\ rest[i].id \in rest[j].ids
    <3>1. rest[i] = hand[i + 1] /\ i + 1 \in DOMAIN hand /\ i \in Nat
      BY <1>2
    <3>2. ASSUME NEW j \in DOMAIN hand, j < i + 1, hand[j].op = "archive",
                 hand[i + 1].id \in hand[j].ids
          PROVE  \E k \in DOMAIN rest :
                     k < i /\ rest[k].op = "archive" /\ rest[i].id \in rest[k].ids
      <4>1. j # 1
        BY <1>2, <1>5, <3>2
      <4>2. j - 1 \in DOMAIN rest /\ j \in Nat
        BY <1>2, <4>1
      <4>3. rest[j - 1] = hand[j]
        <5>1. rest[j - 1] = hand[(j - 1) + 1] /\ (j - 1) + 1 = j
          BY <1>2, <4>2
        <5> QED
          BY <5>1
      <4>4. j - 1 < i
        BY <3>1, <3>2, <4>2
      <4> QED
        BY <3>1, <3>2, <4>2, <4>3, <4>4
    <3> QED
      BY <1>3, <2>3, <3>1, <3>2
  <2>4. \A i, j \in DOMAIN rest : rest[i].op = "archive" /\ rest[j].op = "archive" => i = j
    <3>1. ASSUME NEW i \in DOMAIN rest, NEW j \in DOMAIN rest,
                 rest[i].op = "archive", rest[j].op = "archive"
          PROVE  i = j
      <4>1. i + 1 = j + 1 /\ i \in Nat /\ j \in Nat
        BY <1>2, <1>3, <3>1
      <4> QED
        BY <4>1
    <3> QED
      BY <3>1
  <2>5. \A i \in DOMAIN rest :
            /\ rest[i].op \in {"archive", "delete"}
            /\ rest[i].op = "archive" => rest[i].ids \cap Archived(st) = {}
    BY <1>2, <1>3
  <2>6. ArchiveHand(later, q)
    BY <2>2, <2>3, <2>4, <2>5 DEF ArchiveHand, rest
  <2> QED
    BY <2>2, <2>6 DEF w, later
<1>6. CASE w.op = "archive"
  <2>1. w.ids \cap Archived(st) = {}
    BY <1>2, <1>3, <1>6
  <2>2. Whole(later) /\ Keeps(st, later) /\ Archived(later) = Archived(st) \cup w.ids
    BY <1>2, <1>6, <2>1, PutArchive DEF later
  <2>3. ASSUME NEW i \in DOMAIN rest
        PROVE  rest[i].op = "delete" /\ rest[i].id \in Archived(st) \cup w.ids
    <3>1. rest[i] = hand[i + 1] /\ i + 1 \in DOMAIN hand /\ i \in Nat
      BY <1>2
    <3>2. i # 0
      <4>1. DOMAIN rest = 1..Len(rest)
        BY <1>2
      <4> QED
        BY <4>1
    <3>3. i + 1 # 1
      BY <3>1, <3>2
    <3>4. \A j \in DOMAIN hand : hand[j].op = "archive" => j = 1
      BY <1>2, <1>3, <1>6
    <3>5. hand[i + 1].op = "delete"
      BY <1>3, <3>1, <3>3, <3>4
    <3> QED
      BY <1>2, <1>3, <3>1, <3>4, <3>5
  <2>4. ArchiveHand(later, q)
    BY <2>2, <2>3 DEF ArchiveHand, rest
  <2> QED
    BY <2>2, <2>4 DEF w, later
<1> QED
  BY <1>2, <1>3, <1>5, <1>6

\* The next write of a migration fits, and so does the rest.
LEMMA MigrateWriteFits ==
    ASSUME NEW st, Whole(st), NEW r \in Requests, r.hand # <<>>,
           MigrateHand(st, r), NEW q, q.hand = Tail(r.hand)
    PROVE  /\ Whole(Apply(st, Head(r.hand))) /\ Keeps(st, Apply(st, Head(r.hand)))
           /\ MigrateHand(Apply(st, Head(r.hand)), q)
<1> DEFINE w == Head(r.hand)
           later == Apply(st, w)
           rest == Tail(r.hand)
           hand == r.hand
<1>1. hand \in Seq(Puts) /\ hand # <<>>
  BY RequestFields
<1>2. /\ w \in Puts /\ w = hand[1] /\ 1 \in DOMAIN hand
      /\ \A i \in DOMAIN rest : rest[i] = hand[i + 1] /\ i + 1 \in DOMAIN hand
      /\ DOMAIN rest = 1..(Len(hand) - 1) /\ Len(hand) \in Nat
  BY <1>1, RestOfHand
<1>3. /\ \A i \in DOMAIN hand :
          /\ hand[i].op \in {"mastery", "weak", "brief"}
          /\ hand[i].op = "mastery" =>
                 /\ st.mastery = NoRow
                 /\ \E id \in OldSessions : hand[i].row = [applied |-> {}, ema |-> <<id>>]
          /\ hand[i].op = "weak" => st.weak = {}
      /\ \A i, j \in DOMAIN hand : hand[i].op = hand[j].op /\ hand[i].op # "brief" => i = j
  BY DEF MigrateHand
<1> HIDE DEF w, later, rest, hand
<1>4. \A i \in DOMAIN rest : rest[i].op = w.op => w.op = "brief"
  <2>1. ASSUME NEW i \in DOMAIN rest, rest[i].op = w.op, w.op # "brief" PROVE FALSE
    <3>1. i + 1 = 1
      BY <1>2, <1>3, <2>1
    <3> QED
      BY <1>2, <3>1
  <2> QED
    BY <2>1
<1>5. \A i, j \in DOMAIN rest : rest[i].op = rest[j].op /\ rest[i].op # "brief" => i = j
  <2>1. ASSUME NEW i \in DOMAIN rest, NEW j \in DOMAIN rest,
               rest[i].op = rest[j].op, rest[i].op # "brief"
        PROVE  i = j
    <3>1. i + 1 = j + 1 /\ i \in Nat /\ j \in Nat
      BY <1>2, <1>3, <2>1
    <3> QED
      BY <3>1
  <2> QED
    BY <2>1
<1>6. /\ Whole(later) /\ Keeps(st, later)
      /\ later.mastery = st.mastery \/ w.op = "mastery"
      /\ later.weak = st.weak \/ w.op = "weak"
  <2>1. CASE w.op = "brief"
    BY <1>2, <2>1, PutBrief DEF later
  <2>2. CASE w.op = "weak"
    <3>1. st.weak = {}
      BY <1>2, <1>3, <2>2
    <3> QED
      BY <1>2, <2>2, <3>1, PutWeakPoints DEF later
  <2>3. CASE w.op = "mastery"
    <3>1. st.mastery = NoRow
      BY <1>2, <1>3, <2>3
    <3>2. PICK id \in OldSessions : w.row = [applied |-> {}, ema |-> <<id>>]
      BY <1>2, <1>3, <2>3
    <3>3. w.row.applied = {} /\ w.row.ema = <<id>> /\ st.mastery.ema = <<>>
      BY <3>1, <3>2 DEF NoRow
    <3>4. <<id>> \in Seq(Ids)
      BY DEF Ids
    <3>5. IsPrefix(st.mastery.ema, w.row.ema)
      BY <3>3, <3>4, PrefixOfEmpty
    <3>6. IsInjective(<<id>>) /\ Range(<<id>>) = {id}
      BY DEF IsInjective, Range
    <3>7. \A s \in Sessions : s # id
      BY OldSessionsAssumption
    <3>8. RowOnce(w.row)
      BY <3>3, <3>6, <3>7 DEF RowOnce
    <3> QED
      BY <1>2, <2>3, <3>5, <3>8, PutScores DEF later
  <2> QED
    BY <1>2, <1>3, <2>1, <2>2, <2>3
<1>7. \A i \in DOMAIN rest :
        /\ rest[i].op \in {"mastery", "weak", "brief"}
        /\ rest[i].op = "mastery" =>
               /\ later.mastery = NoRow
               /\ \E id \in OldSessions : rest[i].row = [applied |-> {}, ema |-> <<id>>]
        /\ rest[i].op = "weak" => later.weak = {}
  <2>1. ASSUME NEW i \in DOMAIN rest
        PROVE  /\ rest[i].op \in {"mastery", "weak", "brief"}
               /\ rest[i].op = "mastery" =>
                      /\ later.mastery = NoRow
                      /\ \E id \in OldSessions : rest[i].row = [applied |-> {}, ema |-> <<id>>]
               /\ rest[i].op = "weak" => later.weak = {}
    <3>1. rest[i] = hand[i + 1] /\ i + 1 \in DOMAIN hand
      BY <1>2
    <3>2. rest[i].op = "mastery" => w.op # "mastery"
      BY <1>4
    <3>3. rest[i].op = "weak" => w.op # "weak"
      BY <1>4
    <3> QED
      BY <1>3, <1>6, <3>1, <3>2, <3>3
  <2> QED
    BY <2>1
<1>8. MigrateHand(later, q)
  BY <1>5, <1>7 DEF MigrateHand, rest
<1> QED
  BY <1>6, <1>8 DEF w, later

\* The next write of any operation takes nothing away, and leaves the rest of
\* its writes right for the memory it made.
LEMMA WriteFits ==
    ASSUME NEW st, Whole(st), NEW r \in Requests, r.hand # <<>>, Kind(r), Hand(st, r),
           r.op \notin {"snapshot", "mark"},
           NEW q, q.op = r.op, q.session = r.session, q.hand = Tail(r.hand)
    PROVE  /\ Whole(Apply(st, Head(r.hand))) /\ Keeps(st, Apply(st, Head(r.hand)))
           /\ Hand(Apply(st, Head(r.hand)), q)
<1> DEFINE later == Apply(st, Head(r.hand))
<1>1. CASE r.op = "brief"
  <2> DEFINE w == Head(r.hand)
  <2>1. r.hand = <<Brief(r.session)>>
    BY <1>1 DEF Hand, BriefHand
  <2>2. w \in Puts
    BY RequestFields, RestOfHand
  <2>3. w.op = "brief" /\ w.id = r.session /\ q.hand = <<>>
    BY <2>1 DEF Brief
  <2> HIDE DEF w
  <2>4. /\ Whole(Apply(st, w)) /\ Keeps(st, Apply(st, w))
        /\ r.session \in Counted(Apply(st, w))
    BY <2>2, <2>3, PutBrief
  <2>5. Hand(Apply(st, w), q)
    BY <1>1, <2>3, <2>4 DEF Hand, BriefHand, HasBrief
  <2> QED
    BY <2>4, <2>5 DEF w
<1>2. CASE r.op = "error"
  <2>1. r.session \in Sessions /\ ErrorHand(st, r)
    BY <1>2 DEF Kind, Hand
  <2>2. Whole(later) /\ Keeps(st, later) /\ ErrorHand(later, q)
    BY <2>1, ErrorWriteFits
  <2> QED
    BY <1>2, <2>2 DEF Hand
<1>3. CASE r.op = "semantic"
  <2>1. r.session \in Sessions /\ SemanticHand(st, r)
    BY <1>3 DEF Kind, Hand
  <2>2. Whole(later) /\ Keeps(st, later) /\ SemanticHand(later, q)
    BY <2>1, SemanticWriteFits
  <2> QED
    BY <1>3, <2>2 DEF Hand
<1>4. CASE r.op = "schedule"
  <2>1. r.session \in Sessions /\ ScheduleHand(st, r)
    BY <1>4 DEF Kind, Hand
  <2>2. Whole(later) /\ Keeps(st, later) /\ ScheduleHand(later, q)
    BY <2>1, ScheduleWriteFits
  <2> QED
    BY <1>4, <2>2 DEF Hand
<1>5. CASE r.op = "archive"
  <2>1. ArchiveHand(st, r)
    BY <1>5 DEF Hand
  <2>2. Whole(later) /\ Keeps(st, later) /\ ArchiveHand(later, q)
    BY <2>1, ArchiveWriteFits
  <2> QED
    BY <1>5, <2>2 DEF Hand
<1>6. CASE r.op = "migrate"
  <2>1. MigrateHand(st, r)
    BY <1>6 DEF Hand
  <2>2. Whole(later) /\ Keeps(st, later) /\ MigrateHand(later, q)
    BY <2>1, MigrateWriteFits
  <2> QED
    BY <1>6, <2>2 DEF Hand
<1> QED
  BY <1>1, <1>2, <1>3, <1>4, <1>5, <1>6 DEF Kind

-----------------------------------------------------------------------------
(***************************************************************************)
(* What an operation has in hand when it has read its rows                 *)
(***************************************************************************)
\* Two sequences, one after the other.
LEMMA Joined ==
    ASSUME NEW S, NEW s \in Seq(S), NEW t \in Seq(S)
    PROVE  /\ s \o t \in Seq(S) /\ Len(s \o t) = Len(s) + Len(t)
           /\ \A i \in 1..Len(s) : (s \o t)[i] = s[i]
           /\ \A i \in (Len(s) + 1)..(Len(s) + Len(t)) : (s \o t)[i] = t[i - Len(s)]
           /\ <<>> \o t = t
OBVIOUS

\* One element after another, as a sequence of two.
LEMMA OneAndOne ==
    ASSUME NEW S, NEW s \in Seq(S), NEW t \in Seq(S), Len(s) = 1, Len(t) = 1
    PROVE  s \o t = <<s[1], t[1]>>
<1> DEFINE v == s \o t
           u == <<s[1], t[1]>>
<1>1. 2 \in (Len(s) + 1)..(Len(s) + Len(t)) /\ 1 \in 1..Len(s) /\ 2 - Len(s) = 1
  OBVIOUS
<1>2. (s \o t)[2] = t[2 - Len(s)]
  BY <1>1, Joined
<1>3. (s \o t)[1] = s[1] /\ s \o t \in Seq(S) /\ Len(s \o t) = 2
  BY <1>1, Joined
<1>4. s[1] \in S /\ t[1] \in S
  OBVIOUS
<1>5. u \in Seq(S) /\ Len(u) = 2 /\ u[1] = s[1] /\ u[2] = t[1]
  BY <1>4
<1>6. v \in Seq(S) /\ Len(v) = 2 /\ v[1] = s[1] /\ v[2] = t[1]
  BY <1>1, <1>2, <1>3
<1> HIDE DEF u, v
<1>7. u = v
  BY <1>5, <1>6
<1> QED
  BY <1>7 DEF u, v

\* One write after another, and one after none.
LEMMA TwoInARow ==
    ASSUME NEW S, NEW x \in S, NEW y \in S
    PROVE  <<x>> \o <<y>> = <<x, y>> /\ <<x>> \o <<>> = <<x>> /\ <<x, y>> \in Seq(S)
<1>1. <<x>> \o <<y>> = <<x, y>>
  <2>1. /\ <<x>> \in Seq(S) /\ <<y>> \in Seq(S) /\ Len(<<x>>) = 1 /\ Len(<<y>>) = 1
        /\ <<x>>[1] = x /\ <<y>>[1] = y
    OBVIOUS
  <2> QED
    BY <2>1, OneAndOne
<1>2. <<x>> \o <<>> = <<x>>
  OBVIOUS
<1> QED
  BY <1>1, <1>2

\* No writes are writes.
LEMMA NothingToWrite == <<>> \in Seq(Puts) /\ <<>> \o <<>> = <<>>
OBVIOUS

\* Every session, old or new, has an id of the store.
LEMMA IdsOfSessions == Sessions \subseteq Ids /\ OldSessions \subseteq Ids
BY DEF Ids

\* The brief a commit prepares fits the store it read.
LEMMA BriefWritesFit ==
    ASSUME NEW st, Whole(st), NEW s \in Sessions, NEW q, q.session = s, q.hand = BriefWrites(st, s)
    PROVE  q.hand \in Seq(Puts) /\ BriefHand(st, q)
<1>1. Brief(s) \in Puts
  BY IdsOfSessions DEF Brief, Puts
<1>2. CASE s \in Counted(st)
  <2>1. q.hand = <<>>
    BY <1>2 DEF BriefWrites
  <2> QED
    BY <1>2, <2>1 DEF BriefHand, HasBrief
<1>3. CASE s \notin Counted(st)
  <2>1. q.hand = <<Brief(s)>>
    BY <1>3 DEF BriefWrites
  <2>2. <<Brief(s)>> \in Seq(Puts)
    BY <1>1
  <2> QED
    BY <2>1, <2>2 DEF BriefHand
<1> QED
  BY <1>2, <1>3

\* The error book a commit prepares fits the store it read.
LEMMA ErrorWritesFit ==
    ASSUME NEW st, Whole(st), NEW s \in Sessions, NEW q, q.session = s, q.hand = ErrorWrites(st, s)
    PROVE  q.hand \in Seq(Puts) /\ ErrorHand(st, q)
<1>1. MistakeOf(s) \in Sessions /\ Report[s].correct \in BOOLEAN
  BY MistakeIsASession
<1>2. PutError(s, "open") \in Puts /\ PutError(s, "resolved") \in Puts
  BY <1>1 DEF PutError, Puts
<1>3. <<PutError(s, "open")>> \in Seq(Puts) /\ <<PutError(s, "resolved")>> \in Seq(Puts)
  BY <1>2
<1>4. CASE ~ Report[s].correct
  <2>1. q.hand = AppendErrorWrites(st, MistakeOf(s))
    BY <1>4 DEF ErrorWrites
  <2>2. \/ q.hand = <<>> /\ st.errors[MistakeOf(s)] # "none"
        \/ q.hand = <<PutError(s, "open")>> /\ st.errors[MistakeOf(s)] = "none"
    BY <2>1 DEF AppendErrorWrites, PutError
  <2> QED
    BY <1>3, <2>2, NothingToWrite DEF ErrorHand, HasMistake
<1>5. CASE Report[s].correct
  <2>1. \/ q.hand = ResolveWrites(st, MistakeOf(s))
        \/ q.hand = <<>>
    BY <1>5 DEF ErrorWrites
  <2>2. q.hand = <<>> \/ q.hand = <<PutError(s, "resolved")>>
    BY <2>1 DEF ResolveWrites, PutError
  <2> QED
    BY <1>3, <1>5, <2>2, NothingToWrite DEF ErrorHand, HasMistake
<1> QED
  BY <1>4, <1>5

\* The scores and weak points a commit prepares fit the store it read.
LEMMA SemanticWritesFit ==
    ASSUME NEW st, Whole(st), NEW s \in Sessions, NEW q, q.session = s,
           q.hand = MasteryWrites(st, s) \o WeakWrites(st, s)
    PROVE  q.hand \in Seq(Puts) /\ SemanticHand(st, q)
<1>1. /\ st \in Stores /\ st.mastery \in Rows /\ RowOnce(st.mastery)
      /\ st.weak \in SUBSET Ids
  BY StoreFields DEF Whole, CountsOnce, RowOnce
<1>2. PutWeak(st, s) \in Puts
  BY <1>1, IdsOfSessions DEF PutWeak, Puts
<1>3. CASE s \in st.mastery.applied
  <2>1. MasteryWrites(st, s) = <<>> /\ HasScore(st, s)
    BY <1>1, <1>3 DEF MasteryWrites, RowOnce, HasScore
  <2>2. CASE Report[s].correct
    <3>1. WeakWrites(st, s) = <<>>
      BY <2>2 DEF WeakWrites
    <3>2. q.hand = <<>>
      BY <2>1, <3>1, NothingToWrite
    <3> QED
      BY <2>1, <2>2, <3>2, NothingToWrite DEF SemanticHand, HasWeak
  <2>3. CASE ~ Report[s].correct
    <3>1. WeakWrites(st, s) = <<PutWeak(st, s)>>
      BY <2>3 DEF WeakWrites, PutWeak
    <3>2. q.hand = <<PutWeak(st, s)>>
      BY <2>1, <3>1
    <3>3. q.hand \in Seq(Puts)
      BY <1>2, <3>2
    <3> QED
      BY <2>1, <3>2, <3>3 DEF SemanticHand
  <2> QED
    BY <2>2, <2>3
<1>4. CASE s \notin st.mastery.applied
  <2>1. PutMastery(st, s) \in Puts
    <3>1. Folded(st.mastery, s) \in Rows
      BY <1>1, <1>4, FoldsOnce
    <3> QED
      BY <3>1 DEF PutMastery, Puts
  <2>2. MasteryWrites(st, s) = <<PutMastery(st, s)>>
    BY <1>4 DEF MasteryWrites, PutMastery
  <2>3. CASE Report[s].correct
    <3>1. WeakWrites(st, s) = <<>>
      BY <2>3 DEF WeakWrites
    <3>2. q.hand = <<PutMastery(st, s)>>
      BY <2>2, <3>1
    <3>3. q.hand \in Seq(Puts)
      BY <2>1, <3>2
    <3> QED
      BY <1>4, <2>3, <3>2, <3>3 DEF SemanticHand, HasWeak
  <2>4. CASE ~ Report[s].correct
    <3>1. WeakWrites(st, s) = <<PutWeak(st, s)>>
      BY <2>4 DEF WeakWrites, PutWeak
    <3>2. q.hand = <<PutMastery(st, s), PutWeak(st, s)>>
      BY <1>2, <2>1, <2>2, <3>1, TwoInARow
    <3>3. q.hand \in Seq(Puts)
      BY <1>2, <2>1, <3>2
    <3> QED
      BY <1>4, <3>2, <3>3 DEF SemanticHand
  <2> QED
    BY <2>3, <2>4
<1> QED
  BY <1>3, <1>4

\* The schedule a commit prepares fits the store it read.
LEMMA ScheduleWritesFit ==
    ASSUME NEW st, Whole(st), NEW s \in Sessions, NEW q, q.session = s, q.hand = ScheduleWrites(st, s)
    PROVE  q.hand \in Seq(Puts) /\ ScheduleHand(st, q)
<1>1. st \in Stores /\ st.schedule \in Rows /\ RowOnce(st.schedule)
  BY StoreFields DEF Whole, CountsOnce, RowOnce
<1>2. CASE s \in st.schedule.applied
  <2>1. q.hand = <<>>
    BY <1>2 DEF ScheduleWrites
  <2> QED
    BY <2>1 DEF ScheduleHand
<1>3. CASE s \notin st.schedule.applied
  <2> DEFINE w == [op |-> "schedule", row |-> Folded(st.schedule, s)]
  <2>1. Folded(st.schedule, s) \in Rows
    BY <1>1, <1>3, FoldsOnce
  <2>2. w \in Puts
    BY <2>1 DEF Puts
  <2>3. q.hand = <<w>>
    BY <1>3 DEF ScheduleWrites
  <2>4. <<w>> \in Seq(Puts)
    BY <2>2
  <2> QED
    BY <1>3, <2>3, <2>4 DEF ScheduleHand
<1> QED
  BY <1>2, <1>3

\* The deletes of these briefs, in their order.
Deletes(ids) == [i \in DOMAIN ids |-> Delete(ids[i])]

\* Each archived brief is deleted by one write.
LEMMA DeletesAre ==
    ASSUME NEW ids \in Seq(Ids)
    PROVE  /\ Deletes(ids) \in Seq(Puts) /\ Len(Deletes(ids)) = Len(ids)
           /\ \A i \in 1..Len(ids) : /\ Deletes(ids)[i].op = "delete"
                                     /\ Deletes(ids)[i].id \in Range(ids)
<1>1. Len(ids) \in Nat /\ DOMAIN ids = 1..Len(ids) /\ \A i \in 1..Len(ids) : ids[i] \in Ids
  OBVIOUS
<1>2. \A i \in 1..Len(ids) : Delete(ids[i]) \in Puts
  BY <1>1 DEF Delete, Puts
<1>3. Deletes(ids) = [i \in 1..Len(ids) |-> Delete(ids[i])]
  BY <1>1 DEF Deletes
<1>4. Deletes(ids) \in Seq(Puts) /\ Len(Deletes(ids)) = Len(ids)
  BY <1>1, <1>2, <1>3
<1>5. \A i \in 1..Len(ids) : Deletes(ids)[i] = Delete(ids[i]) /\ ids[i] \in Range(ids)
  BY <1>1, <1>3 DEF Range
<1>6. \A id : Delete(id).op = "delete" /\ Delete(id).id = id
  BY DEF Delete
<1>7. ASSUME NEW i \in 1..Len(ids)
      PROVE  Deletes(ids)[i].op = "delete" /\ Deletes(ids)[i].id \in Range(ids)
  <2>1. Deletes(ids)[i] = Delete(ids[i]) /\ ids[i] \in Range(ids)
    BY Zenon, <1>5
  <2>2. Delete(ids[i]).op = "delete" /\ Delete(ids[i]).id = ids[i]
    BY Zenon, <1>6
  <2> QED
    BY Zenon, <2>1, <2>2
<1> QED
  BY Zenon, <1>4, <1>7

\* The first half of the briefs is some of them.
LEMMA HalfOf ==
    ASSUME NEW S, NEW s \in Seq(S)
    PROVE  /\ SubSeq(s, 1, Len(s) \div 2) \in Seq(S)
           /\ Range(SubSeq(s, 1, Len(s) \div 2)) \subseteq Range(s)
<1> DEFINE n == Len(s) \div 2
           half == SubSeq(s, 1, n)
<1>1. Len(s) \in Nat /\ n \in Nat /\ n <= Len(s) /\ DOMAIN s = 1..Len(s)
  OBVIOUS
<1> HIDE DEF n
<1>2. half \in Seq(S) /\ Len(half) = n /\ \A i \in 1..n : half[i] = s[i]
  BY <1>1
<1>3. DOMAIN half = 1..n
  BY <1>2
<1> HIDE DEF half
<1>4. Range(half) \subseteq Range(s)
  BY <1>1, <1>2, <1>3 DEF Range
<1> QED
  BY <1>2, <1>4 DEF half, n

\* The writes an archiving prepares fit the store it read.
LEMMA ArchiveWritesFit ==
    ASSUME NEW st, Whole(st), NEW q, q.hand = ArchiveWrites(st)
    PROVE  q.hand \in Seq(Puts) /\ ArchiveHand(st, q)
<1> DEFINE left == Only(st.briefs, Archived(st))
           raw == Only(st.briefs, Ids \ Archived(st))
           oldest == SubSeq(raw, 1, Len(raw) \div 2)
           w == [op |-> "archive", ids |-> Range(oldest)]
           before == Deletes(left)
           after == Deletes(oldest)
           all == before \o <<w>> \o after
<1>1. st.briefs \in Seq(Ids)
  BY StoreFields DEF Whole
<1>2. left \in Seq(Ids) /\ Range(left) \subseteq Archived(st)
  BY <1>1, OnlyThose
<1>3. raw \in Seq(Ids) /\ Range(raw) \cap Archived(st) = {}
  BY <1>1, OnlyThose
<1>4. q.hand = before \/ q.hand = all
  BY DEF ArchiveWrites, Deletes
<1> HIDE DEF raw
<1>5. oldest \in Seq(Ids) /\ Range(oldest) \cap Archived(st) = {}
  BY <1>3, HalfOf
<1> HIDE DEF left, oldest
<1>6. w \in Puts
  <2>1. Range(oldest) \subseteq Ids
    BY <1>5 DEF Range
  <2> QED
    BY <2>1 DEF Puts
<1>7. w.op = "archive" /\ w.ids = Range(oldest)
  OBVIOUS
<1>8. /\ before \in Seq(Puts)
      /\ \A i \in 1..Len(before) : before[i].op = "delete" /\ before[i].id \in Archived(st)
  BY <1>2, DeletesAre
<1>9. /\ after \in Seq(Puts)
      /\ \A i \in 1..Len(after) : after[i].op = "delete" /\ after[i].id \in w.ids
  BY <1>5, <1>7, DeletesAre
<1> HIDE DEF w, before, after
<1>10. Len(before) \in Nat /\ Len(after) \in Nat /\ DOMAIN before = 1..Len(before)
  BY <1>8, <1>9
<1>11. CASE q.hand = before
  BY <1>8, <1>10, <1>11 DEF ArchiveHand
<1>12. CASE q.hand = all
  <2> DEFINE n == Len(before)
             m == Len(after)
  <2>1. <<w>> \in Seq(Puts) /\ Len(<<w>>) = 1 /\ <<w>>[1] = w
    BY <1>6
  <2>2. /\ all \in Seq(Puts) /\ Len(all) = n + 1 + m
        /\ \A i \in 1..n : all[i] = before[i]
        /\ all[n + 1] = w
        /\ \A i \in (n + 2)..(n + 1 + m) : all[i] = after[i - (n + 1)]
    <3> DEFINE mid == before \o <<w>>
    <3>1. /\ mid \in Seq(Puts) /\ Len(mid) = n + 1
          /\ \A i \in 1..n : mid[i] = before[i]
          /\ mid[n + 1] = w
      BY <1>8, <1>10, <2>1
    <3> HIDE DEF mid
    <3>2. /\ mid \o after \in Seq(Puts) /\ Len(mid \o after) = n + 1 + m
          /\ \A i \in 1..(n + 1) : (mid \o after)[i] = mid[i]
          /\ \A i \in (n + 2)..(n + 1 + m) : (mid \o after)[i] = after[i - (n + 1)]
      BY <1>9, <1>10, <3>1
    <3>3. n + 1 \in 1..(n + 1) /\ \A i \in 1..n : i \in 1..(n + 1)
      BY <1>10
    <3> QED
      BY <3>1, <3>2, <3>3 DEF mid
  <2> HIDE DEF all
  <2>3. DOMAIN all = 1..(n + 1 + m)
    BY <2>2
  <2>4. n \in Nat /\ m \in Nat
    BY <1>10
  <2> HIDE DEF n, m
  <2>5. ASSUME NEW i \in DOMAIN all
        PROVE  \/ i # n + 1 /\ all[i].op = "delete" /\ all[i].id \in Archived(st)
               \/ i = n + 1 /\ all[i] = w
               \/ i > n + 1 /\ all[i].op = "delete" /\ all[i].id \in w.ids
    <3>1. CASE i \in 1..n
      BY <1>8, <2>2, <2>4, <3>1 DEF n
    <3>2. CASE i = n + 1
      BY <2>2, <3>2
    <3>3. CASE i \in (n + 2)..(n + 1 + m)
      <4>1. i - (n + 1) \in 1..m /\ i > n + 1
        BY <2>4, <3>3
      <4> QED
        BY <1>9, <2>2, <3>3, <4>1 DEF m
    <3> QED
      BY <2>3, <2>4, <3>1, <3>2, <3>3
  <2>6. n + 1 \in DOMAIN all /\ all[n + 1] = w
    BY <2>2, <2>3, <2>4
  <2>7. \A i \in DOMAIN all :
            /\ all[i].op \in {"archive", "delete"}
            /\ all[i].op = "archive" => i = n + 1 /\ all[i].ids \cap Archived(st) = {}
            /\ all[i].op = "delete" =>
                   \/ all[i].id \in Archived(st)
                   \/ \E j \in DOMAIN all :
                          j < i /\ all[j].op = "archive" /\ all[i].id \in all[j].ids
    <3>1. ASSUME NEW i \in DOMAIN all
          PROVE  /\ all[i].op \in {"archive", "delete"}
                 /\ all[i].op = "archive" => i = n + 1 /\ all[i].ids \cap Archived(st) = {}
                 /\ all[i].op = "delete" =>
                        \/ all[i].id \in Archived(st)
                        \/ \E j \in DOMAIN all :
                               j < i /\ all[j].op = "archive" /\ all[i].id \in all[j].ids
      <4>1. i > n + 1 => n + 1 < i
        BY <2>3, <2>4
      <4> QED
        BY <1>5, <1>7, <2>5, <2>6, <4>1
    <3> QED
      BY <3>1
  <2> QED
    BY <1>12, <2>2, <2>7 DEF ArchiveHand
<1> QED
  BY <1>4, <1>11, <1>12

\* The writes a migration prepares fit the store it read.
LEMMA MigrateWritesFit ==
    ASSUME NEW st, Whole(st), NEW q, q.hand = MigrateWrites(st)
    PROVE  q.hand \in Seq(Puts) /\ MigrateHand(st, q)
<1> DEFINE old == st.legacy
           first == [op |-> "mastery", row |-> [applied |-> {}, ema |-> <<old[1]>>]]
           second == [op |-> "weak", row |-> {old[1]}]
           briefs == [i \in DOMAIN old |-> Brief(old[i])]
           all == <<first, second>> \o briefs
<1>1. old \in Seq(OldSessions)
  BY StoreFields DEF Whole
<1>2. CASE q.hand = <<>>
  BY <1>2 DEF MigrateHand
<1>3. CASE q.hand # <<>>
  <2>1. q.hand = all /\ old # <<>> /\ st.mastery = NoRow /\ st.weak = {}
    BY <1>3 DEF MigrateWrites
  <2> HIDE DEF old
  <2>2. Len(old) \in Nat /\ DOMAIN old = 1..Len(old) /\ \A i \in 1..Len(old) : old[i] \in OldSessions
    BY <1>1
  <2>3. old[1] \in OldSessions
    <3>1. Len(old) # 0
      BY <1>1, <2>1
    <3> QED
      BY <2>2, <3>1
  <2>4. first \in Puts /\ second \in Puts
    <3>1. <<old[1]>> \in Seq(Ids) /\ {old[1]} \in SUBSET Ids
      BY <2>3, IdsOfSessions
    <3>2. [applied |-> {}, ema |-> <<old[1]>>] \in Rows
      BY <3>1 DEF Rows
    <3> QED
      BY <3>1, <3>2 DEF Puts
  <2>5. /\ first.op = "mastery" /\ second.op = "weak"
        /\ first.row = [applied |-> {}, ema |-> <<old[1]>>]
    OBVIOUS
  <2>6. \A i \in 1..Len(old) : Brief(old[i]) \in Puts
    BY <2>2, IdsOfSessions DEF Brief, Puts
  <2>7. /\ briefs \in Seq(Puts) /\ Len(briefs) = Len(old)
        /\ \A i \in 1..Len(briefs) : briefs[i].op = "brief"
    <3>1. briefs = [i \in 1..Len(old) |-> Brief(old[i])]
      BY <2>2
    <3>2. briefs \in Seq(Puts) /\ Len(briefs) = Len(old)
      BY <2>2, <2>6, <3>1
    <3>3. \A i \in 1..Len(old) : briefs[i] = Brief(old[i])
      BY <3>1
    <3> QED
      BY <3>2, <3>3 DEF Brief
  <2> HIDE DEF first, second, briefs
  <2>8. Len(briefs) \in Nat
    BY <2>7
  <2>9. /\ all \in Seq(Puts) /\ DOMAIN all = 1..(2 + Len(briefs))
        /\ all[1] = first /\ all[2] = second
        /\ \A i \in 3..(2 + Len(briefs)) : all[i] = briefs[i - 2]
    <3> DEFINE two == <<first, second>>
    <3>1. two \in Seq(Puts) /\ Len(two) = 2 /\ two[1] = first /\ two[2] = second
      BY <2>4
    <3> HIDE DEF two
    <3>2. /\ two \o briefs \in Seq(Puts) /\ Len(two \o briefs) = 2 + Len(briefs)
          /\ \A i \in 1..2 : (two \o briefs)[i] = two[i]
          /\ \A i \in 3..(2 + Len(briefs)) : (two \o briefs)[i] = briefs[i - 2]
      <4>1. /\ two \o briefs \in Seq(Puts) /\ Len(two \o briefs) = Len(two) + Len(briefs)
            /\ \A i \in 1..Len(two) : (two \o briefs)[i] = two[i]
            /\ \A i \in (Len(two) + 1)..(Len(two) + Len(briefs)) :
                   (two \o briefs)[i] = briefs[i - Len(two)]
        <5>1. two \in Seq(Puts) /\ briefs \in Seq(Puts)
          BY <2>7, <3>1
        <5> QED
          BY ONLY <5>1, Joined
      <4>2. 2 + 1 = 3
        OBVIOUS
      <4> QED
        BY <3>1, <4>1, <4>2
    <3>3. DOMAIN (two \o briefs) = 1..(2 + Len(briefs))
      BY <3>2
    <3> QED
      BY <3>1, <3>2, <3>3 DEF two
  <2> HIDE DEF all
  <2>10. ASSUME NEW i \in DOMAIN all
         PROVE  \/ i = 1 /\ all[i] = first
                \/ i = 2 /\ all[i] = second
                \/ i \notin {1, 2} /\ all[i].op = "brief"
    <3>1. CASE i \in {1, 2}
      BY <2>9, <3>1
    <3>2. CASE i \notin {1, 2}
      <4>1. i \in 3..(2 + Len(briefs)) /\ i - 2 \in 1..Len(briefs)
        BY <2>8, <2>9, <3>2
      <4> QED
        BY <2>7, <2>9, <3>2, <4>1
    <3> QED
      BY <3>1, <3>2
  <2>11. \A i \in DOMAIN all :
            /\ all[i].op \in {"mastery", "weak", "brief"}
            /\ all[i].op = "mastery" =>
                   /\ st.mastery = NoRow
                   /\ \E id \in OldSessions : all[i].row = [applied |-> {}, ema |-> <<id>>]
            /\ all[i].op = "weak" => st.weak = {}
    BY <2>1, <2>3, <2>5, <2>10
  <2>12. \A i, j \in DOMAIN all : all[i].op = all[j].op /\ all[i].op # "brief" => i = j
    BY <2>5, <2>10
  <2> QED
    BY <2>1, <2>9, <2>11, <2>12 DEF MigrateHand
<1> QED
  BY <1>2, <1>3

\* What an operation has in hand when it has read its rows is right for them.
LEMMA WritesFit ==
    ASSUME NEW st, Whole(st), NEW r \in Requests, Kind(r), r.op \notin {"snapshot", "mark"},
           NEW q, q.op = r.op, q.session = r.session, q.hand = Writes(st, r.op, r.session)
    PROVE  q.hand \in Seq(Puts) /\ Hand(st, q)
<1> DEFINE s == r.session
<1>1. CASE r.op = "brief"
  <2>1. s \in Sessions /\ q.hand = BriefWrites(st, s)
    BY <1>1 DEF Kind, Writes
  <2> QED
    BY <1>1, <2>1, BriefWritesFit DEF Hand
<1>2. CASE r.op = "error"
  <2>1. s \in Sessions /\ q.hand = ErrorWrites(st, s)
    BY <1>2 DEF Kind, Writes
  <2> QED
    BY <1>2, <2>1, ErrorWritesFit DEF Hand
<1>3. CASE r.op = "semantic"
  <2>1. s \in Sessions /\ q.hand = MasteryWrites(st, s) \o WeakWrites(st, s)
    BY <1>3 DEF Kind, Writes
  <2> QED
    BY <1>3, <2>1, SemanticWritesFit DEF Hand
<1>4. CASE r.op = "schedule"
  <2>1. s \in Sessions /\ q.hand = ScheduleWrites(st, s)
    BY <1>4 DEF Kind, Writes
  <2> QED
    BY <1>4, <2>1, ScheduleWritesFit DEF Hand
<1>5. CASE r.op = "archive"
  <2>1. q.hand = ArchiveWrites(st)
    BY <1>5 DEF Writes
  <2> QED
    BY <1>5, <2>1, ArchiveWritesFit DEF Hand
<1>6. CASE r.op = "migrate"
  <2>1. q.hand = MigrateWrites(st)
    BY <1>6 DEF Writes
  <2> QED
    BY <1>6, <2>1, MigrateWritesFit DEF Hand
<1> QED
  BY <1>1, <1>2, <1>3, <1>4, <1>5, <1>6 DEF Kind

-----------------------------------------------------------------------------
(***************************************************************************)
(* Requests                                                                *)
(***************************************************************************)
LEMMA IdleIs ==
    /\ Idle \in Requests /\ Idle.op = "idle" /\ Idle.stage = "gate" /\ Idle.home = None
    /\ Idle.kind = None
BY NothingToWrite DEF Idle, Requests, Ops, Stages

\* Where a request stands that has come to the operation op.
Stands(q, r, op, inPostgres) ==
    /\ q \in Requests
    /\ \/ q = Idle
       \/ /\ q.kind = r.kind /\ q.session = r.session /\ q.home = r.home
          /\ \/ op = "snapshot" /\ ~ inPostgres /\ q.op = "snapshot" /\ q.stage = "copy"
             \/ /\ op = "snapshot" /\ inPostgres /\ r.kind = "commit"
                /\ q.op = "mark" /\ q.stage = "mark"
             \/ op = "mark" /\ q.op = "mark" /\ q.stage = "mark"
             \/ /\ op \in {"brief", "error", "semantic", "archive", "schedule", "migrate"}
                /\ q.op = op /\ q.stage = IF inPostgres THEN "gate" ELSE "lock"

\* A request that moves on within its operation stands well there.
LEMMA AtStands ==
    ASSUME postgres \in BOOLEAN, NEW r \in Requests, NEW op \in Ops
    PROVE  Stands(At(r, op), r, op, postgres)
<1> DEFINE next == IF op # "snapshot" \/ ~ postgres THEN op
                   ELSE IF r.kind = "commit" THEN "mark" ELSE "idle"
           stage == CASE next = "snapshot" -> "copy"
                      [] next = "mark"     -> "mark"
                      [] OTHER             -> IF postgres THEN "gate" ELSE "lock"
           q == [r EXCEPT !.op = next, !.stage = stage, !.hand = <<>>, !.copy = None]
<1>1. At(r, op) = IF next = "idle" THEN Idle ELSE q
  BY DEF At
<1>2. next \in Ops
  BY DEF Ops
<1>3. /\ next = "snapshot" => stage = "copy"
      /\ next = "mark" => stage = "mark"
      /\ next \notin {"snapshot", "mark"} => stage = IF postgres THEN "gate" ELSE "lock"
  OBVIOUS
<1>4. /\ next = op \/ (op = "snapshot" /\ postgres /\ next \in {"mark", "idle"})
      /\ next = "mark" /\ op = "snapshot" => r.kind = "commit"
      /\ op = "snapshot" /\ next = "snapshot" => ~ postgres
  <2>1. CASE op # "snapshot" \/ ~ postgres
    <3>1. next = op
      BY <2>1
    <3> HIDE DEF next
    <3> QED
      BY <2>1, <3>1
  <2>2. CASE op = "snapshot" /\ postgres
    <3>1. next = IF r.kind = "commit" THEN "mark" ELSE "idle"
      BY <2>2
    <3> HIDE DEF next
    <3> QED
      BY <2>2, <3>1
  <2> QED
    BY <2>1, <2>2
<1> HIDE DEF next, stage
<1>5. stage \in Stages
  BY <1>2, <1>3 DEF Stages
<1>6. /\ q \in Requests /\ q.op = next /\ q.stage = stage
      /\ q.kind = r.kind /\ q.session = r.session /\ q.home = r.home
  BY <1>2, <1>5, NothingToWrite DEF Requests
<1> HIDE DEF q
<1>7. CASE next = "idle"
  BY <1>1, <1>7, IdleIs DEF Stands
<1>8. CASE next # "idle"
  <2>1. At(r, op) = q
    BY <1>1, <1>8
  <2>2. \/ op = "snapshot" /\ ~ postgres /\ q.op = "snapshot" /\ q.stage = "copy"
        \/ op = "snapshot" /\ postgres /\ r.kind = "commit" /\ q.op = "mark" /\ q.stage = "mark"
        \/ op = "mark" /\ q.op = "mark" /\ q.stage = "mark"
        \/ /\ op \in {"brief", "error", "semantic", "archive", "schedule", "migrate"}
           /\ q.op = op /\ q.stage = IF postgres THEN "gate" ELSE "lock"
    BY <1>2, <1>3, <1>4, <1>6, <1>8 DEF Ops
  <2> QED
    BY <1>6, <2>1, <2>2 DEF Stands
<1> QED
  BY <1>7, <1>8

\* It satisfies the invariant when the memory has what the operations before
\* op have written, and so has what would survive, once op is the marker.
LEMMA StandsWell ==
    ASSUME NEW pg \in BOOLEAN, NEW st, NEW file, NEW r \in Requests, NEW op \in Ops,
           r.home \in Processes, NEW q, Stands(q, r, op, pg),
           NEW ahead, ahead.op = op, ahead.session = r.session, ahead.kind = r.kind,
           op # "idle" => Kind(ahead),
           r.kind = "commit" => SoFar(st, ahead),
           op = "mark" => HasReport(Lasting(pg, st, file), r.session) /\ r.kind = "commit"
    PROVE  RequestInv(q, pg, st, file)
<1>1. CASE q = Idle
  BY <1>1 DEF RequestInv
<1>2. CASE q # Idle
  <2>1. q.home \in Processes /\ q.kind = r.kind /\ q.session = r.session /\ op # "idle"
    BY <1>2 DEF Stands
  <2>2. q.op = op \/ (q.op = "mark" /\ op = "snapshot" /\ r.kind = "commit" /\ pg)
    <3>1. \/ op = "snapshot" /\ q.op = "snapshot"
          \/ op = "snapshot" /\ pg /\ r.kind = "commit" /\ q.op = "mark"
          \/ op = "mark" /\ q.op = "mark"
          \/ q.op = op
      BY <1>2, Zenon DEF Stands
    <3> QED
      BY <3>1
  <2>3. Kind(q)
    BY <2>1, <2>2 DEF Kind
  <2>4. Stage(q, pg) /\ q.stage \notin {"write", "dump"}
    BY <1>2 DEF Stands, Stage
  <2>5. q.kind = "commit" => SoFar(st, q)
    BY <2>1, <2>2 DEF SoFar
  <2>6. q.stage = "mark" => HasReport(Lasting(pg, st, file), q.session)
    <3>1. CASE op = "mark"
      BY <2>1, <3>1
    <3>2. CASE op # "mark" /\ q.stage = "mark"
      <4>1. op = "snapshot" /\ pg /\ r.kind = "commit"
        BY <1>2, <3>2 DEF Stands
      <4>2. HasReport(st, r.session)
        BY <4>1 DEF SoFar, HasReport
      <4> QED
        BY <2>1, <4>1, <4>2 DEF Lasting
    <3> QED
      BY <3>1, <3>2
  <2> QED
    BY <2>1, <2>3, <2>4, <2>5, <2>6 DEF RequestInv
<1> QED
  BY <1>1, <1>2

\* A request that neither writes nor dumps is not disturbed by those who do.
LEMMA RequestKept ==
    ASSUME NEW pg \in BOOLEAN, NEW st \in Stores, NEW file \in Stores,
           NEW st2 \in Stores, NEW file2 \in Stores,
           Keeps(st, st2), Keeps(Lasting(pg, st, file), Lasting(pg, st2, file2)),
           NEW r \in Requests, RequestInv(r, pg, st, file),
           r.stage = "write" => st2 = st,
           r.stage = "dump" => file2 = file
    PROVE  RequestInv(r, pg, st2, file2)
<1>1. CASE r = Idle
  BY <1>1 DEF RequestInv
<1>2. CASE r # Idle
  <2>1. /\ r.home \in Processes /\ Kind(r) /\ Stage(r, pg)
        /\ r.kind = "commit" => SoFar(st, r)
        /\ r.stage = "write" => Hand(st, r)
        /\ r.stage = "dump" => CopyInv(r, st, file)
        /\ r.stage = "mark" => HasReport(Lasting(pg, st, file), r.session)
    BY <1>2 DEF RequestInv
  <2>2. r.kind = "commit" => r.session \in Sessions
    BY <2>1 DEF Kind
  <2>3. r.kind = "commit" => SoFar(st2, r)
    BY <2>1, <2>2, ReportIsKept DEF SoFar
  <2>4. r.stage = "dump" => CopyInv(r, st2, file2)
    <3>1. ASSUME r.stage = "dump" PROVE Keeps(r.copy, st2)
      BY <2>1, <3>1, KeepsOnKeeping DEF CopyInv, Whole
    <3> QED
      BY <2>1, <3>1 DEF CopyInv
  <2>5. r.stage = "mark" => HasReport(Lasting(pg, st2, file2), r.session)
    <3>1. ASSUME r.stage = "mark" PROVE HasReport(Lasting(pg, st2, file2), r.session)
      <4>1. r.session \in Sessions
        BY <2>1, <3>1 DEF Stage, Kind
      <4>2. Lasting(pg, st, file) \in Stores /\ Lasting(pg, st2, file2) \in Stores
        BY DEF Lasting
      <4> QED
        BY <2>1, <3>1, <4>1, <4>2, ReportIsKept
    <3> QED
      BY <3>1
  <2> QED
    BY <2>1, <2>3, <2>4, <2>5 DEF RequestInv
<1> QED
  BY <1>1, <1>2

-----------------------------------------------------------------------------
(***************************************************************************)
(* The steps of one request                                                *)
(***************************************************************************)
\* A step that only moves one request keeps what is said of the memory.
LEMMA Quiet ==
    ASSUME MemoryInv, UNCHANGED <<postgres, store, disk, marked>>,
           NEW a \in Attempts, NEW q \in Requests, Go(a, q),
           RequestInv(q, postgres, store, disk)
    PROVE  req' \in [Attempts -> Requests] /\ StoresInv' /\ RequestsInv' /\ MarkedInv'
<1>1. req \in [Attempts -> Requests]
  BY DEF MemoryInv, TypeOK
<1>2. req' \in [Attempts -> Requests]
  BY <1>1 DEF Go
<1>3. StoresInv'
  BY DEF MemoryInv, StoresInv
<1>4. MarkedInv'
  BY DEF MemoryInv, MarkedInv
<1>5. ASSUME NEW b \in Attempts PROVE RequestInv(req[b], postgres, store, disk)'
  <2>1. RequestInv(req'[b], postgres, store, disk)
    <3>1. CASE b = a
      <4>1. req'[b] = q
        BY <1>1, <3>1 DEF Go
      <4> QED
        BY <4>1
    <3>2. CASE b # a
      <4>1. req'[b] = req[b]
        BY <1>1, <3>2 DEF Go
      <4>2. RequestInv(req[b], postgres, store, disk)
        BY DEF MemoryInv, RequestsInv
      <4> QED
        BY <4>1, <4>2
    <3> QED
      BY <3>1, <3>2
  <2> QED
    BY <2>1
<1>6. RequestsInv'
  BY <1>5 DEF RequestsInv
<1> QED
  BY <1>2, <1>3, <1>4, <1>6

\* A step after which the request holds nothing leaves the others what they
\* hold.
LEMMA LetsGo ==
    ASSUME MemoryInv, postgres' = postgres,
           NEW a \in Attempts, NEW q \in Requests, Go(a, q),
           q.stage \notin {"write", "dump"}, postgres => q.stage \notin {"late", "lock"},
           lock' # a, \A b \in Attempts \ {a} : lock' = b <=> lock = b,
           dumping' # a, \A b \in Attempts \ {a} : dumping' = b <=> dumping = b,
           postgres => \A p \in Processes :
               gate'[p] # a /\ \A b \in Attempts \ {a} : gate'[p] = b <=> gate[p] = b
    PROVE  LocksInv'
<1>1. req \in [Attempts -> Requests]
  BY DEF MemoryInv, TypeOK
<1>2. req'[a] = q /\ \A b \in Attempts \ {a} : req'[b] = req[b]
  BY <1>1 DEF Go
<1>3. OneWriter'
  <2>1. OneWriter
    BY DEF MemoryInv, LocksInv
  <2>2. \A b, c \in Attempts : req'[b].stage = "write" /\ req'[c].stage = "write" => b = c
    BY <1>2, <2>1 DEF OneWriter
  <2>3. ASSUME NEW b \in Attempts
        PROVE  lock' = b <=> (req'[b].stage = "write" /\ (postgres \/ req'[b].op # "migrate"))
    <3>1. CASE b = a
      BY <1>2, <3>1
    <3>2. CASE b # a
      <4>1. req'[b] = req[b] /\ (lock' = b <=> lock = b)
        BY <1>2, <3>2
      <4>2. lock = b <=> (req[b].stage = "write" /\ (postgres \/ req[b].op # "migrate"))
        BY <2>1 DEF OneWriter
      <4> QED
        BY <4>1, <4>2
    <3> QED
      BY <3>1, <3>2
  <2> QED
    BY <2>2, <2>3 DEF OneWriter
<1>4. OneDumper'
  BY <1>2 DEF MemoryInv, LocksInv, OneDumper
<1>5. OneThreadPerProcess'
  <2>1. SUFFICES ASSUME postgres
                 PROVE  \A p \in Processes, b \in Attempts :
                            gate'[p] = b <=> /\ req'[b].home = p /\ req'[b].op # "idle"
                                             /\ req'[b].stage = "late" \/ InThread(req'[b])
    BY DEF OneThreadPerProcess
  <2>2. ASSUME NEW p \in Processes, NEW b \in Attempts
        PROVE  gate'[p] = b <=> /\ req'[b].home = p /\ req'[b].op # "idle"
                                /\ req'[b].stage = "late" \/ InThread(req'[b])
    <3>1. CASE b = a
      BY <1>2, <2>1, <3>1 DEF InThread
    <3>2. CASE b # a
      <4>1. req'[b] = req[b] /\ (gate'[p] = b <=> gate[p] = b)
        BY <1>2, <2>1, <3>2
      <4>2. gate[p] = b <=> /\ req[b].home = p /\ req[b].op # "idle"
                            /\ req[b].stage = "late" \/ InThread(req[b])
        BY <2>1 DEF MemoryInv, LocksInv, OneThreadPerProcess
      <4> QED
        BY <4>1, <4>2
    <3> QED
      BY <3>1, <3>2
  <2> QED
    BY <2>2
<1> QED
  BY <1>3, <1>4, <1>5 DEF LocksInv

\* Where it stands, it holds nothing.
LEMMA StandsFree ==
    ASSUME NEW q, NEW r, NEW op, NEW pg \in BOOLEAN, Stands(q, r, op, pg)
    PROVE  q \in Requests /\ q.stage \notin {"write", "dump", "late"} /\ (pg => q.stage # "lock")
BY IdleIs DEF Stands

\* What is known of the request that takes a step.
LEMMA OfRequest ==
    ASSUME MemoryInv, NEW a \in Attempts, req[a].stage # "gate" \/ req[a].op # "idle"
    PROVE  /\ req[a] \in Requests /\ req[a] # Idle /\ req[a].home \in Processes
           /\ Kind(req[a]) /\ Stage(req[a], postgres)
           /\ req[a].kind = "commit" => SoFar(store, req[a])
           /\ req[a].stage = "write" => Hand(store, req[a])
           /\ req[a].stage = "dump" => CopyInv(req[a], store, disk)
           /\ req[a].stage = "mark" => HasReport(Lasting(postgres, store, disk), req[a].session)
<1>1. req[a] \in Requests
  BY DEF MemoryInv, TypeOK
<1>2. req[a] # Idle
  BY IdleIs
<1>3. RequestInv(req[a], postgres, store, disk)
  BY DEF MemoryInv, RequestsInv
<1> QED
  BY <1>1, <1>2, <1>3 DEF RequestInv

\* A request that holds the gate, the lock or the file holds no other.
LEMMA Holds ==
    ASSUME MemoryInv, NEW a \in Attempts
    PROVE  /\ lock = a => req[a].stage = "write"
           /\ dumping = a <=> req[a].stage = "dump"
           /\ postgres => \A p \in Processes :
                  gate[p] = a => /\ req[a].home = p /\ req[a].op # "idle"
                                 /\ req[a].stage \in {"late", "lock", "write"}
<1>1. lock = a => req[a].stage = "write"
  BY DEF MemoryInv, LocksInv, OneWriter
<1>2. dumping = a <=> req[a].stage = "dump"
  BY DEF MemoryInv, LocksInv, OneDumper
<1>3. postgres => \A p \in Processes :
          gate[p] = a => /\ req[a].home = p /\ req[a].op # "idle"
                         /\ req[a].stage = "late" \/ InThread(req[a])
  BY DEF MemoryInv, LocksInv, OneThreadPerProcess
<1> QED
  BY <1>1, <1>2, <1>3 DEF InThread

\* A request that starts breaks nothing.
LEMMA StartKeeps ==
    ASSUME MemoryInv, NEW a \in Attempts, Start(a)
    PROVE  MemoryInv'
<1>1. TypeOK /\ postgres \in BOOLEAN
  BY DEF MemoryInv, TypeOK
<1>2. PICK p \in Processes, what \in {<<"commit", s>> : s \in Sessions \ marked}
                                   \cup {<<"review", s>> : s \in Tutored}
                                   \cup {<<"read", None>>} :
          Go(a, At([Idle EXCEPT !.kind = what[1], !.session = what[2], !.home = p], First(what[1])))
  BY DEF Start
<1>3. UNCHANGED <<postgres, store, disk, gate, lock, dumping, marked>> /\ req[a] = Idle
  BY DEF Start
<1> DEFINE r == [Idle EXCEPT !.kind = what[1], !.session = what[2], !.home = p]
           op == First(what[1])
           q == At(r, op)
           ahead == [r EXCEPT !.op = op]
<1>4. \/ what[1] \in {"commit", "review"} /\ what[2] \in Sessions
      \/ what[1] = "read" /\ what[2] = None
  <2>1. \A s \in Sessions : /\ <<"commit", s>>[1] = "commit" /\ <<"commit", s>>[2] = s
                            /\ <<"review", s>>[1] = "review" /\ <<"review", s>>[2] = s
    OBVIOUS
  <2>2. <<"read", None>>[1] = "read" /\ <<"read", None>>[2] = None
    OBVIOUS
  <2> QED
    BY <1>2, <2>1, <2>2, TutoredAssumption
<1>5. /\ what[1] = "commit" => op = "brief"
      /\ what[1] = "review" => op = "schedule"
      /\ what[1] = "read" => op = "migrate"
  BY DEF First
<1> HIDE DEF op
<1>6. /\ r \in Requests /\ r.kind = what[1] /\ r.session = what[2] /\ r.home = p
      /\ ahead.kind = what[1] /\ ahead.session = what[2] /\ ahead.op = op
  BY <1>4, IdleIs DEF Idle, Requests
<1>7. op \in Ops /\ op \notin {"idle", "mark"}
  BY <1>4, <1>5 DEF Ops
<1> HIDE DEF r, ahead
<1>8. Stands(q, r, op, postgres)
  BY <1>1, <1>6, <1>7, AtStands
<1> HIDE DEF q
<1>9. RequestInv(q, postgres, store, disk)
  <2>1. Kind(ahead)
    BY <1>4, <1>5, <1>6 DEF Kind
  <2>2. r.kind = "commit" => SoFar(store, ahead)
    BY <1>5, <1>6 DEF SoFar
  <2> QED
    BY <1>1, <1>6, <1>7, <1>8, <2>1, <2>2, StandsWell
<1>10. q \in Requests /\ q.stage \notin {"write", "dump", "late"} /\ (postgres => q.stage # "lock")
  BY <1>1, <1>8, StandsFree
<1>11. Go(a, q)
  BY <1>2 DEF q, r, op
<1>12. req' \in [Attempts -> Requests] /\ StoresInv' /\ RequestsInv' /\ MarkedInv'
  BY <1>3, <1>9, <1>10, <1>11, Quiet
<1>13. lock # a /\ dumping # a /\ (postgres => \A h \in Processes : gate[h] # a)
  BY <1>3, Holds, IdleIs
<1>14. LocksInv'
  BY <1>3, <1>10, <1>11, <1>13, LetsGo
<1>15. TypeOK'
  BY <1>1, <1>3, <1>12 DEF TypeOK
<1> QED
  BY <1>12, <1>14, <1>15 DEF MemoryInv

\* An operation of a commit that has failed leaves what was written before.
LEMMA FailedKeeps ==
    ASSUME MemoryInv, NEW a \in Attempts, req[a].op \notin {"idle", "mark", "snapshot"},
           UNCHANGED <<postgres, store, disk, marked, dumping>>, Go(a, Failed(req[a])),
           lock' \in Attempts \cup {None}, gate' \in [Processes -> Attempts \cup {None}],
           lock' # a, \A b \in Attempts \ {a} : lock' = b <=> lock = b,
           postgres => \A p \in Processes :
               gate'[p] # a /\ \A b \in Attempts \ {a} : gate'[p] = b <=> gate[p] = b
    PROVE  MemoryInv'
<1> DEFINE r == req[a]
           q == Failed(r)
           ahead == [r EXCEPT !.op = "snapshot"]
<1>1. TypeOK /\ postgres \in BOOLEAN
  BY DEF MemoryInv, TypeOK
<1>2. /\ r \in Requests /\ r.home \in Processes /\ Kind(r) /\ Stage(r, postgres)
      /\ r.kind = "commit" => SoFar(store, r)
  BY OfRequest
<1>3. r.op \notin {"idle", "mark", "snapshot"} /\ Go(a, q)
  OBVIOUS
<1> HIDE DEF r
<1>4. dumping # a
  BY <1>2, <1>3, Holds DEF Stage, r
<1>5. /\ q \in Requests /\ q.stage \notin {"write", "dump"}
      /\ postgres => q.stage \notin {"late", "lock"}
      /\ RequestInv(q, postgres, store, disk)
  <2>1. CASE r.op = "archive"
    <3>1. q = At(r, "snapshot")
      BY <2>1 DEF Failed
    <3>2. "snapshot" \in Ops
      BY DEF Ops
    <3>3. Stands(q, r, "snapshot", postgres)
      BY <1>1, <1>2, <3>1, <3>2, AtStands
    <3>4. ahead.op = "snapshot" /\ ahead.session = r.session /\ ahead.kind = r.kind
      BY <1>2 DEF Requests
    <3> HIDE DEF q, ahead
    <3>5. Kind(ahead)
      BY <1>2, <2>1, <3>4 DEF Kind
    <3>6. r.kind = "commit" => SoFar(store, ahead)
      BY <1>2, <2>1, <3>4 DEF SoFar
    <3>7. RequestInv(q, postgres, store, disk)
      BY <1>1, <1>2, <3>2, <3>3, <3>4, <3>5, <3>6, StandsWell
    <3> QED
      BY <1>1, <3>3, <3>7, StandsFree
  <2>2. CASE r.op # "archive"
    <3>1. q = Idle
      BY <2>2 DEF Failed
    <3> QED
      BY <3>1, IdleIs DEF RequestInv
  <2> QED
    BY <2>1, <2>2
<1> HIDE DEF q
<1>6. req' \in [Attempts -> Requests] /\ StoresInv' /\ RequestsInv' /\ MarkedInv'
  BY <1>3, <1>5, Quiet
<1>7. LocksInv'
  BY <1>3, <1>4, <1>5, LetsGo
<1>8. TypeOK'
  BY <1>1, <1>6 DEF TypeOK
<1> QED
  BY <1>6, <1>7, <1>8 DEF MemoryInv

\* Nor does one that is cancelled while it waits for the gate,
LEMMA LoseGateKeeps ==
    ASSUME MemoryInv, NEW a \in Attempts, LoseGate(a)
    PROVE  MemoryInv'
<1>1. /\ req[a].op # "idle" /\ req[a].stage = "gate" /\ postgres /\ Go(a, Failed(req[a]))
      /\ UNCHANGED <<postgres, store, disk, gate, lock, dumping, marked>>
  BY DEF LoseGate
<1>2. req[a].op \notin {"mark", "snapshot"}
  BY <1>1, OfRequest DEF Stage
<1>3. lock # a /\ \A p \in Processes : gate[p] # a
  BY <1>1, Holds
<1>4. lock \in Attempts \cup {None} /\ gate \in [Processes -> Attempts \cup {None}]
  BY DEF MemoryInv, TypeOK
<1> QED
  BY <1>1, <1>2, <1>3, <1>4, FailedKeeps

\* nor a gate that comes back late,
LEMMA ReturnLateGateKeeps ==
    ASSUME MemoryInv, NEW a \in Attempts, ReturnLateGate(a)
    PROVE  MemoryInv'
<1>1. /\ req[a].stage = "late" /\ SetGate(req[a], None) /\ Go(a, Failed(req[a]))
      /\ UNCHANGED <<postgres, store, disk, lock, dumping, marked>>
  BY DEF ReturnLateGate
<1>2. /\ req[a].op \notin {"mark", "snapshot"} /\ req[a].home \in Processes /\ postgres
      /\ req[a].op # "idle"
  BY <1>1, OfRequest DEF Stage, Kind
<1>3. lock # a
  BY <1>1, Holds
<1>4. lock \in Attempts \cup {None} /\ gate \in [Processes -> Attempts \cup {None}]
  BY DEF MemoryInv, TypeOK
<1>5. gate' = [gate EXCEPT ![req[a].home] = None]
  BY <1>1 DEF SetGate
<1>6. gate' \in [Processes -> Attempts \cup {None}]
  BY <1>4, <1>5
<1>7. gate[req[a].home] = a
  BY <1>1, <1>2 DEF MemoryInv, LocksInv, OneThreadPerProcess
<1>8. ASSUME NEW p \in Processes
      PROVE  gate'[p] # a /\ \A b \in Attempts \ {a} : gate'[p] = b <=> gate[p] = b
  <2>1. CASE p = req[a].home
    <3>1. gate'[p] = None /\ gate[p] = a
      BY <1>4, <1>5, <1>7, <2>1
    <3> QED
      BY <3>1, NoneAssumption
  <2>2. CASE p # req[a].home
    <3>1. gate'[p] = gate[p]
      BY <1>4, <1>5, <2>2
    <3>2. gate[p] # a
      BY <1>2, <2>2, Holds
    <3> QED
      BY <3>1, <3>2
  <2> QED
    BY <2>1, <2>2
<1> QED
  BY <1>1, <1>2, <1>3, <1>4, <1>6, <1>8, FailedKeeps

\* What the end of a thread gives back is all that the request held.
LEMMA LetGoFrees ==
    ASSUME MemoryInv, NEW a \in Attempts, LetGo(a)
    PROVE  /\ lock' \in Attempts \cup {None} /\ gate' \in [Processes -> Attempts \cup {None}]
           /\ lock' # a /\ \A b \in Attempts \ {a} : lock' = b <=> lock = b
           /\ \A p \in Processes :
                  gate'[p] # a /\ \A b \in Attempts \ {a} : gate'[p] = b <=> gate[p] = b
<1>1. lock \in Attempts \cup {None} /\ gate \in [Processes -> Attempts \cup {None}]
  BY DEF MemoryInv, TypeOK
<1>2. a # None /\ \A b \in Attempts : b # None
  BY NoneAssumption
<1>3. lock' = IF lock = a THEN None ELSE lock
  BY DEF LetGo
<1>4. gate' = [p \in Processes |-> IF gate[p] = a THEN None ELSE gate[p]]
  BY DEF LetGo
<1>5. gate' \in [Processes -> Attempts \cup {None}]
  BY <1>1, <1>4
<1>6. ASSUME NEW p \in Processes
      PROVE  gate'[p] # a /\ \A b \in Attempts \ {a} : gate'[p] = b <=> gate[p] = b
  <2>1. gate'[p] = IF gate[p] = a THEN None ELSE gate[p]
    BY <1>4
  <2> QED
    BY <1>2, <2>1
<1> QED
  BY <1>1, <1>2, <1>3, <1>5, <1>6

\* nor an operation that fails,
LEMMA FailKeeps ==
    ASSUME MemoryInv, NEW a \in Attempts, Fail(a)
    PROVE  MemoryInv'
<1>1. /\ req[a].stage \in {"lock", "write"} /\ LetGo(a) /\ Go(a, Failed(req[a]))
      /\ UNCHANGED <<postgres, store, disk, dumping, marked>>
  BY DEF Fail, InThread
<1>2. req[a].op \notin {"idle", "mark", "snapshot"}
  BY <1>1, OfRequest DEF Stage, Kind
<1> QED
  BY <1>1, <1>2, LetGoFrees, FailedKeeps

\* nor one that is done,
LEMMA DoneKeeps ==
    ASSUME MemoryInv, NEW a \in Attempts, Done(a)
    PROVE  MemoryInv'
<1> DEFINE r == req[a]
           op == After(r.op)
           q == At(r, op)
           ahead == [r EXCEPT !.op = op]
<1>1. TypeOK /\ postgres \in BOOLEAN
  BY DEF MemoryInv, TypeOK
<1>2. /\ r.stage = "write" /\ r.hand = <<>> /\ LetGo(a) /\ Go(a, q)
      /\ UNCHANGED <<postgres, store, disk, dumping, marked>>
  BY DEF Done
<1>3. /\ r \in Requests /\ r.home \in Processes /\ Kind(r) /\ Stage(r, postgres)
      /\ r.kind = "commit" => SoFar(store, r)
      /\ Hand(store, r)
  BY <1>2, OfRequest
<1>4. dumping # a
  BY <1>2, Holds
<1> HIDE DEF r
<1>5. r.op \in {"brief", "error", "semantic", "archive", "schedule", "migrate"}
  BY <1>2, <1>3 DEF Stage, Kind
<1>6. /\ r.op = "brief" => op = "error"
      /\ r.op = "error" => op = "semantic"
      /\ r.op = "semantic" => op = "archive"
      /\ r.op \in {"archive", "schedule"} => op = "snapshot"
      /\ r.op = "migrate" => op = "idle"
  BY DEF After
<1> HIDE DEF op
<1>7. op \in Ops /\ op # "mark"
  BY <1>5, <1>6 DEF Ops
<1>8. ahead.op = op /\ ahead.session = r.session /\ ahead.kind = r.kind
  BY <1>3 DEF Requests
<1> HIDE DEF ahead
<1>9. Stands(q, r, op, postgres)
  BY <1>1, <1>3, <1>7, AtStands
<1> HIDE DEF q
<1>10. op # "idle" => Kind(ahead)
  BY <1>3, <1>5, <1>6, <1>8 DEF Kind
<1>11. r.kind = "commit" => SoFar(store, ahead)
  <2>1. SUFFICES ASSUME r.kind = "commit" PROVE SoFar(store, ahead)
    OBVIOUS
  <2>2. r.op = "brief" => HasBrief(store, r.session)
    BY <1>2, <1>3 DEF Hand, BriefHand
  <2>3. r.op = "error" => HasMistake(store, r.session)
    BY <1>2, <1>3 DEF Hand, ErrorHand
  <2>4. r.op = "semantic" => HasScore(store, r.session) /\ HasWeak(store, r.session)
    BY <1>2, <1>3 DEF Hand, SemanticHand
  <2>5. r.op \in {"brief", "error", "semantic", "archive"}
    BY <1>3, <1>5, <2>1 DEF Kind
  <2>6. SoFar(store, r)
    BY <1>3, <2>1
  <2> QED
    BY <1>6, <1>8, <2>2, <2>3, <2>4, <2>5, <2>6 DEF SoFar
<1>12. RequestInv(q, postgres, store, disk)
  BY <1>1, <1>3, <1>7, <1>8, <1>9, <1>10, <1>11, StandsWell
<1>13. q \in Requests /\ q.stage \notin {"write", "dump", "late"} /\ (postgres => q.stage # "lock")
  BY <1>1, <1>9, StandsFree
<1>14. req' \in [Attempts -> Requests] /\ StoresInv' /\ RequestsInv' /\ MarkedInv'
  BY <1>2, <1>12, <1>13, Quiet
<1>15. LocksInv'
  BY <1>2, <1>4, <1>13, LetGoFrees, LetsGo
<1>16. TypeOK'
  BY <1>1, <1>2, <1>14, LetGoFrees DEF TypeOK
<1> QED
  BY <1>14, <1>15, <1>16 DEF MemoryInv

\* nor a request that takes the gate,
LEMMA TakeGateKeeps ==
    ASSUME MemoryInv, NEW a \in Attempts, TakeGate(a)
    PROVE  MemoryInv'
<1> DEFINE r == req[a]
<1>1. TypeOK /\ postgres \in BOOLEAN /\ req \in [Attempts -> Requests]
      /\ gate \in [Processes -> Attempts \cup {None}]
  BY DEF MemoryInv, TypeOK
<1>2. /\ postgres /\ r.op # "idle" /\ r.stage = "gate" /\ gate[r.home] = None /\ SetGate(r, a)
      /\ UNCHANGED <<postgres, store, disk, lock, dumping, marked>>
  BY DEF TakeGate
<1>3. PICK stage \in {"lock", "late"} : Go(a, [r EXCEPT !.stage = stage])
  BY DEF TakeGate
<1> DEFINE q == [r EXCEPT !.stage = stage]
<1>4. /\ r \in Requests /\ r # Idle /\ r.home \in Processes /\ Kind(r) /\ Stage(r, postgres)
      /\ r.kind = "commit" => SoFar(store, r)
  BY <1>2, OfRequest
<1>5. gate' = [gate EXCEPT ![r.home] = a]
  BY <1>2 DEF SetGate
<1>6. Go(a, q)
  BY <1>3
<1>7. lock # a /\ dumping # a
  BY <1>2, Holds
<1>8. req'[a] = q /\ \A b \in Attempts \ {a} : req'[b] = req[b]
  BY <1>1, <1>6 DEF Go
<1> HIDE DEF r
<1>9. /\ q \in Requests /\ q.stage = stage /\ q.op = r.op /\ q.home = r.home
      /\ q.kind = r.kind /\ q.session = r.session
  BY <1>3, <1>4 DEF Requests, Stages
<1> HIDE DEF q
<1>10. RequestInv(q, postgres, store, disk)
  <2>1. Kind(q)
    BY <1>4, <1>9 DEF Kind
  <2>2. Stage(q, postgres)
    BY <1>2, <1>3, <1>4, <1>9 DEF Stage
  <2>3. q.kind = "commit" => SoFar(store, q)
    BY <1>4, <1>9 DEF SoFar
  <2> QED
    BY <1>3, <1>4, <1>9, <2>1, <2>2, <2>3 DEF RequestInv
<1>11. req' \in [Attempts -> Requests] /\ StoresInv' /\ RequestsInv' /\ MarkedInv'
  BY <1>2, <1>6, <1>9, <1>10, Quiet
<1>12. OneWriter' /\ OneDumper'
  <2>1. OneWriter /\ OneDumper
    BY DEF MemoryInv, LocksInv
  <2>2. \A b \in Attempts : /\ req'[b].stage = "write" <=> req[b].stage = "write"
                            /\ req'[b].stage = "dump" <=> req[b].stage = "dump"
                            /\ req'[b].op = req[b].op
    BY <1>2, <1>3, <1>8, <1>9 DEF r
  <2> QED
    BY <1>2, <2>1, <2>2 DEF OneWriter, OneDumper
<1>13. ASSUME NEW p \in Processes, NEW b \in Attempts
       PROVE  gate'[p] = b <=> /\ req'[b].home = p /\ req'[b].op # "idle"
                               /\ req'[b].stage = "late" \/ InThread(req'[b])
  <2>1. gate[p] = b <=> /\ req[b].home = p /\ req[b].op # "idle"
                        /\ req[b].stage = "late" \/ InThread(req[b])
    BY <1>2 DEF MemoryInv, LocksInv, OneThreadPerProcess
  <2>2. CASE b = a
    <3>1. req'[b].home = r.home /\ req'[b].op # "idle" /\ (req'[b].stage = "late" \/ InThread(req'[b]))
      BY <1>2, <1>3, <1>8, <1>9, <2>2 DEF InThread
    <3>2. gate'[p] = a <=> p = r.home
      <4>1. ~ (gate[p] = a)
        BY <1>2, <2>1, <2>2 DEF InThread, r
      <4> QED
        BY <1>1, <1>4, <1>5, <4>1
    <3> QED
      BY <2>2, <3>1, <3>2
  <2>3. CASE b # a
    <3>1. req'[b] = req[b]
      BY <1>8, <2>3
    <3>2. gate'[p] = b <=> gate[p] = b
      <4>1. CASE p = r.home
        BY <1>1, <1>2, <1>5, <2>3, <4>1, NoneAssumption
      <4>2. CASE p # r.home
        BY <1>1, <1>5, <4>2
      <4> QED
        BY <4>1, <4>2
    <3> QED
      BY <2>1, <3>1, <3>2
  <2> QED
    BY <2>2, <2>3
<1>14. LocksInv'
  BY <1>12, <1>13 DEF LocksInv, OneThreadPerProcess
<1>15. gate' \in [Processes -> Attempts \cup {None}]
  BY <1>1, <1>5
<1>16. TypeOK'
  BY <1>1, <1>2, <1>11, <1>15 DEF TypeOK
<1> QED
  BY <1>11, <1>14, <1>16 DEF MemoryInv

\* nor one that takes the lock of the learner and reads the store.
LEMMA TakeLockKeeps ==
    ASSUME MemoryInv, NEW a \in Attempts, TakeLock(a)
    PROVE  MemoryInv'
<1> DEFINE r == req[a]
           hand == Writes(store, r.op, r.session)
           q == [r EXCEPT !.stage = "write", !.hand = hand]
<1>1. TypeOK /\ postgres \in BOOLEAN /\ req \in [Attempts -> Requests]
  BY DEF MemoryInv, TypeOK
<1>2. /\ r.stage = "lock" /\ lock = None /\ (~ postgres => LoopIsFree(a)) /\ Go(a, q)
      /\ lock' = IF postgres \/ r.op # "migrate" THEN a ELSE None
      /\ UNCHANGED <<postgres, store, disk, gate, dumping, marked>>
  BY DEF TakeLock
<1>3. /\ r \in Requests /\ r # Idle /\ r.home \in Processes /\ Kind(r) /\ Stage(r, postgres)
      /\ r.kind = "commit" => SoFar(store, r)
  BY <1>2, OfRequest
<1>4. dumping # a
  BY <1>2, Holds
<1>5. req'[a] = q /\ \A b \in Attempts \ {a} : req'[b] = req[b]
  BY <1>1, <1>2 DEF Go
<1>6. \A b \in Attempts : req[b].stage # "write"
  <2>1. ASSUME NEW b \in Attempts, req[b].stage = "write" PROVE FALSE
    <3>1. CASE postgres
      <4>1. lock = b
        BY <2>1, <3>1 DEF MemoryInv, LocksInv, OneWriter
      <4> QED
        BY <1>2, <4>1, NoneAssumption
    <3>2. CASE ~ postgres
      <4>1. b # a
        BY <1>2, <2>1
      <4> QED
        BY <1>2, <2>1, <3>2, <4>1 DEF LoopIsFree
    <3> QED
      BY <3>1, <3>2
  <2> QED
    BY <2>1
<1> HIDE DEF r
<1>7. r.op \notin {"snapshot", "mark"}
  BY <1>2, <1>3 DEF Stage
<1>8. /\ q.stage = "write" /\ q.op = r.op /\ q.home = r.home
      /\ q.kind = r.kind /\ q.session = r.session /\ q.hand = hand
  BY <1>3 DEF Requests
<1>9. Whole(store)
  BY DEF MemoryInv, StoresInv
<1>10. hand \in Seq(Puts) /\ Hand(store, q)
  <2> HIDE DEF q, hand
  <2>1. q.hand = Writes(store, r.op, r.session)
    BY <1>8 DEF hand
  <2> QED
    BY <1>3, <1>7, <1>8, <1>9, <2>1, WritesFit
<1>11. q \in Requests
  <2> HIDE DEF hand
  <2> QED
    BY <1>3, <1>10 DEF Requests, Stages
<1> HIDE DEF hand, q
<1>12. RequestInv(q, postgres, store, disk)
  <2>1. Kind(q)
    BY <1>3, <1>8 DEF Kind
  <2>2. Stage(q, postgres)
    BY <1>7, <1>8 DEF Stage
  <2>3. q.kind = "commit" => SoFar(store, q)
    BY <1>3, <1>8 DEF SoFar
  <2> QED
    BY <1>3, <1>8, <1>10, <2>1, <2>2, <2>3 DEF RequestInv
<1>13. req' \in [Attempts -> Requests] /\ StoresInv' /\ RequestsInv' /\ MarkedInv'
  BY <1>2, <1>11, <1>12, Quiet
<1>14. OneWriter'
  <2>1. \A b \in Attempts : req'[b].stage = "write" <=> b = a
    BY <1>5, <1>6, <1>8
  <2>2. a # None /\ \A b \in Attempts : b # None
    BY NoneAssumption
  <2>3. \A b \in Attempts :
            lock' = b <=> req'[b].stage = "write" /\ (postgres \/ req'[b].op # "migrate")
    BY <1>2, <1>5, <1>8, <2>1, <2>2
  <2> QED
    BY <1>2, <2>1, <2>3 DEF OneWriter
<1>15. OneDumper'
  <2>1. \A b \in Attempts : req'[b].stage = "dump" <=> req[b].stage = "dump"
    BY <1>2, <1>5, <1>8 DEF r
  <2> QED
    BY <1>2, <2>1 DEF MemoryInv, LocksInv, OneDumper
<1>16. OneThreadPerProcess'
  <2>1. \A b \in Attempts : /\ req'[b].home = req[b].home /\ req'[b].op = req[b].op
                            /\ InThread(req'[b]) <=> InThread(req[b])
                            /\ req'[b].stage = "late" <=> req[b].stage = "late"
    BY <1>2, <1>5, <1>8 DEF r, InThread
  <2> QED
    BY <1>2, <2>1 DEF MemoryInv, LocksInv, OneThreadPerProcess
<1>17. TypeOK'
  <2>1. lock' \in Attempts \cup {None}
    BY <1>2
  <2> QED
    BY <1>1, <1>2, <1>13, <2>1 DEF TypeOK
<1> QED
  BY <1>13, <1>14, <1>15, <1>16, <1>17 DEF MemoryInv, LocksInv

-----------------------------------------------------------------------------
(***************************************************************************)
(* The steps that change the memory, its file and the markers              *)
(***************************************************************************)
\* A step of one request that takes nothing away from the memory, nor from
\* what would survive, and is not in the way of a writer or a dumper.
LEMMA Grows ==
    ASSUME MemoryInv, postgres' = postgres, marked' = marked,
           NEW a \in Attempts, NEW q \in Requests, Go(a, q),
           Whole(store'), Whole(disk'), Keeps(store, store'),
           Keeps(Lasting(postgres, store, disk), Lasting(postgres, store', disk')),
           ~ postgres => Keeps(disk', store'),
           \A b \in Attempts \ {a} : /\ req[b].stage = "write" => store' = store
                                     /\ req[b].stage = "dump" => disk' = disk,
           RequestInv(q, postgres, store', disk')
    PROVE  req' \in [Attempts -> Requests] /\ StoresInv' /\ RequestsInv' /\ MarkedInv'
<1>1. TypeOK /\ postgres \in BOOLEAN /\ req \in [Attempts -> Requests] /\ marked \subseteq Sessions
  BY DEF MemoryInv, TypeOK
<1>2. req' \in [Attempts -> Requests]
  BY <1>1 DEF Go
<1>3. StoresInv'
  BY DEF StoresInv
<1>4. store \in Stores /\ disk \in Stores /\ store' \in Stores /\ disk' \in Stores
  BY DEF MemoryInv, StoresInv, Whole
<1>5. MarkedInv'
  <2>1. Lasting(postgres, store, disk) \in Stores /\ Lasting(postgres, store', disk') \in Stores
    BY <1>4 DEF Lasting
  <2>2. \A s \in marked : HasReport(Lasting(postgres, store', disk'), s)
    BY <1>1, <2>1, ReportIsKept DEF MemoryInv, MarkedInv
  <2> QED
    BY <2>2 DEF MarkedInv
<1>6. ASSUME NEW b \in Attempts PROVE RequestInv(req[b], postgres, store, disk)'
  <2>1. RequestInv(req'[b], postgres, store', disk')
    <3>1. CASE b = a
      <4>1. req'[b] = q
        BY <1>1, <3>1 DEF Go
      <4> QED
        BY <4>1
    <3>2. CASE b # a
      <4>1. req'[b] = req[b]
        BY <1>1, <3>2 DEF Go
      <4>2. RequestInv(req[b], postgres, store, disk) /\ req[b] \in Requests
        BY <1>1 DEF MemoryInv, RequestsInv
      <4>3. RequestInv(req[b], postgres, store', disk')
        BY <1>1, <1>4, <3>2, <4>2, RequestKept
      <4> QED
        BY <4>1, <4>3
    <3> QED
      BY <3>1, <3>2
  <2> QED
    BY <2>1
<1>7. RequestsInv'
  BY <1>6 DEF RequestsInv
<1> QED
  BY <1>2, <1>3, <1>5, <1>7

\* The memory and its file are whole, and the file is not ahead.
LEMMA OfStores ==
    ASSUME MemoryInv
    PROVE  /\ postgres \in BOOLEAN /\ Whole(store) /\ Whole(disk)
           /\ store \in Stores /\ disk \in Stores
           /\ ~ postgres => Keeps(disk, store)
           /\ Keeps(store, store) /\ Keeps(disk, disk)
<1>1. /\ postgres \in BOOLEAN /\ Whole(store) /\ Whole(disk)
      /\ ~ postgres => Keeps(disk, store)
  BY DEF MemoryInv, TypeOK, StoresInv
<1>2. store \in Stores /\ disk \in Stores
  BY <1>1 DEF Whole
<1> QED
  BY <1>1, <1>2, KeepsItself

\* A write breaks nothing and forgets nothing.
LEMMA WriteKeeps ==
    ASSUME MemoryInv, NEW a \in Attempts, Write(a)
    PROVE  MemoryInv' /\ Keeps(store, store')
<1> DEFINE r == req[a]
           q == [r EXCEPT !.hand = Tail(@)]
<1>1. TypeOK /\ req \in [Attempts -> Requests]
  BY DEF MemoryInv, TypeOK
<1>2. /\ r.stage = "write" /\ r.hand # <<>> /\ store' = Apply(store, Head(r.hand)) /\ Go(a, q)
      /\ UNCHANGED <<postgres, disk, gate, lock, dumping, marked>>
  BY DEF Write
<1>3. /\ r \in Requests /\ r.home \in Processes /\ Kind(r) /\ Stage(r, postgres)
      /\ r.kind = "commit" => SoFar(store, r)
      /\ Hand(store, r)
  BY <1>2, OfRequest
<1>4. req'[a] = q /\ \A b \in Attempts \ {a} : req'[b] = req[b]
  BY <1>1, <1>2 DEF Go
<1>5. \A b \in Attempts \ {a} : req[b].stage # "write"
  BY <1>2 DEF MemoryInv, LocksInv, OneWriter
<1> HIDE DEF r
<1>6. r.op \notin {"snapshot", "mark"}
  BY <1>2, <1>3 DEF Stage
<1>7. /\ q.stage = "write" /\ q.op = r.op /\ q.home = r.home
      /\ q.kind = r.kind /\ q.session = r.session /\ q.hand = Tail(r.hand)
  BY <1>2, <1>3 DEF Requests
<1>8. q \in Requests
  <2>1. Tail(r.hand) \in Seq(Puts)
    BY <1>2, <1>3, RequestFields, RestOfHand
  <2> QED
    BY <1>3, <2>1 DEF Requests
<1> HIDE DEF q
<1>9. Whole(store') /\ Keeps(store, store') /\ Hand(store', q)
  BY <1>2, <1>3, <1>6, <1>7, OfStores, WriteFits
<1>10. store' \in Stores
  BY <1>9 DEF Whole
<1>11. ~ postgres => Keeps(disk, store')
  BY <1>9, <1>10, OfStores, KeepsOnKeeping
<1>12. Keeps(Lasting(postgres, store, disk), Lasting(postgres, store', disk'))
  BY <1>2, <1>9, OfStores DEF Lasting
<1>13. RequestInv(q, postgres, store', disk')
  <2>1. Kind(q)
    BY <1>3, <1>7 DEF Kind
  <2>2. Stage(q, postgres)
    BY <1>6, <1>7 DEF Stage
  <2>3. q.kind = "commit" => SoFar(store', q)
    <3>1. SUFFICES ASSUME q.kind = "commit" PROVE SoFar(store', q)
      OBVIOUS
    <3>2. r.session \in Sessions
      BY <1>3, <1>7, <3>1 DEF Kind
    <3>3. SoFar(store, r)
      BY <1>3, <1>7, <3>1
    <3> QED
      BY <1>7, <1>9, <1>10, <3>2, <3>3, OfStores, ReportIsKept DEF SoFar
  <2> QED
    BY <1>3, <1>7, <1>9, <2>1, <2>2, <2>3 DEF RequestInv
<1>14. req' \in [Attempts -> Requests] /\ StoresInv' /\ RequestsInv' /\ MarkedInv'
  BY <1>2, <1>5, <1>8, <1>9, <1>11, <1>12, <1>13, OfStores, Grows
<1>15. \A b \in Attempts : /\ req'[b].stage = req[b].stage /\ req'[b].op = req[b].op
                           /\ req'[b].home = req[b].home
  BY <1>2, <1>4, <1>7 DEF r
<1>16. LocksInv'
  BY <1>2, <1>15 DEF MemoryInv, LocksInv, OneWriter, OneDumper, OneThreadPerProcess, InThread
<1>17. TypeOK'
  <2>1. {store', disk'} \subseteq Stores
    BY <1>2, <1>10, OfStores
  <2> QED
    BY <1>1, <1>2, <1>14, <2>1 DEF TypeOK
<1> QED
  BY <1>9, <1>14, <1>16, <1>17 DEF MemoryInv

\* A copy of the store for the snapshot breaks nothing.
LEMMA CopyKeeps ==
    ASSUME MemoryInv, NEW a \in Attempts, Copy(a)
    PROVE  MemoryInv'
<1> DEFINE r == req[a]
           q == [r EXCEPT !.stage = "dump", !.copy = store]
<1>1. TypeOK /\ req \in [Attempts -> Requests]
  BY DEF MemoryInv, TypeOK
<1>2. /\ r.stage = "copy" /\ dumping = None /\ lock = None /\ dumping' = a /\ Go(a, q)
      /\ UNCHANGED <<postgres, store, disk, gate, lock, marked>>
  BY DEF Copy
<1>3. /\ r \in Requests /\ r.home \in Processes /\ Kind(r) /\ Stage(r, postgres)
      /\ r.kind = "commit" => SoFar(store, r)
  BY <1>2, OfRequest
<1>4. req'[a] = q /\ \A b \in Attempts \ {a} : req'[b] = req[b]
  BY <1>1, <1>2 DEF Go
<1>5. \A b \in Attempts : req[b].stage # "dump"
  BY <1>2, Holds, NoneAssumption
<1> HIDE DEF r
<1>6. r.op = "snapshot" /\ ~ postgres
  BY <1>2, <1>3 DEF Stage
<1>7. /\ q.stage = "dump" /\ q.op = "snapshot" /\ q.home = r.home
      /\ q.kind = r.kind /\ q.session = r.session /\ q.copy = store
  BY <1>3, <1>6 DEF Requests
<1>8. q \in Requests
  BY <1>3, OfStores DEF Requests, Stages
<1> HIDE DEF q
<1>9. RequestInv(q, postgres, store, disk)
  <2>1. Kind(q)
    BY <1>3, <1>6, <1>7 DEF Kind
  <2>2. Stage(q, postgres)
    BY <1>6, <1>7 DEF Stage
  <2>3. q.kind = "commit" => SoFar(store, q) /\ HasReport(store, q.session)
    BY <1>3, <1>6, <1>7 DEF SoFar, HasReport
  <2>4. CopyInv(q, store, disk)
    BY <1>6, <1>7, <2>3, OfStores DEF CopyInv
  <2> QED
    BY <1>3, <1>7, <2>1, <2>2, <2>3, <2>4 DEF RequestInv
<1>10. req' \in [Attempts -> Requests] /\ StoresInv' /\ RequestsInv' /\ MarkedInv'
  BY <1>2, <1>8, <1>9, Quiet
<1>11. OneWriter'
  <2>1. \A b \in Attempts : /\ req'[b].stage = "write" <=> req[b].stage = "write"
                            /\ req'[b].op = req[b].op
    BY <1>2, <1>4, <1>6, <1>7 DEF r
  <2> QED
    BY <1>2, <2>1 DEF MemoryInv, LocksInv, OneWriter
<1>12. OneDumper'
  BY <1>2, <1>4, <1>5, <1>7 DEF OneDumper
<1>13. OneThreadPerProcess'
  BY <1>2, <1>6 DEF OneThreadPerProcess
<1>14. TypeOK'
  BY <1>1, <1>2, <1>10 DEF TypeOK
<1> QED
  BY <1>10, <1>11, <1>12, <1>13, <1>14 DEF MemoryInv, LocksInv

\* A snapshot written breaks nothing, and the file forgets nothing.
LEMMA DumpKeeps ==
    ASSUME MemoryInv, NEW a \in Attempts, Dump(a)
    PROVE  MemoryInv' /\ ~ postgres /\ Keeps(disk, disk')
<1> DEFINE r == req[a]
           q == IF Commits(r) THEN At(r, "mark") ELSE Idle
           ahead == [r EXCEPT !.op = "mark"]
<1>1. TypeOK /\ req \in [Attempts -> Requests]
  BY DEF MemoryInv, TypeOK
<1>2. /\ r.stage = "dump" /\ disk' = r.copy /\ dumping' = None /\ Go(a, q)
      /\ UNCHANGED <<postgres, store, gate, lock, marked>>
  BY DEF Dump
<1>3. /\ r \in Requests /\ r.home \in Processes /\ Kind(r) /\ Stage(r, postgres)
      /\ r.kind = "commit" => SoFar(store, r)
      /\ CopyInv(r, store, disk)
  BY <1>2, OfRequest
<1>4. dumping = a /\ lock # a
  BY <1>2, Holds
<1>5. \A b \in Attempts \ {a} : req[b].stage # "dump"
  BY <1>4, Holds
<1> HIDE DEF r
<1>6. r.op = "snapshot" /\ ~ postgres
  BY <1>2, <1>3 DEF Stage
<1>7. Whole(disk') /\ Keeps(disk, disk') /\ Keeps(disk', store) /\ disk' \in Stores
  BY <1>2, <1>3 DEF CopyInv, Whole
<1>8. /\ q \in Requests /\ q.stage \notin {"write", "dump", "late"}
      /\ RequestInv(q, postgres, store, disk')
  <2>1. CASE Commits(r)
    <3>1. q = At(r, "mark") /\ r.kind = "commit" /\ "mark" \in Ops
      BY <2>1 DEF Commits, Ops
    <3>2. Stands(q, r, "mark", postgres)
      BY <1>3, <3>1, OfStores, AtStands
    <3>3. ahead.op = "mark" /\ ahead.session = r.session /\ ahead.kind = r.kind
      BY <1>3 DEF Requests
    <3> HIDE DEF q, ahead
    <3>4. Kind(ahead)
      BY <1>3, <1>6, <3>1, <3>3 DEF Kind
    <3>5. SoFar(store, ahead)
      BY <1>3, <1>6, <3>1, <3>3 DEF SoFar
    <3>6. HasReport(Lasting(postgres, store, disk'), r.session)
      BY <1>2, <1>3, <1>6, <3>1 DEF CopyInv, Lasting
    <3>7. RequestInv(q, postgres, store, disk')
      BY <1>3, <3>1, <3>2, <3>3, <3>4, <3>5, <3>6, OfStores, StandsWell
    <3> QED
      BY <3>2, <3>7, OfStores, StandsFree
  <2>2. CASE ~ Commits(r)
    <3>1. q = Idle
      BY <2>2
    <3> QED
      BY <3>1, IdleIs DEF RequestInv
  <2> QED
    BY <2>1, <2>2
<1> HIDE DEF q
<1>9. Keeps(Lasting(postgres, store, disk), Lasting(postgres, store', disk'))
  BY <1>2, <1>6, <1>7 DEF Lasting
<1>10. req' \in [Attempts -> Requests] /\ StoresInv' /\ RequestsInv' /\ MarkedInv'
  BY <1>2, <1>5, <1>7, <1>8, <1>9, OfStores, Grows
<1>11. LocksInv'
  <2>1. dumping' # a /\ \A b \in Attempts \ {a} : dumping' = b <=> dumping = b
    BY <1>2, <1>4, NoneAssumption
  <2> QED
    BY <1>2, <1>4, <1>6, <1>8, <2>1, LetsGo
<1>12. TypeOK'
  <2>1. {store', disk'} \subseteq Stores
    BY <1>2, <1>7, OfStores
  <2> QED
    BY <1>1, <1>2, <1>10, <2>1 DEF TypeOK
<1> QED
  BY <1>6, <1>7, <1>10, <1>11, <1>12 DEF MemoryInv

\* A snapshot that fails breaks nothing.
LEMMA DumpFailsKeeps ==
    ASSUME MemoryInv, NEW a \in Attempts, DumpFails(a)
    PROVE  MemoryInv'
<1>1. TypeOK
  BY DEF MemoryInv
<1>2. /\ req[a].stage = "dump" /\ dumping' = None /\ Go(a, Idle)
      /\ UNCHANGED <<postgres, store, disk, gate, lock, marked>>
  BY DEF DumpFails
<1>3. dumping = a /\ lock # a
  BY <1>2, Holds
<1>4. ~ postgres
  BY <1>2, OfRequest DEF Stage
<1>5. RequestInv(Idle, postgres, store, disk)
  BY DEF RequestInv
<1>6. req' \in [Attempts -> Requests] /\ StoresInv' /\ RequestsInv' /\ MarkedInv'
  BY <1>2, <1>5, IdleIs, Quiet
<1>7. LocksInv'
  <2>1. dumping' # a /\ \A b \in Attempts \ {a} : dumping' = b <=> dumping = b
    BY <1>2, <1>3, NoneAssumption
  <2> QED
    BY <1>2, <1>3, <1>4, <2>1, IdleIs, LetsGo
<1>8. TypeOK'
  BY <1>1, <1>2, <1>6 DEF TypeOK
<1> QED
  BY <1>6, <1>7, <1>8 DEF MemoryInv

\* A commit is marked once what it promises is in the store.
LEMMA MarkKeeps ==
    ASSUME MemoryInv, NEW a \in Attempts, Mark(a)
    PROVE  MemoryInv'
<1>1. TypeOK /\ req \in [Attempts -> Requests] /\ marked \subseteq Sessions
  BY DEF MemoryInv, TypeOK
<1>2. /\ req[a].stage = "mark" /\ marked' \in {marked, marked \cup {req[a].session}} /\ Go(a, Idle)
      /\ UNCHANGED <<postgres, store, disk, gate, lock, dumping>>
  BY DEF Mark
<1>3. /\ req[a].session \in Sessions
      /\ HasReport(Lasting(postgres, store, disk), req[a].session)
  BY <1>2, OfRequest DEF Stage, Kind
<1>4. req' = [req EXCEPT ![a] = Idle]
  BY <1>2 DEF Go
<1>5. MarkedInv'
  <2>1. \A s \in marked : HasReport(Lasting(postgres, store, disk), s)
    BY DEF MemoryInv, MarkedInv
  <2>2. \A s \in marked' : HasReport(Lasting(postgres, store, disk), s)
    BY <1>2, <1>3, <2>1
  <2> QED
    BY <1>2, <2>2 DEF MarkedInv
<1>6. req' \in [Attempts -> Requests]
  BY <1>1, <1>4, IdleIs
<1>7. RequestsInv'
  <2>1. ASSUME NEW b \in Attempts PROVE RequestInv(req'[b], postgres, store, disk)
    <3>1. req'[b] = Idle \/ req'[b] = req[b]
      BY <1>1, <1>4
    <3>2. RequestInv(req[b], postgres, store, disk)
      BY DEF MemoryInv, RequestsInv
    <3>3. RequestInv(Idle, postgres, store, disk)
      BY DEF RequestInv
    <3> QED
      BY <3>1, <3>2, <3>3
  <2> QED
    BY <1>2, <2>1 DEF RequestsInv
<1>8. StoresInv'
  BY <1>2 DEF MemoryInv, StoresInv
<1>9. lock # a /\ dumping # a /\ (postgres => \A p \in Processes : gate[p] # a)
  BY <1>2, Holds
<1>10. LocksInv'
  BY <1>2, <1>9, IdleIs, LetsGo
<1>11. TypeOK'
  BY <1>1, <1>2, <1>3, <1>6 DEF TypeOK
<1> QED
  BY <1>5, <1>7, <1>8, <1>10, <1>11 DEF MemoryInv

-----------------------------------------------------------------------------
(***************************************************************************)
(* The death of a process                                                  *)
(***************************************************************************)
LEMMA RestartKeeps ==
    ASSUME MemoryInv, NEW p \in Processes, Restart(p)
    PROVE  MemoryInv' /\ (postgres => store' = store) /\ (~ postgres => Keeps(disk, disk'))
<1>1. /\ TypeOK /\ postgres \in BOOLEAN /\ req \in [Attempts -> Requests]
      /\ gate \in [Processes -> Attempts \cup {None}] /\ lock \in Attempts \cup {None}
  BY DEF MemoryInv, TypeOK
<1>2. /\ ~ postgres => \A a \in Attempts : req[a].home \in {p, None}
      /\ disk' = disk \/ (~ postgres /\ disk' = store)
      /\ store' = IF postgres THEN store ELSE disk'
      /\ req' = [a \in Attempts |-> IF req[a].home = p THEN Idle ELSE req[a]]
      /\ gate' = [gate EXCEPT ![p] = None]
      /\ lock' = IF lock # None /\ req[lock].home = p THEN None ELSE lock
      /\ dumping' = IF postgres THEN dumping ELSE None
      /\ UNCHANGED <<postgres, marked>>
  BY DEF Restart
<1>3. \A a \in Attempts : a # None
  BY NoneAssumption
<1>4. \A a \in Attempts : RequestInv(req[a], postgres, store, disk) /\ req[a] \in Requests
  BY <1>1 DEF MemoryInv, RequestsInv
<1>5. \A a \in Attempts : req'[a] = IF req[a].home = p THEN Idle ELSE req[a]
  BY <1>2
<1>6. ~ postgres => \A a \in Attempts : req'[a] = Idle
  <2>1. ASSUME ~ postgres, NEW a \in Attempts PROVE req'[a] = Idle
    <3>1. CASE req[a].home = p
      BY <1>5, <3>1
    <3>2. CASE req[a].home = None
      <4>1. req[a] = Idle
        BY <1>4, <3>2, NoneAssumption DEF RequestInv
      <4> QED
        BY <1>5, <4>1
    <3> QED
      BY <1>2, <2>1, <3>1, <3>2
  <2> QED
    BY <2>1
<1>7. req' \in [Attempts -> Requests]
  BY <1>1, <1>2, IdleIs
<1>8. Whole(store') /\ Whole(disk') /\ store' \in Stores /\ disk' \in Stores
  BY <1>1, <1>2, OfStores DEF Whole
<1>9. /\ postgres => store' = store /\ disk' = disk
      /\ ~ postgres => store' = disk' /\ Keeps(disk, disk')
  BY <1>2, OfStores
<1>10. StoresInv'
  BY <1>2, <1>8, <1>9, KeepsItself DEF StoresInv
<1>11. RequestsInv'
  <2>1. ASSUME NEW a \in Attempts PROVE RequestInv(req'[a], postgres, store', disk')
    <3>1. RequestInv(Idle, postgres, store', disk')
      BY DEF RequestInv
    <3>2. CASE req'[a] = Idle
      BY <3>1, <3>2
    <3>3. CASE req'[a] # Idle
      <4>1. postgres /\ req'[a] = req[a]
        BY <1>1, <1>5, <1>6, <3>3
      <4>2. store' = store /\ disk' = disk
        BY <1>9, <4>1
      <4> QED
        BY <1>4, <4>1, <4>2
    <3> QED
      BY <3>2, <3>3
  <2> QED
    BY <1>2, <2>1 DEF RequestsInv
<1>12. MarkedInv'
  <2>1. marked \subseteq Sessions /\ \A s \in marked : HasReport(Lasting(postgres, store, disk), s)
    BY DEF MemoryInv, TypeOK, MarkedInv
  <2>2. CASE postgres
    BY <1>2, <1>9, <2>1, <2>2 DEF MarkedInv, Lasting
  <2>3. CASE ~ postgres
    <3>1. \A s \in marked : HasReport(disk', s)
      BY <1>8, <1>9, <2>1, <2>3, OfStores, ReportIsKept DEF Lasting
    <3> QED
      BY <1>2, <2>3, <3>1 DEF MarkedInv, Lasting
  <2> QED
    BY <1>1, <2>2, <2>3
<1>13. OneWriter'
  <2>1. OneWriter
    BY DEF MemoryInv, LocksInv
  <2>2. \A a, b \in Attempts : req'[a].stage = "write" /\ req'[b].stage = "write" => a = b
    BY <1>5, <2>1, IdleIs DEF OneWriter
  <2>3. ASSUME NEW a \in Attempts
        PROVE  lock' = a <=> (req'[a].stage = "write" /\ (postgres \/ req'[a].op # "migrate"))
    <3>1. lock = a <=> (req[a].stage = "write" /\ (postgres \/ req[a].op # "migrate"))
      BY <2>1 DEF OneWriter
    <3>2. CASE req[a].home = p
      <4>1. req'[a] = Idle
        BY <1>5, <3>2
      <4>2. lock' # a
        BY <1>2, <1>3, <3>2
      <4> QED
        BY <4>1, <4>2, IdleIs
    <3>3. CASE req[a].home # p
      <4>1. req'[a] = req[a]
        BY <1>5, <3>3
      <4>2. lock' = a <=> lock = a
        BY <1>2, <1>3, <3>3
      <4> QED
        BY <3>1, <4>1, <4>2
    <3> QED
      BY <3>2, <3>3
  <2> QED
    BY <1>2, <2>2, <2>3 DEF OneWriter
<1>14. OneDumper'
  <2>1. ASSUME NEW a \in Attempts PROVE dumping' = a <=> req'[a].stage = "dump"
    <3>1. CASE postgres
      <4>1. req[a].stage # "dump"
        BY <3>1, OfRequest DEF Stage
      <4>2. dumping # a
        BY <4>1, Holds
      <4> QED
        BY <1>2, <1>5, <3>1, <4>1, <4>2, IdleIs
    <3>2. CASE ~ postgres
      BY <1>2, <1>3, <1>6, <3>2, IdleIs
    <3> QED
      BY <1>1, <3>1, <3>2
  <2> QED
    BY <2>1 DEF OneDumper
<1>15. OneThreadPerProcess'
  <2>1. SUFFICES ASSUME postgres, NEW h \in Processes, NEW a \in Attempts
                 PROVE  gate'[h] = a <=> /\ req'[a].home = h /\ req'[a].op # "idle"
                                         /\ req'[a].stage = "late" \/ InThread(req'[a])
    BY <1>2 DEF OneThreadPerProcess
  <2>2. gate[h] = a <=> /\ req[a].home = h /\ req[a].op # "idle"
                        /\ req[a].stage = "late" \/ InThread(req[a])
    BY <2>1 DEF MemoryInv, LocksInv, OneThreadPerProcess
  <2>3. gate'[h] = IF h = p THEN None ELSE gate[h]
    BY <1>1, <1>2
  <2>4. CASE req[a].home = p
    <3>1. req'[a] = Idle
      BY <1>5, <2>4
    <3>2. gate'[h] # a
      BY <1>3, <2>2, <2>3, <2>4
    <3> QED
      BY <3>1, <3>2, IdleIs
  <2>5. CASE req[a].home # p
    <3>1. req'[a] = req[a]
      BY <1>5, <2>5
    <3>2. gate'[h] = a <=> gate[h] = a
      BY <1>3, <2>2, <2>3, <2>5
    <3> QED
      BY <2>2, <3>1, <3>2
  <2> QED
    BY <2>4, <2>5
<1>16. TypeOK'
  <2>1. gate' \in [Processes -> Attempts \cup {None}] /\ lock' \in Attempts \cup {None}
    BY <1>1, <1>2
  <2>2. dumping' \in Attempts \cup {None}
    BY <1>1, <1>2 DEF TypeOK
  <2> QED
    BY <1>1, <1>2, <1>7, <1>8, <2>1, <2>2 DEF TypeOK
<1> QED
  BY <1>9, <1>10, <1>11, <1>12, <1>13, <1>14, <1>15, <1>16 DEF MemoryInv, LocksInv

-----------------------------------------------------------------------------
(***************************************************************************)
(* Theorems                                                                *)
(***************************************************************************)
LEMMA InitMemory == Init => MemoryInv
<1>1. SUFFICES ASSUME Init PROVE MemoryInv
  OBVIOUS
<1>2. /\ postgres \in BOOLEAN /\ store \in InitialStores /\ disk = store
      /\ req = [a \in Attempts |-> Idle] /\ gate = [p \in Processes |-> None]
      /\ lock = None /\ dumping = None /\ marked = {}
  BY <1>1 DEF Init
<1>3. Whole(store) /\ store \in Stores
  BY <1>2, InitialStoresAssumption DEF Whole
<1>4. \A a \in Attempts : req[a] = Idle /\ a # None
  BY <1>2, NoneAssumption
<1>5. TypeOK
  BY <1>2, <1>3, IdleIs DEF TypeOK
<1>6. StoresInv
  BY <1>2, <1>3, KeepsItself DEF StoresInv
<1>7. LocksInv
  BY <1>2, <1>4, IdleIs DEF LocksInv, OneWriter, OneDumper, OneThreadPerProcess
<1>8. RequestsInv
  BY <1>4 DEF RequestsInv, RequestInv
<1>9. MarkedInv
  BY <1>2 DEF MarkedInv
<1> QED
  BY <1>5, <1>6, <1>7, <1>8, <1>9 DEF MemoryInv

\* Every step keeps the invariant, and forgets nothing that would survive.
LEMMA StepKeeps ==
    ASSUME MemoryInv, [Next]_vars
    PROVE  /\ MemoryInv' /\ postgres' = postgres
           /\ Keeps(Lasting(postgres, store, disk), Lasting(postgres, store', disk'))
<1> DEFINE Good == /\ MemoryInv' /\ postgres' = postgres
                   /\ Keeps(Lasting(postgres, store, disk), Lasting(postgres, store', disk'))
<1>1. ASSUME UNCHANGED <<postgres, store, disk>>, MemoryInv' PROVE Good
  BY <1>1, OfStores DEF Lasting
<1>2. ASSUME NEW a \in Attempts, Start(a) PROVE Good
  BY <1>1, <1>2, StartKeeps DEF Start
<1>3. ASSUME NEW a \in Attempts, Mark(a) PROVE Good
  BY <1>1, <1>3, MarkKeeps DEF Mark
<1>4. ASSUME NEW a \in Attempts, TakeGate(a) PROVE Good
  BY <1>1, <1>4, TakeGateKeeps DEF TakeGate
<1>5. ASSUME NEW a \in Attempts, LoseGate(a) PROVE Good
  BY <1>1, <1>5, LoseGateKeeps DEF LoseGate
<1>6. ASSUME NEW a \in Attempts, ReturnLateGate(a) PROVE Good
  BY <1>1, <1>6, ReturnLateGateKeeps DEF ReturnLateGate
<1>7. ASSUME NEW a \in Attempts, TakeLock(a) PROVE Good
  BY <1>1, <1>7, TakeLockKeeps DEF TakeLock
<1>8. ASSUME NEW a \in Attempts, Write(a) PROVE Good
  <2>1. MemoryInv' /\ Keeps(store, store')
    BY <1>8, WriteKeeps
  <2>2. postgres' = postgres /\ disk' = disk
    BY <1>8 DEF Write
  <2> QED
    BY <2>1, <2>2, OfStores DEF Lasting
<1>9. ASSUME NEW a \in Attempts, Done(a) PROVE Good
  BY <1>1, <1>9, DoneKeeps DEF Done
<1>10. ASSUME NEW a \in Attempts, Fail(a) PROVE Good
  BY <1>1, <1>10, FailKeeps DEF Fail
<1>11. ASSUME NEW a \in Attempts, Copy(a) PROVE Good
  BY <1>1, <1>11, CopyKeeps DEF Copy
<1>12. ASSUME NEW a \in Attempts, Dump(a) PROVE Good
  <2>1. MemoryInv' /\ ~ postgres /\ Keeps(disk, disk')
    BY <1>12, DumpKeeps
  <2>2. postgres' = postgres
    BY <1>12 DEF Dump
  <2> QED
    BY <2>1, <2>2 DEF Lasting
<1>13. ASSUME NEW a \in Attempts, DumpFails(a) PROVE Good
  BY <1>1, <1>13, DumpFailsKeeps DEF DumpFails
<1>14. ASSUME NEW p \in Processes, Restart(p) PROVE Good
  <2>1. MemoryInv' /\ (postgres => store' = store) /\ (~ postgres => Keeps(disk, disk'))
    BY <1>14, RestartKeeps
  <2>2. postgres' = postgres
    BY <1>14 DEF Restart
  <2> QED
    BY <2>1, <2>2, OfStores DEF Lasting
<1>15. CASE UNCHANGED vars
  <2>1. MemoryInv'
    BY <1>15 DEF vars, MemoryInv, TypeOK, StoresInv, LocksInv, OneWriter, OneDumper,
                 OneThreadPerProcess, RequestsInv, MarkedInv
  <2> QED
    BY <1>1, <1>15, <2>1 DEF vars
<1> QED
  BY <1>2, <1>3, <1>4, <1>5, <1>6, <1>7, <1>8, <1>9, <1>10, <1>11, <1>12, <1>13, <1>14, <1>15
     DEF Next

\* The invariant holds from the start, and every step keeps it.
THEOREM MemoryInvariance == Spec => []MemoryInv
<1>1. MemoryInv /\ [Next]_vars => MemoryInv'
  BY StepKeeps
<1> QED
  BY InitMemory, <1>1, PTL DEF Spec

\* The rows of the memory, its file and what requests have in hand keep their
\* types.
THEOREM TypesHold == Spec => []TypeOK
<1>1. MemoryInv => TypeOK
  BY DEF MemoryInv
<1> QED
  BY MemoryInvariance, <1>1, PTL

\* A process has one thread in PostgreSQL, and its gate is held exactly while
\* that thread runs or the gate that came too late is not given back.
THEOREM GateOfTheThread == Spec => []OneThreadPerProcess
<1>1. MemoryInv => OneThreadPerProcess
  BY DEF MemoryInv, LocksInv
<1> QED
  BY MemoryInvariance, <1>1, PTL

\* However often a report is committed or reviewed, it counts once.
THEOREM CountedOnce == Spec => []EachSessionCountsOnce
<1>1. MemoryInv => EachSessionCountsOnce
  BY DEF MemoryInv, StoresInv, Whole, EachSessionCountsOnce
<1> QED
  BY MemoryInvariance, <1>1, PTL

\* A session with the marker has its whole report where a restart finds it.
THEOREM MarkedSurvives == Spec => []MarkedIsDurable
<1>1. MemoryInv => MarkedIsDurable
  <2>1. SUFFICES ASSUME MemoryInv, NEW s \in marked
                 PROVE  /\ s \in Counted(Durable)
                        /\ s \in Range(Durable.mastery.ema)
                        /\ ~ Report[s].correct =>
                            /\ s \in Durable.weak
                            /\ Durable.errors[MistakeOf(s)] # "none"
    BY DEF MarkedIsDurable
  <2>2. HasReport(Durable, s)
    BY <2>1 DEF MemoryInv, MarkedInv, Lasting, Durable
  <2> QED
    BY <2>2 DEF HasReport, HasBrief, HasMistake, HasScore, HasWeak
<1> QED
  BY MemoryInvariance, <1>1, PTL

\* Nothing that would survive a restart is ever lost, taken back or reopened.
THEOREM NothingForgotten == Spec => NothingDurableIsForgotten
<1>1. MemoryInv /\ [Next]_vars => [~ Forgets(Durable, Durable')]_vars
  <2>1. SUFFICES ASSUME MemoryInv, [Next]_vars PROVE ~ Forgets(Durable, Durable')
    OBVIOUS
  <2>2. /\ postgres' = postgres
        /\ Keeps(Lasting(postgres, store, disk), Lasting(postgres, store', disk'))
    BY <2>1, StepKeeps
  <2>3. Keeps(Durable, Durable')
    BY <2>2 DEF Lasting, Durable
  <2> QED
    BY <2>3 DEF Keeps
<1> QED
  BY MemoryInvariance, <1>1, PTL DEF Spec, NothingDurableIsForgotten
=============================================================================
