--------------------------- MODULE SubjectsProofs ---------------------------
(***************************************************************************)
(* Proofs about Subjects for any number of producers, subscribers and      *)
(* calls of Next, and any size of a ReplaySubject's buffer.                *)
(***************************************************************************)
EXTENDS Subjects, FiniteSetTheorems, SequenceTheorems, TLAPS

-----------------------------------------------------------------------------
(* The inductive invariant                                                  *)

ProdType == [pc : {"idle", "store", "snap", "deliver"}, n : Nat, todo : SUBSET Subscribers]
SubType ==
  [pc : {"idle", "register", "read", "replay", "ask", "open", "wait", "disposed"},
   replay : Seq(Nat)]

SubjectTypes ==
  /\ scene \in SceneType
  /\ subscribers \subseteq Subscribers /\ completed \in BOOLEAN
  /\ value \in Nat /\ buffer \in Seq(Nat) /\ calls \in 0 .. MaxNext
  /\ prod \in [Producers -> ProdType] /\ sub \in [Subscribers -> SubType]
  /\ got \in [Subscribers -> Seq(Nat)]
  /\ open \in [1 .. MaxCalls -> SUBSET Subscribers]
  /\ gone \in [1 .. MaxCalls -> SUBSET Subscribers]
  /\ ended \subseteq 1 .. MaxCalls

Busy(p) == prod[p].pc # "idle"
UpTo(list, m) == \A i \in DOMAIN list : list[i] <= m

\* No value is anywhere before its Next begins.
ValuesBegan ==
  /\ value <= calls /\ UpTo(buffer, calls)
  /\ \A s \in Subscribers : UpTo(sub[s].replay, calls) /\ UpTo(got[s], calls)
  /\ \A n \in 1 .. MaxCalls : n > calls => open[n] = {} /\ gone[n] = {}

\* The calls of Next under way began, did not end, and have values of their own.
CallsApart ==
  /\ \A n \in ended : n <= calls
  /\ \A p \in Producers : Busy(p) =>
       p \in scene.producers /\ prod[p].n \in 1 .. calls /\ prod[p].n \notin ended
  /\ \A p, q \in Producers : Busy(p) /\ Busy(q) /\ prod[p].n = prod[q].n => p = q

\* Before its Subscribe reaches Subject.Subscribe nobody is called; a BehaviorSubject
\* registers first.
OutsideAt(pc) == pc \in {"idle", "register"} \/ (Kind # "behavior" /\ pc = "replay")
Outside(s) == OutsideAt(sub[s].pc)

\* Who is registered, by how far its Subscribe is.
Registered ==
  \A s \in Subscribers :
    /\ ~completed /\ ~Outside(s) /\ sub[s].pc # "disposed" => s \in subscribers
    /\ Outside(s) \/ sub[s].pc = "disposed" => s \notin subscribers
    /\ Outside(s) => \A p \in Producers : s \notin prod[p].todo
    /\ sub[s].pc = "read" => Kind = "behavior"
    /\ sub[s].pc = "replay" => Kind # "subject"

\* A call of Next under way owes its value to those it has not called yet.
Owed ==
  ~completed => \A n \in 1 .. MaxCalls : \A s \in open[n] \cap Listening :
    /\ n \in ended => Times(s, n) = 1
    /\ \A p \in Producers : Busy(p) /\ prod[p].n = n =>
         Times(s, n) = IF prod[p].pc = "deliver" /\ s \notin prod[p].todo THEN 1 ELSE 0

\* Who had subscribed when a Next began stays subscribed until it disposes.
Stays ==
  \A n \in 1 .. MaxCalls : \A s \in open[n] : sub[s].pc \in {"open", "wait", "disposed"}

\* A call of Next does not call those who had disposed.
Left ==
  \A n \in 1 .. MaxCalls : \A s \in gone[n] :
    /\ sub[s].pc = "disposed" /\ Times(s, n) = 0
    /\ \A p \in Producers : Busy(p) /\ prod[p].n = n => s \notin prod[p].todo

Sorted(list) == \A i, j \in DOMAIN list : i < j => list[i] <= list[j]

\* One producer stores and delivers the newest value; what a subscriber still replays
\* is newer than what it got.
Rising ==
  Kind # "behavior" /\ Cardinality(scene.producers) = 1 =>
    /\ \A p \in Producers : Busy(p) => prod[p].n = calls
    /\ Sorted(buffer)
    /\ \A s \in Subscribers :
         /\ Sorted(got[s]) /\ Sorted(sub[s].replay)
         /\ \A i \in DOMAIN got[s], j \in DOMAIN sub[s].replay : got[s][i] <= sub[s].replay[j]
         /\ sub[s].pc = "idle" => got[s] = <<>>
         /\ sub[s].replay # <<>> => sub[s].pc = "replay"

SubjectIInv ==
  /\ SubjectTypes /\ ValuesBegan /\ CallsApart /\ Registered /\ Owed /\ Stays /\ Left /\ Rising

-----------------------------------------------------------------------------
(* Lists of values                                                          *)

\* How often a value is in a list.
Count(list, n) == Cardinality({i \in DOMAIN list : list[i] = n})

LEMMA CountFacts ==
  ASSUME NEW list \in Seq(Nat), NEW n \in Nat
  PROVE  /\ IsFiniteSet({i \in DOMAIN list : list[i] = n})
         /\ Count(list, n) \in Nat
         /\ (\A i \in DOMAIN list : list[i] < n) => Count(list, n) = 0
<1> DEFINE at == {i \in DOMAIN list : list[i] = n}
<1>1. IsFiniteSet(1 .. Len(list)) /\ at \subseteq 1 .. Len(list)
  <2>1. Len(list) \in Int /\ DOMAIN list = 1 .. Len(list)
    BY LenProperties
  <2> QED
    BY <2>1, FS_Interval
<1>2. IsFiniteSet(at)
  BY <1>1, FS_Subset
<1>3. Count(list, n) \in Nat
  BY <1>2, FS_CardinalityType DEF Count
<1>4. ASSUME \A i \in DOMAIN list : list[i] < n PROVE Count(list, n) = 0
  <2>1. at = {}
    BY <1>4
  <2> QED
    BY <2>1, FS_EmptySet DEF Count
<1> QED
  BY <1>2, <1>3, <1>4

LEMMA CountAppend ==
  ASSUME NEW list \in Seq(Nat), NEW v \in Nat, NEW n \in Nat
  PROVE  /\ v = n => Count(Append(list, v), n) = Count(list, n) + 1
         /\ v # n => Count(Append(list, v), n) = Count(list, n)
<1> DEFINE at == {i \in DOMAIN list : list[i] = n}
           then == {i \in DOMAIN Append(list, v) : Append(list, v)[i] = n}
<1>1. /\ Len(list) \in Nat /\ DOMAIN list = 1 .. Len(list)
      /\ DOMAIN Append(list, v) = 1 .. Len(list) + 1
      /\ \A i \in 1 .. Len(list) : Append(list, v)[i] = list[i]
      /\ Append(list, v)[Len(list) + 1] = v
  BY AppendProperties, LenProperties
<1>2. IsFiniteSet(at)
  BY CountFacts
<1>3. CASE v = n
  <2>1. then = at \cup {Len(list) + 1} /\ Len(list) + 1 \notin at
    BY <1>1, <1>3
  <2> HIDE DEF at, then
  <2>2. Cardinality(then) = Cardinality(at) + 1
    BY <1>2, <2>1, FS_AddElement
  <2> QED
    BY <1>3, <2>2 DEF Count, at, then
<1>4. CASE v # n
  <2>1. then = at
    BY <1>1, <1>4
  <2> QED
    BY <1>4, <2>1 DEF Count
<1> QED
  BY <1>3, <1>4

LEMMA ListFacts ==
  ASSUME NEW list \in Seq(Nat), NEW v \in Nat
  PROVE  /\ Append(list, v) \in Seq(Nat)
         /\ \A m \in Nat : UpTo(list, m) /\ v <= m => UpTo(Append(list, v), m)
         /\ Sorted(list) /\ UpTo(list, v) => Sorted(Append(list, v))
         /\ list # <<>> =>
              /\ Head(list) \in Nat /\ Tail(list) \in Seq(Nat)
              /\ \A m \in Nat : UpTo(list, m) => Head(list) <= m /\ UpTo(Tail(list), m)
              /\ Sorted(list) => Sorted(Tail(list))
<1>1. /\ Append(list, v) \in Seq(Nat) /\ Len(list) \in Nat /\ DOMAIN list = 1 .. Len(list)
      /\ DOMAIN Append(list, v) = 1 .. Len(list) + 1
      /\ \A i \in 1 .. Len(list) : Append(list, v)[i] = list[i]
      /\ Append(list, v)[Len(list) + 1] = v
      /\ \A i \in DOMAIN list : list[i] \in Nat
  BY AppendProperties, LenProperties, ElementOfSeq
<1>2. ASSUME NEW m \in Nat, UpTo(list, m), v <= m PROVE UpTo(Append(list, v), m)
  BY <1>1, <1>2 DEF UpTo
<1>3. ASSUME Sorted(list), UpTo(list, v) PROVE Sorted(Append(list, v))
  BY <1>1, <1>3 DEF Sorted, UpTo
<1>4. ASSUME list # <<>>
      PROVE  /\ Head(list) = list[1] /\ 1 \in DOMAIN list
             /\ Tail(list) \in Seq(Nat) /\ DOMAIN Tail(list) = 1 .. Len(list) - 1
             /\ \A i \in DOMAIN Tail(list) : Tail(list)[i] = list[i + 1] /\ i + 1 \in DOMAIN list
  BY <1>1, <1>4, HeadTailProperties, EmptySeq
<1>5. ASSUME list # <<>>
      PROVE  /\ Head(list) \in Nat /\ Tail(list) \in Seq(Nat)
             /\ \A m \in Nat : UpTo(list, m) => Head(list) <= m /\ UpTo(Tail(list), m)
             /\ Sorted(list) => Sorted(Tail(list))
  BY <1>1, <1>4, <1>5 DEF UpTo, Sorted
<1> QED
  BY <1>1, <1>2, <1>3, <1>5

\* What is replayed next is newer than what was got, and older than the rest.
LEMMA HeadFacts ==
  ASSUME NEW have \in Seq(Nat), NEW rest \in Seq(Nat), rest # <<>>, Sorted(rest),
         \A i \in DOMAIN have, j \in DOMAIN rest : have[i] <= rest[j]
  PROVE  /\ UpTo(have, Head(rest))
         /\ \A i \in DOMAIN Append(have, Head(rest)), j \in DOMAIN Tail(rest) :
              Append(have, Head(rest))[i] <= Tail(rest)[j]
<1>1. /\ Head(rest) = rest[1] /\ 1 \in DOMAIN rest /\ Head(rest) \in Nat
      /\ \A j \in DOMAIN Tail(rest) :
           Tail(rest)[j] = rest[j + 1] /\ j + 1 \in DOMAIN rest /\ 1 < j + 1
  <2>1. Len(rest) \in Nat /\ DOMAIN rest = 1 .. Len(rest) /\ Len(rest) # 0
    BY LenProperties, EmptySeq
  <2> QED
    BY <2>1, HeadTailProperties, ElementOfSeq
<1>2. /\ Len(have) \in Nat /\ DOMAIN have = 1 .. Len(have)
      /\ DOMAIN Append(have, Head(rest)) = 1 .. Len(have) + 1
      /\ \A i \in 1 .. Len(have) : Append(have, Head(rest))[i] = have[i]
      /\ Append(have, Head(rest))[Len(have) + 1] = Head(rest)
  BY <1>1, AppendProperties, LenProperties
<1> QED
  BY <1>1, <1>2 DEF UpTo, Sorted

-----------------------------------------------------------------------------
(* What a step changes                                                      *)

LEMMA GotStays ==
  ASSUME UNCHANGED got
  PROVE  \A s, n : Times(s, n)' = Times(s, n)
BY DEF Times

LEMMA GotGrows ==
  ASSUME SubjectTypes, NEW s \in Subscribers, NEW v \in Nat,
         got' = [got EXCEPT ![s] = Append(@, v)]
  PROVE  /\ got' \in [Subscribers -> Seq(Nat)]
         /\ got'[s] = Append(got[s], v) /\ \A u \in Subscribers : u # s => got'[u] = got[u]
         /\ Times(s, v)' = Times(s, v) + 1
         /\ \A u \in Subscribers, n \in Nat : u # s \/ n # v => Times(u, n)' = Times(u, n)
<1>1. /\ got[s] \in Seq(Nat) /\ Append(got[s], v) \in Seq(Nat)
      /\ got \in [Subscribers -> Seq(Nat)]
  BY AppendProperties DEF SubjectTypes
<1>2. got'[s] = Append(got[s], v) /\ \A u \in Subscribers : u # s => got'[u] = got[u]
  BY <1>1
<1>3. got' \in [Subscribers -> Seq(Nat)]
  BY <1>1
<1>4. \A u \in Subscribers, n \in Nat :
        Times(u, n) = Count(got[u], n) /\ Times(u, n)' = Count(got'[u], n)
  BY DEF Times, Count
<1>5. Times(s, v)' = Times(s, v) + 1
  BY <1>1, <1>2, <1>4, CountAppend
<1>6. ASSUME NEW u \in Subscribers, NEW n \in Nat, u # s \/ n # v
      PROVE  Times(u, n)' = Times(u, n)
  <2>1. CASE u # s
    BY <1>2, <1>4, <2>1
  <2>2. CASE u = s /\ n # v
    BY <1>1, <1>2, <1>4, <2>2, CountAppend
  <2> QED
    BY <1>6, <2>1, <2>2
<1> QED
  BY <1>2, <1>3, <1>5, <1>6

LEMMA SubMoves ==
  ASSUME SubjectTypes, NEW s \in Subscribers, NEW pc, NEW replay \in Seq(Nat),
         pc \in {"register", "read", "replay", "ask", "open", "wait", "disposed"},
         SubAt(s, pc, replay)
  PROVE  /\ sub' \in [Subscribers -> SubType]
         /\ sub'[s].pc = pc /\ sub'[s].replay = replay
         /\ \A u \in Subscribers : u # s => sub'[u] = sub[u]
<1>1. [pc |-> pc, replay |-> replay] \in SubType
  BY DEF SubType
<1>2. sub' = [sub EXCEPT ![s] = [pc |-> pc, replay |-> replay]] /\ sub \in [Subscribers -> SubType]
  BY DEF SubAt, SubjectTypes
<1> QED
  BY <1>1, <1>2

LEMMA ProdMoves ==
  ASSUME SubjectTypes, NEW p \in Producers, NEW x \in ProdType, prod' = [prod EXCEPT ![p] = x]
  PROVE  /\ prod' \in [Producers -> ProdType]
         /\ prod'[p] = x /\ \A q \in Producers : q # p => prod'[q] = prod[q]
BY DEF SubjectTypes

LEMMA BeginNextKeeps ==
  ASSUME SubjectIInv, NEW p \in scene.producers, BeginNext(p)
  PROVE  SubjectIInv'
<1> DEFINE n == calls + 1
           x == [pc |-> IF Kind = "subject" THEN "snap" ELSE "store", n |-> n, todo |-> {}]
<1>0. /\ SubjectTypes /\ UNCHANGED <<subjectVars, sub, got, woken, result, scene>>
      /\ p \in Producers /\ prod[p].pc = "idle" /\ calls < MaxNext /\ calls' = n
      /\ open' = [open EXCEPT ![n] = Listening]
      /\ gone' = [gone EXCEPT ![n] = {s \in Subscribers : sub[s].pc = "disposed"}]
      /\ \/ completed /\ ended' = ended \cup {n} /\ prod' = prod
         \/ ended' = ended /\ prod' = [prod EXCEPT ![p] = x]
  BY DEF SubjectIInv, SubjectTypes, SceneType, BeginNext
<1>1. /\ calls \in Nat /\ n \in Nat /\ n \in 1 .. MaxNext /\ n \in 1 .. MaxCalls /\ MaxNext \in Nat
      /\ x \in ProdType /\ x.n = n /\ x.todo = {} /\ x.pc \in {"snap", "store"}
  <2>1. calls \in Nat /\ MaxNext \in 0 .. MaxCalls /\ MaxCalls \in Nat
    BY <1>0, ScenesAssumption DEF SubjectTypes, SceneType, MaxNext
  <2>2. n \in Nat /\ n \in 1 .. MaxNext /\ n \in 1 .. MaxCalls
    BY <1>0, <2>1
  <2>3. x.n = n /\ x.todo = {} /\ x.pc \in {"snap", "store"}
    OBVIOUS
  <2>4. x \in ProdType
    BY <2>2 DEF ProdType
  <2> QED
    BY <2>1, <2>2, <2>3, <2>4
<1>2. /\ open'[n] = Listening /\ gone'[n] = {s \in Subscribers : sub[s].pc = "disposed"}
      /\ \A m \in 1 .. MaxCalls : m # n => open'[m] = open[m] /\ gone'[m] = gone[m]
      /\ open' \in [1 .. MaxCalls -> SUBSET Subscribers]
      /\ gone' \in [1 .. MaxCalls -> SUBSET Subscribers]
  BY <1>0, <1>1 DEF SubjectTypes, Listening
<1>3. /\ prod' \in [Producers -> ProdType]
      /\ prod'[p] = prod[p] \/ (prod'[p] = x /\ ended' = ended)
      /\ completed \/ ended' = ended
      /\ ended' \subseteq ended \cup {n}
      /\ \A q \in Producers : q # p => prod'[q] = prod[q]
  <2> HIDE DEF x, n
  <2>1. CASE ended' = ended /\ prod' = [prod EXCEPT ![p] = x]
    BY <1>0, <1>1, <2>1, ProdMoves
  <2>2. CASE completed /\ ended' = ended \cup {n} /\ prod' = prod
    <3>1. prod \in [Producers -> ProdType]
      BY <1>0 DEF SubjectTypes
    <3> QED
      BY <2>2, <3>1
  <2> QED
    BY <1>0, <2>1, <2>2
<1>4. /\ \A s, m : Times(s, m)' = Times(s, m)
      /\ \A s \in Subscribers : Times(s, n) = 0
  <2>1. ASSUME NEW s \in Subscribers PROVE Times(s, n) = 0
    <3>1. got[s] \in Seq(Nat) /\ UpTo(got[s], calls)
      BY <1>0 DEF SubjectIInv, SubjectTypes, ValuesBegan
    <3>2. \A i \in DOMAIN got[s] : got[s][i] < n
      BY <1>1, <3>1, ElementOfSeq DEF UpTo
    <3> QED
      BY <1>1, <3>1, <3>2, CountFacts DEF Times, Count
  <2> QED
    BY <1>0, <2>1, GotStays
<1>5. Kind' = Kind /\ MaxNext' = MaxNext /\ Listening' = Listening
      /\ \A s : Outside(s)' = Outside(s)
  BY <1>0 DEF Kind, MaxNext, Listening, Outside, OutsideAt
<1> HIDE DEF x, n
<1>6. SubjectTypes'
  <2>1. calls' \in 0 .. MaxNext /\ ended' \subseteq 1 .. MaxCalls
    BY <1>0, <1>1, <1>3 DEF SubjectTypes
  <2> QED
    BY <1>0, <1>2, <1>3, <1>5, <2>1 DEF SubjectTypes, subjectVars
<1>7. ValuesBegan'
  <2>1. \A list : list \in Seq(Nat) /\ UpTo(list, calls) => UpTo(list, n)
    BY <1>1, ElementOfSeq DEF UpTo, n
  <2>2. \A s \in Subscribers : sub[s].replay \in Seq(Nat) /\ got[s] \in Seq(Nat)
    BY <1>0 DEF SubjectTypes, SubType
  <2>3. ValuesBegan /\ buffer \in Seq(Nat) /\ value \in Nat
    BY <1>0 DEF SubjectIInv, SubjectTypes
  <2>4. value <= n /\ UpTo(buffer, n)
    BY <1>1, <2>1, <2>3 DEF ValuesBegan, n
  <2>5. \A s \in Subscribers : UpTo(sub[s].replay, n) /\ UpTo(got[s], n)
    BY <2>1, <2>2, <2>3 DEF ValuesBegan
  <2>6. \A m \in 1 .. MaxCalls : m > n => open'[m] = {} /\ gone'[m] = {}
    BY <1>1, <1>2, <2>3 DEF ValuesBegan, n
  <2> QED
    BY <1>0, <2>4, <2>5, <2>6 DEF ValuesBegan, subjectVars
<1>8. CallsApart'
  <2>1. \A m \in ended' : m <= calls'
    <3>1. ended \subseteq Nat /\ \A m \in ended : m <= calls
      BY <1>0 DEF SubjectIInv, CallsApart, SubjectTypes
    <3> QED
      BY <1>0, <1>1, <1>3, <3>1 DEF n
  <2>2. ASSUME NEW q \in Producers, q # p \/ prod'[p] = prod[p], Busy(q)'
        PROVE  Busy(q) /\ q # p /\ q \in scene.producers /\ prod'[q].n \in 1 .. calls
               /\ prod'[q].n \notin ended'
    BY <1>0, <1>1, <1>3, <2>2 DEF SubjectIInv, CallsApart, Busy, n
  <2>3. n \notin ended
    BY <1>1 DEF SubjectIInv, CallsApart, n
  <2>4. \A q \in Producers : Busy(q)' =>
          q \in scene'.producers /\ prod'[q].n \in 1 .. calls' /\ prod'[q].n \notin ended'
    BY <1>0, <1>1, <1>3, <2>2, <2>3 DEF n
  <2>5. ASSUME NEW q \in Producers, NEW r \in Producers, Busy(q)', Busy(r)',
               prod'[q].n = prod'[r].n
        PROVE  q = r
    <3>1. CASE q # p /\ r # p
      BY <1>3, <2>2, <2>5, <3>1 DEF SubjectIInv, CallsApart, Busy
    <3>2. CASE prod'[p] = prod[p]
      BY <1>0, <1>3, <2>5, <3>2 DEF SubjectIInv, CallsApart, Busy
    <3>3. CASE prod'[p] = x /\ (q = p \/ r = p)
      BY <1>1, <1>3, <2>2, <2>5, <3>3 DEF n
    <3> QED
      BY <1>3, <3>1, <3>2, <3>3
  <2> QED
    BY <2>1, <2>4, <2>5 DEF CallsApart
<1>9. Registered'
  BY <1>0, <1>1, <1>3, <1>5 DEF SubjectIInv, Registered, subjectVars
<1>10. Owed'
  <2> SUFFICES ASSUME ~completed, NEW m \in 1 .. MaxCalls, NEW s \in open'[m] \cap Listening
               PROVE  /\ m \in ended' => Times(s, m) = 1
                      /\ \A q \in Producers : Busy(q)' /\ prod'[q].n = m =>
                           Times(s, m) = IF prod'[q].pc = "deliver" /\ s \notin prod'[q].todo
                                         THEN 1 ELSE 0
    BY <1>0, <1>4, <1>5 DEF Owed, subjectVars
  <2>1. s \in Subscribers /\ ended' = ended
    BY <1>3 DEF Listening
  <2>2. CASE m = n
    <3>1. m \notin ended
      BY <1>1, <2>2 DEF SubjectIInv, CallsApart, n
    <3>2. ASSUME NEW q \in Producers, Busy(q)', prod'[q].n = m PROVE prod'[q] = x
      BY <1>0, <1>1, <1>3, <2>2, <3>2 DEF SubjectIInv, CallsApart, Busy, n
    <3> QED
      BY <1>1, <1>4, <2>1, <2>2, <3>1, <3>2
  <2>3. CASE m # n
    <3>1. ASSUME NEW q \in Producers, Busy(q)', prod'[q].n = m PROVE prod'[q] = prod[q]
      BY <1>0, <1>1, <1>3, <2>3, <3>1
    <3> QED
      BY <1>2, <2>1, <2>3, <3>1 DEF SubjectIInv, Owed, Busy
  <2> QED
    BY <2>2, <2>3
<1>11. Left'
  <2> SUFFICES ASSUME NEW m \in 1 .. MaxCalls, NEW s \in gone'[m]
               PROVE  /\ sub[s].pc = "disposed" /\ Times(s, m) = 0
                      /\ \A q \in Producers : Busy(q)' /\ prod'[q].n = m => s \notin prod'[q].todo
    BY <1>0, <1>4 DEF Left
  <2>1. CASE m = n
    <3>1. ASSUME NEW q \in Producers, Busy(q)', prod'[q].n = m PROVE prod'[q] = x
      BY <1>0, <1>1, <1>3, <2>1, <3>1 DEF SubjectIInv, CallsApart, Busy, n
    <3> QED
      BY <1>1, <1>2, <1>4, <2>1, <3>1
  <2>2. CASE m # n
    <3>1. ASSUME NEW q \in Producers, Busy(q)', prod'[q].n = m PROVE prod'[q] = prod[q]
      BY <1>0, <1>1, <1>3, <2>2, <3>1
    <3> QED
      BY <1>2, <2>2, <3>1 DEF SubjectIInv, Left, Busy
  <2> QED
    BY <2>1, <2>2
<1>12. Rising'
  <2> SUFFICES ASSUME Kind # "behavior", Cardinality(scene.producers) = 1
               PROVE  \A q \in Producers : Busy(q)' => prod'[q].n = calls'
    BY <1>0, <1>5 DEF SubjectIInv, Rising, subjectVars
  <2>1. IsFiniteSet(scene.producers)
    BY <1>0, ScenesAssumption, FS_Subset DEF SubjectTypes, SceneType
  <2>2. \A q \in scene.producers : q = p
    BY <2>1, FS_Singleton
  <2>3. \A q \in Producers : Busy(q) => q = p
    BY <2>2 DEF SubjectIInv, CallsApart
  <2> QED
    BY <1>0, <1>1, <1>3, <2>3 DEF Busy
<1>13. Stays'
  BY <1>0, <1>2 DEF SubjectIInv, Stays, Listening
<1> QED
  BY <1>6, <1>7, <1>8, <1>9, <1>10, <1>11, <1>12, <1>13 DEF SubjectIInv

\* The value or the buffer: nobody is called.
LEMMA StoreKeeps ==
  ASSUME SubjectIInv, NEW p \in scene.producers, Store(p)
  PROVE  SubjectIInv'
<1> DEFINE x == [prod[p] EXCEPT !.pc = "snap"]
           v == prod[p].n
<1>0. /\ SubjectTypes
      /\ UNCHANGED <<subscribers, completed, notify, calls, sub, got, woken, result, historyVars>>
      /\ p \in Producers /\ prod[p].pc = "store" /\ prod[p] \in ProdType
      /\ prod' = [prod EXCEPT ![p] = x]
      /\ \/ value' = v /\ buffer' = buffer
         \/ value' = value /\ buffer' \in {Append(buffer, v), Tail(Append(buffer, v))}
  BY DEF SubjectIInv, SubjectTypes, SceneType, Store
<1>1. x \in ProdType /\ x.pc = "snap" /\ x.n = v /\ x.todo = prod[p].todo
  BY <1>0 DEF ProdType
<1>2. /\ prod' \in [Producers -> ProdType]
      /\ prod'[p] = x /\ \A q \in Producers : q # p => prod'[q] = prod[q]
  <2> HIDE DEF x
  <2> QED
    BY <1>0, <1>1, ProdMoves
<1>3. \A q \in Producers : Busy(q)' = Busy(q) /\ prod'[q].n = prod[q].n /\ prod'[q].todo = prod[q].todo
                           /\ (prod'[q].pc = "deliver" <=> prod[q].pc = "deliver")
  BY <1>0, <1>1, <1>2 DEF Busy
<1>4. /\ Kind' = Kind /\ MaxNext' = MaxNext /\ Listening' = Listening
      /\ \A s : Outside(s)' = Outside(s)
      /\ \A s, m : Times(s, m)' = Times(s, m)
  BY <1>0, GotStays DEF Kind, MaxNext, Listening, Outside, OutsideAt, historyVars
<1>5. v \in Nat /\ v <= calls /\ v \in 1 .. calls /\ calls \in Nat
  <2>1. v \in 1 .. calls
    BY <1>0 DEF SubjectIInv, CallsApart, Busy
  <2> QED
    BY <1>0, <2>1 DEF SubjectTypes
<1>6. value' \in Nat /\ value' <= calls /\ buffer' \in Seq(Nat) /\ UpTo(buffer', calls)
  <2>1. /\ buffer \in Seq(Nat) /\ UpTo(buffer, calls) /\ value \in Nat /\ value <= calls
        /\ Append(buffer, v) \in Seq(Nat) /\ UpTo(Append(buffer, v), calls)
        /\ Append(buffer, v) # <<>>
    <3>1. buffer \in Seq(Nat) /\ UpTo(buffer, calls) /\ value \in Nat /\ value <= calls
      BY <1>0 DEF SubjectTypes, SubjectIInv, ValuesBegan
    <3> QED
      BY <1>5, <3>1, ListFacts, AppendProperties, EmptySeq
  <2> HIDE DEF v
  <2>2. Tail(Append(buffer, v)) \in Seq(Nat) /\ UpTo(Tail(Append(buffer, v)), calls)
    BY <1>5, <2>1, ListFacts
  <2> QED
    BY <1>0, <1>5, <2>1, <2>2
<1> HIDE DEF x, v
<1>7. SubjectTypes'
  BY <1>0, <1>2, <1>4, <1>6 DEF SubjectTypes, historyVars
<1>8. ValuesBegan'
  BY <1>0, <1>6 DEF SubjectIInv, ValuesBegan, historyVars
<1>9. CallsApart'
  BY <1>0, <1>3 DEF SubjectIInv, CallsApart, historyVars
<1>10. Registered'
  BY <1>0, <1>3, <1>4 DEF SubjectIInv, Registered
<1>11. Owed'
  BY <1>0, <1>3, <1>4 DEF SubjectIInv, Owed, historyVars
<1>12. Left'
  BY <1>0, <1>3, <1>4 DEF SubjectIInv, Left, historyVars
<1>13. Rising'
  <2> SUFFICES ASSUME Kind # "behavior", Cardinality(scene.producers) = 1
               PROVE  Sorted(buffer')
    BY <1>0, <1>3, <1>4 DEF SubjectIInv, Rising, historyVars
  <2>1. v = calls /\ Sorted(buffer) /\ UpTo(buffer, calls) /\ buffer \in Seq(Nat)
    BY <1>0 DEF SubjectIInv, SubjectTypes, ValuesBegan, Rising, Busy, v
  <2>2. Sorted(Append(buffer, v)) /\ Append(buffer, v) \in Seq(Nat) /\ Append(buffer, v) # <<>>
    BY <1>5, <2>1, ListFacts, AppendProperties, EmptySeq
  <2>3. Sorted(Tail(Append(buffer, v)))
    BY <1>5, <2>2, ListFacts
  <2> QED
    BY <1>0, <2>1, <2>2, <2>3
<1>14. Stays'
  BY <1>0 DEF SubjectIInv, Stays, historyVars
<1> QED
  BY <1>7, <1>8, <1>9, <1>10, <1>11, <1>12, <1>13, <1>14 DEF SubjectIInv

LEMMA SnapKeeps ==
  ASSUME SubjectIInv, NEW p \in scene.producers, Snap(p)
  PROVE  SubjectIInv'
<1> DEFINE x == IF completed THEN ProdIdle
                ELSE [prod[p] EXCEPT !.pc = "deliver", !.todo = subscribers]
<1>0. /\ SubjectTypes
      /\ UNCHANGED <<subjectVars, calls, sub, got, woken, result, scene, open, gone>>
      /\ p \in Producers /\ prod[p].pc = "snap" /\ prod[p] \in ProdType
      /\ prod' = [prod EXCEPT ![p] = x]
      /\ ended' = IF completed THEN ended \cup {prod[p].n} ELSE ended
  BY DEF SubjectIInv, SubjectTypes, SceneType, Snap
<1>1. /\ x \in ProdType
      /\ completed => x = ProdIdle
      /\ ~completed => x.pc = "deliver" /\ x.n = prod[p].n /\ x.todo = subscribers
  <2>1. CASE completed
    BY <2>1 DEF ProdType, ProdIdle
  <2>2. CASE ~completed
    BY <1>0, <2>2 DEF ProdType, SubjectTypes
  <2> QED
    BY <2>1, <2>2
<1>2. /\ prod' \in [Producers -> ProdType]
      /\ prod'[p] = x /\ \A q \in Producers : q # p => prod'[q] = prod[q]
  <2> HIDE DEF x
  <2> QED
    BY <1>0, <1>1, ProdMoves
<1>3. /\ Kind' = Kind /\ MaxNext' = MaxNext /\ Listening' = Listening
      /\ \A s : Outside(s)' = Outside(s)
      /\ \A s, m : Times(s, m)' = Times(s, m)
  BY <1>0, GotStays DEF Kind, MaxNext, Listening, Outside, OutsideAt
<1>4. prod[p].n \in 1 .. calls /\ calls \in Nat
  BY <1>0 DEF SubjectIInv, SubjectTypes, CallsApart, Busy
<1>5. /\ \A q \in Producers : Busy(q)' =>
           /\ Busy(q) /\ prod'[q].n = prod[q].n
           /\ q = p => ~completed /\ prod'[q].pc = "deliver" /\ prod'[q].todo = subscribers
      /\ \A q \in Producers : prod'[q].todo \in {prod[q].todo, subscribers, {}}
  BY <1>0, <1>1, <1>2 DEF Busy, ProdIdle
<1>6. SubjectTypes'
  <2>1. prod[p].n \in 1 .. MaxCalls
    BY <1>0, <1>4, ScenesAssumption DEF SubjectTypes, SceneType, MaxNext
  <2>2. ended' \subseteq 1 .. MaxCalls
    BY <1>0, <2>1 DEF SubjectTypes
  <2> QED
    BY <1>0, <1>2, <1>3, <2>2 DEF SubjectTypes, subjectVars
<1> HIDE DEF x
<1>7. ValuesBegan'
  BY <1>0 DEF SubjectIInv, ValuesBegan, subjectVars
<1>8. CallsApart'
  <2>1. \A n \in ended' : n <= calls'
    BY <1>0, <1>4 DEF SubjectIInv, CallsApart
  <2>2. ASSUME NEW q \in Producers, Busy(q)'
        PROVE  q \in scene.producers /\ prod'[q].n \in 1 .. calls /\ prod'[q].n \notin ended'
    <3>1. q \in scene.producers /\ prod'[q].n \in 1 .. calls /\ prod'[q].n \notin ended
      BY <1>5, <2>2 DEF SubjectIInv, CallsApart
    <3>2. completed => prod'[q].n # prod[p].n
      BY <1>0, <1>5, <2>2 DEF SubjectIInv, CallsApart, Busy
    <3> QED
      BY <1>0, <3>1, <3>2
  <2>3. \A q, r \in Producers : Busy(q)' /\ Busy(r)' /\ prod'[q].n = prod'[r].n => q = r
    BY <1>5 DEF SubjectIInv, CallsApart
  <2> QED
    BY <1>0, <2>1, <2>2, <2>3 DEF CallsApart
<1>9. Registered'
  BY <1>0, <1>3, <1>5 DEF SubjectIInv, Registered, subjectVars
<1>10. Owed'
  <2> SUFFICES ASSUME ~completed, NEW m \in 1 .. MaxCalls, NEW s \in open[m] \cap Listening
               PROVE  /\ m \in ended => Times(s, m) = 1
                      /\ \A q \in Producers : Busy(q)' /\ prod'[q].n = m =>
                           Times(s, m) = IF prod'[q].pc = "deliver" /\ s \notin prod'[q].todo
                                         THEN 1 ELSE 0
    BY <1>0, <1>3 DEF Owed, subjectVars
  <2>1. s \in subscribers
    BY <1>0 DEF SubjectIInv, Registered, Listening, Outside, OutsideAt
  <2>2. m \in ended => Times(s, m) = 1
    BY DEF SubjectIInv, Owed
  <2>3. ASSUME NEW q \in Producers, Busy(q)', prod'[q].n = m
        PROVE  Times(s, m) = IF prod'[q].pc = "deliver" /\ s \notin prod'[q].todo THEN 1 ELSE 0
    <3>1. Busy(q) /\ prod[q].n = m
      BY <1>5, <2>3
    <3>2. Times(s, m) = IF prod[q].pc = "deliver" /\ s \notin prod[q].todo THEN 1 ELSE 0
      BY <3>1 DEF SubjectIInv, Owed
    <3>3. CASE q = p
      BY <1>0, <1>5, <2>1, <2>3, <3>2, <3>3
    <3>4. CASE q # p
      BY <1>2, <3>2, <3>4
    <3> QED
      BY <3>3, <3>4
  <2> QED
    BY <2>2, <2>3
<1>11. Left'
  <2>1. ASSUME NEW m \in 1 .. MaxCalls, NEW s \in gone[m], NEW q \in Producers, Busy(q)',
               prod'[q].n = m
        PROVE  s \notin prod'[q].todo
    <3>1. s \in Subscribers /\ sub[s].pc = "disposed" /\ s \notin subscribers
      BY <1>0 DEF SubjectIInv, SubjectTypes, Left, Registered
    <3>2. s \notin prod[q].todo
      BY <1>5, <2>1 DEF SubjectIInv, Left
    <3> QED
      BY <1>2, <1>5, <2>1, <3>1, <3>2
  <2> QED
    BY <1>0, <1>3, <2>1 DEF SubjectIInv, Left
<1>12. Rising'
  BY <1>0, <1>3, <1>5 DEF SubjectIInv, Rising, subjectVars
<1>13. Stays'
  BY <1>0 DEF SubjectIInv, Stays
<1> QED
  BY <1>6, <1>7, <1>8, <1>9, <1>10, <1>11, <1>12, <1>13 DEF SubjectIInv

LEMMA EndNextKeeps ==
  ASSUME SubjectIInv, NEW p \in scene.producers, EndNext(p)
  PROVE  SubjectIInv'
<1>0. /\ SubjectTypes
      /\ UNCHANGED <<subjectVars, calls, sub, got, woken, result, scene, open, gone>>
      /\ p \in Producers /\ prod[p].pc = "deliver" /\ prod[p].todo = {}
      /\ prod' = [prod EXCEPT ![p] = ProdIdle] /\ ended' = ended \cup {prod[p].n}
  BY DEF SubjectIInv, SubjectTypes, SceneType, EndNext
<1>1. /\ prod' \in [Producers -> ProdType]
      /\ prod'[p] = ProdIdle /\ \A q \in Producers : q # p => prod'[q] = prod[q]
  <2>1. ProdIdle \in ProdType
    BY DEF ProdIdle, ProdType
  <2> QED
    BY <1>0, <2>1, ProdMoves
<1>2. /\ Kind' = Kind /\ MaxNext' = MaxNext /\ Listening' = Listening
      /\ \A s : Outside(s)' = Outside(s)
      /\ \A s, m : Times(s, m)' = Times(s, m)
  BY <1>0, GotStays DEF Kind, MaxNext, Listening, Outside, OutsideAt
<1>3. prod[p].n \in 1 .. calls /\ calls \in Nat /\ Busy(p)
  BY <1>0 DEF SubjectIInv, SubjectTypes, CallsApart, Busy
<1>4. \A q \in Producers : Busy(q)' => q # p /\ Busy(q) /\ prod'[q] = prod[q]
  BY <1>1 DEF Busy, ProdIdle
<1>5. SubjectTypes'
  <2>1. prod[p].n \in 1 .. MaxCalls
    BY <1>0, <1>3, ScenesAssumption DEF SubjectTypes, SceneType, MaxNext
  <2> QED
    BY <1>0, <1>1, <1>2, <2>1 DEF SubjectTypes, subjectVars
<1>6. ValuesBegan'
  BY <1>0 DEF SubjectIInv, ValuesBegan, subjectVars
<1>7. CallsApart'
  BY <1>0, <1>3, <1>4 DEF SubjectIInv, CallsApart
<1>8. Registered'
  BY <1>0, <1>1, <1>2 DEF SubjectIInv, Registered, subjectVars, ProdIdle
<1>9. Owed'
  <2> SUFFICES ASSUME ~completed, NEW m \in 1 .. MaxCalls, NEW s \in open[m] \cap Listening
               PROVE  /\ m \in ended' => Times(s, m) = 1
                      /\ \A q \in Producers : Busy(q)' /\ prod'[q].n = m =>
                           Times(s, m) = IF prod'[q].pc = "deliver" /\ s \notin prod'[q].todo
                                         THEN 1 ELSE 0
    BY <1>0, <1>2 DEF Owed, subjectVars
  <2>1. m \in ended' => Times(s, m) = 1
    BY <1>0, <1>3 DEF SubjectIInv, Owed
  <2> QED
    BY <1>4, <2>1 DEF SubjectIInv, Owed
<1>10. Left'
  BY <1>0, <1>2, <1>4 DEF SubjectIInv, Left
<1>11. Rising'
  BY <1>0, <1>2, <1>4 DEF SubjectIInv, Rising, subjectVars
<1>12. Stays'
  BY <1>0 DEF SubjectIInv, Stays
<1> QED
  BY <1>5, <1>6, <1>7, <1>8, <1>9, <1>10, <1>11, <1>12 DEF SubjectIInv

LEMMA DeliverKeeps ==
  ASSUME SubjectIInv, NEW p \in scene.producers, NEW s \in Subscribers, Deliver(p, s)
  PROVE  SubjectIInv'
<1> DEFINE x == [prod[p] EXCEPT !.todo = @ \ {s}]
<1>v. PICK v \in Nat : v = prod[p].n
  BY DEF SubjectIInv, SubjectTypes, SceneType, ProdType
<1>0. /\ SubjectTypes
      /\ UNCHANGED <<subjectVars, calls, sub, woken, result, historyVars>>
      /\ p \in Producers /\ prod[p].pc = "deliver" /\ s \in prod[p].todo /\ prod[p] \in ProdType
      /\ prod' = [prod EXCEPT ![p] = x] /\ got' = [got EXCEPT ![s] = Append(@, v)]
  BY <1>v DEF SubjectIInv, SubjectTypes, SceneType, Deliver
<1>1. x \in ProdType /\ x.pc = "deliver" /\ x.n = v /\ x.todo = prod[p].todo \ {s}
  BY <1>0, <1>v DEF ProdType
<1>2. /\ prod' \in [Producers -> ProdType]
      /\ prod'[p] = x /\ \A q \in Producers : q # p => prod'[q] = prod[q]
  <2> HIDE DEF x
  <2> QED
    BY <1>0, <1>1, ProdMoves
<1>3. /\ Kind' = Kind /\ MaxNext' = MaxNext /\ Listening' = Listening
      /\ \A u : Outside(u)' = Outside(u)
  BY <1>0 DEF Kind, MaxNext, Listening, Outside, OutsideAt, historyVars
<1>4. v \in 1 .. calls /\ calls \in Nat /\ Busy(p) /\ v \in Nat
  <2>1. v \in 1 .. calls /\ calls \in Nat /\ Busy(p)
    BY <1>0, <1>v DEF SubjectIInv, SubjectTypes, CallsApart, Busy
  <2> QED
    BY <2>1
<1>5. /\ \A q \in Producers : (Busy(q)' <=> Busy(q)) /\ prod'[q].n = prod[q].n
                              /\ prod'[q].pc = prod[q].pc /\ prod'[q].todo \subseteq prod[q].todo
                              /\ (q # p => prod'[q].todo = prod[q].todo)
      /\ prod'[p].todo = prod[p].todo \ {s}
  BY <1>0, <1>1, <1>2 DEF Busy
<1> HIDE DEF x
<1>6. /\ got' \in [Subscribers -> Seq(Nat)]
      /\ got'[s] = Append(got[s], v) /\ \A u \in Subscribers : u # s => got'[u] = got[u]
      /\ Times(s, v)' = Times(s, v) + 1
      /\ \A u \in Subscribers, n \in Nat : u # s \/ n # v => Times(u, n)' = Times(u, n)
  BY <1>0, <1>4, GotGrows
<1>7. SubjectTypes'
  BY <1>0, <1>2, <1>3, <1>6 DEF SubjectTypes, subjectVars, historyVars
<1>8. got[s] \in Seq(Nat) /\ UpTo(got[s], calls) /\ UpTo(got'[s], calls)
  <2>1. got[s] \in Seq(Nat) /\ UpTo(got[s], calls)
    BY <1>0 DEF SubjectIInv, SubjectTypes, ValuesBegan
  <2> QED
    BY <1>4, <1>6, <2>1, ListFacts
<1>9. ValuesBegan'
  BY <1>0, <1>6, <1>8 DEF SubjectIInv, ValuesBegan, subjectVars, historyVars
<1>10. CallsApart'
  BY <1>0, <1>5 DEF SubjectIInv, CallsApart, historyVars
<1>11. Registered'
  BY <1>0, <1>3, <1>5 DEF SubjectIInv, Registered, subjectVars
<1>12. Owed'
  <2> SUFFICES ASSUME ~completed, NEW m \in 1 .. MaxCalls, NEW u \in open[m] \cap Listening
               PROVE  /\ m \in ended => Times(u, m)' = 1
                      /\ \A q \in Producers : Busy(q) /\ prod[q].n = m =>
                           Times(u, m)' = IF prod'[q].pc = "deliver" /\ u \notin prod'[q].todo
                                         THEN 1 ELSE 0
    BY <1>0, <1>3, <1>5 DEF Owed, subjectVars, historyVars
  <2>1. u \in Subscribers /\ m \in Nat
    BY DEF Listening
  <2>2. CASE u = s /\ m = v
    <3>1. Times(s, v) = 0
      BY <1>v, <1>0, <1>4, <2>2 DEF SubjectIInv, Owed
    <3>2. m \notin ended
      BY <1>v, <1>0, <1>4, <2>2 DEF SubjectIInv, CallsApart
    <3>3. ASSUME NEW q \in Producers, Busy(q), prod[q].n = m PROVE q = p
      BY <1>v, <1>0, <1>4, <2>2, <3>3 DEF SubjectIInv, CallsApart
    <3> QED
      BY <1>0, <1>5, <1>6, <2>2, <3>1, <3>2, <3>3
  <2>3. CASE ~(u = s /\ m = v)
    <3>1. Times(u, m)' = Times(u, m)
      BY <1>6, <2>1, <2>3
    <3>2. ASSUME NEW q \in Producers, Busy(q), prod[q].n = m
          PROVE  u \in prod'[q].todo <=> u \in prod[q].todo
      BY <1>5, <2>3, <3>2, <1>v
    <3> QED
      BY <1>5, <3>1, <3>2 DEF SubjectIInv, Owed
  <2> QED
    BY <2>2, <2>3
<1>13. Left'
  <2>1. ASSUME NEW m \in 1 .. MaxCalls, NEW u \in gone[m]
        PROVE  Times(u, m)' = 0
    <3>1. ~(u = s /\ m = v)
      BY <1>v, <1>0, <1>4 DEF SubjectIInv, Left
    <3>2. u \in Subscribers /\ m \in Nat /\ Times(u, m) = 0
      <4>1. open \in [1 .. MaxCalls -> SUBSET Subscribers] /\ gone[m] \subseteq Subscribers
        BY <1>0 DEF SubjectTypes
      <4> QED
        BY <4>1 DEF SubjectIInv, Left
    <3> QED
      BY <1>6, <3>1, <3>2
  <2> QED
    BY <1>0, <1>5, <2>1 DEF SubjectIInv, Left, historyVars
<1>14. Rising'
  <2> SUFFICES ASSUME Kind # "behavior", Cardinality(scene.producers) = 1
               PROVE  /\ Sorted(got'[s])
                      /\ \A i \in DOMAIN got'[s], j \in DOMAIN sub[s].replay :
                           got'[s][i] <= sub[s].replay[j]
                      /\ sub[s].pc = "idle" => got'[s] = <<>>
    BY <1>0, <1>3, <1>5, <1>6 DEF SubjectIInv, Rising, subjectVars, historyVars
  <2>1. v = calls /\ Sorted(got[s]) /\ ~Outside(s)
    BY <1>v, <1>0, <1>4 DEF SubjectIInv, Rising, Registered
  <2>2. sub[s].replay = <<>> /\ sub[s].pc # "idle"
    BY <2>1 DEF Outside, OutsideAt, SubjectIInv, Rising
  <2>3. DOMAIN sub[s].replay = {}
    BY <2>2, EmptySeq
  <2> QED
    BY <1>4, <1>6, <1>8, <2>1, <2>2, <2>3, ListFacts
<1>15. Stays'
  BY <1>0 DEF SubjectIInv, Stays, historyVars
<1> QED
  BY <1>7, <1>9, <1>10, <1>11, <1>12, <1>13, <1>14, <1>15 DEF SubjectIInv

\* A step of a Subscribe or a Dispose that calls nobody.
LEMMA SubscriberKeeps ==
  ASSUME SubjectIInv, NEW s \in Subscribers, NEW replay \in Seq(Nat), NEW pc,
         pc \in {"register", "read", "replay", "ask", "open", "wait", "disposed"},
         SubAt(s, pc, replay),
         UNCHANGED <<completed, value, buffer, calls, prod, got, historyVars>>,
         subscribers' \subseteq Subscribers,
         \A u \in Subscribers \ {s} : u \in subscribers' <=> u \in subscribers,
         sub[s].pc # "disposed", sub[s].pc \in {"open", "wait"} => pc = "disposed",
         ~completed /\ ~OutsideAt(pc) /\ pc # "disposed" => s \in subscribers',
         OutsideAt(pc) \/ pc = "disposed" => s \notin subscribers',
         OutsideAt(pc) => Outside(s),
         pc = "read" => Kind = "behavior", pc = "replay" => Kind # "subject",
         UpTo(replay, calls), replay # <<>> => pc = "replay",
         replay = <<>> \/ Kind = "behavior" \/ (replay = buffer /\ sub[s].pc = "idle")
  PROVE  SubjectIInv'
<1>0. /\ SubjectTypes /\ Kind' = Kind /\ MaxNext' = MaxNext
      /\ \A u, m : Times(u, m)' = Times(u, m)
      /\ \A u : Busy(u)' = Busy(u)
  BY GotStays DEF SubjectIInv, Kind, MaxNext, Busy, historyVars
<1>1. /\ sub' \in [Subscribers -> SubType]
      /\ sub'[s].pc = pc /\ sub'[s].replay = replay
      /\ \A u \in Subscribers : u # s => sub'[u] = sub[u]
  BY <1>0, SubMoves
<1>2. /\ \A u \in Subscribers : u # s => (Outside(u)' <=> Outside(u))
      /\ Outside(s)' <=> OutsideAt(pc)
  BY <1>0, <1>1 DEF Outside, OutsideAt
<1>3. SubjectTypes'
  BY <1>0, <1>1 DEF SubjectTypes, historyVars
<1>4. ValuesBegan'
  BY <1>1 DEF SubjectIInv, ValuesBegan, historyVars
<1>5. CallsApart'
  BY <1>0 DEF SubjectIInv, CallsApart, historyVars
<1>6. Registered'
  BY <1>0, <1>1, <1>2 DEF SubjectIInv, Registered
<1>7. Stays' /\ \A m \in 1 .. MaxCalls : open[m] \cap Listening' \subseteq Listening
  <2>1. \A m \in 1 .. MaxCalls : open[m] \subseteq Subscribers
    BY <1>0 DEF SubjectTypes
  <2> QED
    BY <1>1, <2>1 DEF SubjectIInv, Stays, Listening, historyVars
<1>8. Owed'
  BY <1>0, <1>7 DEF SubjectIInv, Owed, historyVars
<1>9. Left'
  <2>1. \A m \in 1 .. MaxCalls : gone[m] \subseteq Subscribers
    BY <1>0 DEF SubjectTypes
  <2> QED
    BY <1>0, <1>1, <2>1 DEF SubjectIInv, Left, historyVars
<1>10. Rising'
  <2> SUFFICES ASSUME Kind # "behavior", Cardinality(scene.producers) = 1
               PROVE  /\ Sorted(replay) /\ pc # "idle"
                      /\ \A i \in DOMAIN got[s], j \in DOMAIN replay : got[s][i] <= replay[j]
    BY <1>0, <1>1 DEF SubjectIInv, Rising, historyVars
  <2>1. CASE replay = <<>>
    <3>1. DOMAIN replay = {}
      BY <2>1, EmptySeq
    <3> QED
      BY <3>1 DEF Sorted
  <2>2. CASE replay = buffer /\ sub[s].pc = "idle"
    <3>1. Sorted(buffer) /\ got[s] = <<>>
      BY <2>2 DEF SubjectIInv, Rising
    <3>2. DOMAIN got[s] = {}
      BY <3>1, EmptySeq
    <3> QED
      BY <2>2, <3>1, <3>2
  <2> QED
    BY <2>1, <2>2
<1> QED
  BY <1>3, <1>4, <1>5, <1>6, <1>7, <1>8, <1>9, <1>10 DEF SubjectIInv

LEMMA ReplayNextKeeps ==
  ASSUME SubjectIInv, NEW s \in Subscribers, Replay(s), sub[s].replay # <<>>
  PROVE  SubjectIInv'
<1> PICK rest \in Seq(Nat) : rest = sub[s].replay
  BY DEF SubjectIInv, SubjectTypes, SubType
<1> PICK v \in Nat : v = Head(rest)
  BY ListFacts
<1>0. /\ SubjectTypes /\ sub[s].pc = "replay" /\ rest # <<>>
      /\ SubAt(s, "replay", Tail(rest)) /\ got' = [got EXCEPT ![s] = Append(@, v)]
      /\ UNCHANGED <<subjectVars, calls, prod, woken, result, historyVars>>
  BY DEF SubjectIInv, Replay
<1>1. /\ Tail(rest) \in Seq(Nat) /\ calls \in Nat /\ UpTo(rest, calls) /\ UpTo(got[s], calls)
      /\ v <= calls /\ UpTo(Tail(rest), calls) /\ got[s] \in Seq(Nat)
  <2>1. calls \in Nat /\ UpTo(rest, calls) /\ got[s] \in Seq(Nat) /\ UpTo(got[s], calls)
    BY <1>0 DEF SubjectIInv, SubjectTypes, ValuesBegan
  <2> QED
    BY <1>0, <2>1, ListFacts
<1>2. /\ sub' \in [Subscribers -> SubType]
      /\ sub'[s].pc = "replay" /\ sub'[s].replay = Tail(rest)
      /\ \A u \in Subscribers : u # s => sub'[u] = sub[u]
  BY <1>0, <1>1, SubMoves
<1>3. /\ got' \in [Subscribers -> Seq(Nat)]
      /\ got'[s] = Append(got[s], v) /\ \A u \in Subscribers : u # s => got'[u] = got[u]
      /\ \A u \in Subscribers, n \in Nat : u # s \/ n # v => Times(u, n)' = Times(u, n)
  BY <1>0, GotGrows
<1>4. /\ Kind' = Kind /\ MaxNext' = MaxNext
      /\ \A q : Busy(q)' = Busy(q)
  BY <1>0 DEF Kind, MaxNext, Busy, historyVars
<1>5. \A u \in Subscribers : sub'[u].pc = sub[u].pc
  BY <1>0, <1>2
<1>6. Listening' = Listening /\ \A u \in Subscribers : Outside(u)' <=> Outside(u)
  BY <1>4, <1>5 DEF Listening, Outside, OutsideAt
<1>7. SubjectTypes'
  BY <1>0, <1>2, <1>3, <1>4 DEF SubjectTypes, subjectVars, historyVars
<1>8. ValuesBegan'
  <2>1. UpTo(got'[s], calls)
    BY <1>1, <1>3, ListFacts
  <2> QED
    BY <1>0, <1>1, <1>2, <1>3, <2>1 DEF SubjectIInv, ValuesBegan, subjectVars, historyVars
<1>9. CallsApart'
  BY <1>0, <1>4 DEF SubjectIInv, CallsApart, historyVars
<1>10. Registered'
  BY <1>0, <1>4, <1>5, <1>6 DEF SubjectIInv, Registered, subjectVars
<1>11. \A m \in 1 .. MaxCalls : open[m] \subseteq Subscribers /\ gone[m] \subseteq Subscribers
  BY <1>0 DEF SubjectTypes
<1>12. Stays'
  BY <1>0, <1>5, <1>11 DEF SubjectIInv, Stays, historyVars
<1>13. Owed'
  <2>1. \A m \in 1 .. MaxCalls : \A u \in open[m] \cap Listening : Times(u, m)' = Times(u, m)
    BY <1>0, <1>3, <1>11 DEF Listening
  <2> QED
    BY <1>0, <1>4, <1>6, <2>1 DEF SubjectIInv, Owed, subjectVars, historyVars
<1>14. Left'
  <2>1. \A m \in 1 .. MaxCalls : \A u \in gone[m] : u # s
    BY <1>0 DEF SubjectIInv, Left
  <2>2. \A m \in 1 .. MaxCalls : \A u \in gone[m] : Times(u, m)' = Times(u, m)
    BY <1>3, <1>11, <2>1
  <2> QED
    BY <1>0, <1>4, <1>5, <1>11, <2>2 DEF SubjectIInv, Left, historyVars
<1>15. Rising'
  <2> SUFFICES ASSUME Kind # "behavior", Cardinality(scene.producers) = 1
               PROVE  /\ Sorted(got'[s]) /\ Sorted(Tail(rest))
                      /\ \A i \in DOMAIN got'[s], j \in DOMAIN Tail(rest) :
                           got'[s][i] <= Tail(rest)[j]
    <3>1. Rising /\ scene' = scene /\ buffer' = buffer /\ calls' = calls /\ prod' = prod
      BY <1>0 DEF SubjectIInv, subjectVars, historyVars
    <3> QED
      BY <1>2, <1>3, <1>4, <3>1 DEF Rising
  <2>1. /\ Sorted(got[s]) /\ Sorted(rest)
        /\ \A i \in DOMAIN got[s], j \in DOMAIN rest : got[s][i] <= rest[j]
    BY DEF SubjectIInv, Rising
  <2>2. /\ UpTo(got[s], v)
        /\ \A i \in DOMAIN Append(got[s], v), j \in DOMAIN Tail(rest) :
             Append(got[s], v)[i] <= Tail(rest)[j]
    BY <1>0, <1>1, <2>1, HeadFacts
  <2> QED
    BY <1>0, <1>1, <1>3, <2>1, <2>2, ListFacts
<1> QED
  BY <1>7, <1>8, <1>9, <1>10, <1>12, <1>13, <1>14, <1>15 DEF SubjectIInv

LEMMA CompleteKeeps ==
  ASSUME SubjectIInv, Complete
  PROVE  SubjectIInv'
<1>0. /\ SubjectTypes /\ completed' = TRUE /\ subscribers' = {}
      /\ UNCHANGED <<value, buffer, calls, prod, sub, got, scene, open, gone, ended>>
  BY DEF SubjectIInv, Complete
<1>1. /\ Kind' = Kind /\ MaxNext' = MaxNext
      /\ \A q : Busy(q)' = Busy(q)
      /\ \A u : Outside(u)' = Outside(u)
      /\ \A u, m : Times(u, m)' = Times(u, m)
  BY <1>0, GotStays DEF Kind, MaxNext, Busy, Outside, OutsideAt
<1>2. SubjectTypes'
  BY <1>0, <1>1 DEF SubjectTypes
<1>3. ValuesBegan' /\ Stays'
  BY <1>0 DEF SubjectIInv, ValuesBegan, Stays
<1>4. CallsApart'
  BY <1>0, <1>1 DEF SubjectIInv, CallsApart
<1>5. Registered' /\ Owed'
  BY <1>0, <1>1 DEF SubjectIInv, Registered, Owed
<1>6. Left'
  BY <1>0, <1>1 DEF SubjectIInv, Left
<1>7. Rising'
  BY <1>0, <1>1 DEF SubjectIInv, Rising
<1> QED
  BY <1>2, <1>3, <1>4, <1>5, <1>6, <1>7 DEF SubjectIInv

LEMMA SubscribeStepKeeps ==
  ASSUME SubjectIInv, NEW s \in scene.subscribers, SubscribeStep(s) \/ Dispose(s)
  PROVE  SubjectIInv'
<1>0. /\ SubjectTypes /\ s \in Subscribers /\ <<>> \in Seq(Nat) /\ UpTo(<<>>, calls)
      /\ buffer \in Seq(Nat) /\ UpTo(buffer, calls) /\ subscribers \subseteq Subscribers
      /\ sub[s].replay \in Seq(Nat)
  <2>1. DOMAIN <<>> = {} /\ <<>> \in Seq(Nat)
    BY EmptySeq
  <2> QED
    BY <2>1 DEF SubjectIInv, SubjectTypes, SceneType, ValuesBegan, UpTo, SubType
<1>1. Subscribed(s) \in {"ask", "open"} /\ ~OutsideAt("ask") /\ ~OutsideAt("open")
  BY DEF Subscribed, OutsideAt
<1>2. CASE CopyBuffer(s)
  BY <1>0, <1>2, SubscriberKeeps DEF CopyBuffer, subjectVars, OutsideAt, Outside,
        SubjectIInv, Registered
<1>3. CASE Register(s)
  <2> DEFINE pc == IF Kind = "behavior" THEN "read" ELSE Subscribed(s)
  <2>1. /\ SubAt(s, pc, <<>>) /\ sub[s].pc \in {"idle", "register"}
        /\ UNCHANGED <<completed, value, buffer, calls, prod, got, historyVars>>
        /\ subscribers' = IF completed THEN subscribers ELSE subscribers \cup {s}
    BY <1>3 DEF Register, historyVars
  <2>2. pc \in {"read", "ask", "open"} /\ ~OutsideAt(pc) /\ (pc = "read" => Kind = "behavior")
    BY <1>1 DEF OutsideAt
  <2> HIDE DEF pc
  <2> QED
    BY <1>0, <2>1, <2>2, SubscriberKeeps
<1>4. CASE ReadValue(s)
  <2>0. /\ sub[s].pc = "read" /\ Kind = "behavior" /\ ~Outside(s)
        /\ UNCHANGED <<subscribers, completed, value, buffer, calls, prod, got, historyVars>>
        /\ ~completed => s \in subscribers
    BY <1>0, <1>4 DEF ReadValue, SubjectIInv, Registered, Outside, OutsideAt, subjectVars
  <2>1. CASE SubAt(s, Subscribed(s), <<>>)
    BY <1>0, <1>1, <2>0, <2>1, SubscriberKeeps
  <2>2. CASE SubAt(s, "replay", <<value>>)
    <3>1. <<value>> \in Seq(Nat) /\ UpTo(<<value>>, calls) /\ ~OutsideAt("replay")
      BY <1>0, <2>0 DEF SubjectIInv, SubjectTypes, ValuesBegan, UpTo, OutsideAt
    <3> QED
      BY <1>0, <2>0, <2>2, <3>1, SubscriberKeeps
  <2> QED
    BY <1>4, <2>1, <2>2 DEF ReadValue
<1>5. CASE Replay(s)
  <2>1. CASE sub[s].replay # <<>>
    BY <1>0, <1>5, <2>1, ReplayNextKeeps
  <2>2. CASE sub[s].replay = <<>>
    <3> DEFINE pc == IF Kind = "replay" THEN "register" ELSE Subscribed(s)
    <3>1. /\ sub[s].pc = "replay" /\ SubAt(s, pc, <<>>)
          /\ UNCHANGED <<subscribers, completed, value, buffer, calls, prod, got, historyVars>>
      BY <1>5, <2>2 DEF Replay, subjectVars
    <3>2. pc \in {"register", "ask", "open"}
      BY <1>1
    <3>3. /\ OutsideAt(pc) => Outside(s) /\ s \notin subscribers
          /\ ~completed /\ ~OutsideAt(pc) => s \in subscribers
      <4>1. CASE Kind = "replay"
        BY <1>0, <3>1, <4>1 DEF SubjectIInv, Registered, Outside, OutsideAt
      <4>2. CASE Kind = "behavior"
        BY <1>0, <1>1, <3>1, <4>2 DEF SubjectIInv, Registered, Outside, OutsideAt
      <4>3. CASE Kind = "subject"
        BY <1>0, <1>1, <3>1, <4>3 DEF SubjectIInv, Registered, Outside, OutsideAt
      <4> QED
        BY <1>0, <4>1, <4>2, <4>3 DEF SubjectTypes, SceneType, Kind
    <3> HIDE DEF pc
    <3> QED
      BY <1>0, <3>1, <3>2, <3>3, SubscriberKeeps
  <2> QED
    BY <2>1, <2>2
<1>6. CASE OnCompleteNotify(s)
  <2>1. /\ sub[s].pc = "ask" /\ SubAt(s, "wait", <<>>) /\ ~OutsideAt("wait") /\ ~Outside(s)
        /\ UNCHANGED <<subscribers, completed, value, buffer, calls, prod, got, historyVars>>
    BY <1>6 DEF OnCompleteNotify, Outside, OutsideAt
  <2>2. ~completed => s \in subscribers
    BY <1>0, <2>1 DEF SubjectIInv, Registered
  <2> QED
    BY <1>0, <2>1, <2>2, SubscriberKeeps
<1>7. CASE FirstValue(s) \/ Dispose(s)
  <2>1. /\ sub[s].pc \in {"open", "wait"} /\ SubAt(s, "disposed", <<>>) /\ ~OutsideAt("disposed")
        /\ subscribers' = subscribers \ {s}
        /\ UNCHANGED <<completed, value, buffer, calls, prod, got, historyVars>>
    BY <1>7 DEF FirstValue, Dispose, OutsideAt
  <2> QED
    BY <1>0, <2>1, SubscriberKeeps
<1> QED
  BY <1>2, <1>3, <1>4, <1>5, <1>6, <1>7 DEF SubscribeStep

LEMMA SubjectInitial ==
  ASSUME Init
  PROVE  SubjectIInv
<1>0. /\ <<>> \in Seq(Nat) /\ DOMAIN <<>> = {}
      /\ ProdIdle \in ProdType /\ [pc |-> "idle", replay |-> <<>>] \in SubType
      /\ scene \in SceneType
  BY EmptySeq, ScenesAssumption DEF ProdIdle, ProdType, SubType, Init
<1>1. /\ \A p \in Producers : prod[p] = ProdIdle /\ ~Busy(p)
      /\ \A s \in Subscribers : got[s] = <<>> /\ sub[s].pc = "idle" /\ sub[s].replay = <<>>
      /\ \A n \in 1 .. MaxCalls : open[n] = {} /\ gone[n] = {}
  BY DEF Init, Busy, ProdIdle
<1>2. SubjectTypes
  <2>1. MaxNext \in Nat
    BY <1>0, ScenesAssumption DEF MaxNext, SceneType
  <2>2. /\ prod \in [Producers -> ProdType] /\ sub \in [Subscribers -> SubType]
        /\ got \in [Subscribers -> Seq(Nat)]
        /\ open \in [1 .. MaxCalls -> SUBSET Subscribers]
        /\ gone \in [1 .. MaxCalls -> SUBSET Subscribers]
    BY <1>0 DEF Init
  <2>3. /\ subscribers \subseteq Subscribers /\ completed \in BOOLEAN
        /\ ended \subseteq 1 .. MaxCalls /\ buffer \in Seq(Nat)
    BY <1>0 DEF Init
  <2>4. value \in Nat /\ calls \in 0 .. MaxNext
    BY <2>1 DEF Init
  <2> QED
    BY <1>0, <2>2, <2>3, <2>4 DEF SubjectTypes
<1>3. ValuesBegan /\ CallsApart /\ Stays /\ Owed /\ Left
  BY <1>0, <1>1 DEF Init, ValuesBegan, CallsApart, Stays, Owed, Left, UpTo
<1>4. Registered
  BY <1>1 DEF Init, Registered, Outside, OutsideAt, ProdIdle
<1>5. Rising
  BY <1>0, <1>1 DEF Init, Rising, Sorted
<1> QED
  BY <1>2, <1>3, <1>4, <1>5 DEF SubjectIInv

LEMMA SubjectInductive ==
  SubjectIInv /\ [Next]_vars => SubjectIInv'
<1> SUFFICES ASSUME SubjectIInv, [Next]_vars PROVE SubjectIInv'
  OBVIOUS
<1>1. ASSUME NEW p \in scene.producers, BeginNext(p) PROVE SubjectIInv'
  BY <1>1, BeginNextKeeps
<1>2. ASSUME NEW p \in scene.producers, ProducerStep(p) PROVE SubjectIInv'
  BY <1>2, StoreKeeps, SnapKeeps, EndNextKeeps, DeliverKeeps DEF ProducerStep
<1>3. ASSUME NEW s \in scene.subscribers, SubscribeStep(s) \/ Dispose(s) PROVE SubjectIInv'
  BY <1>3, SubscribeStepKeeps
<1>4. CASE Complete
  BY <1>4, CompleteKeeps
<1>5. CASE UNCHANGED vars
  <2>1. UNCHANGED <<scene, subscribers, completed, value, buffer, calls, prod, sub, got, open, gone,
                    ended>>
    BY <1>5 DEF vars, subjectVars, historyVars
  <2>2. /\ Kind' = Kind /\ MaxNext' = MaxNext /\ Listening' = Listening
        /\ \A q : Busy(q)' = Busy(q)
        /\ \A u : Outside(u)' = Outside(u)
        /\ \A u, m : Times(u, m)' = Times(u, m)
    BY <2>1, GotStays DEF Kind, MaxNext, Listening, Busy, Outside, OutsideAt
  <2> QED
    BY <2>1, <2>2 DEF SubjectIInv, SubjectTypes, ValuesBegan, CallsApart, Registered, Owed, Stays,
          Left, Rising
<1> QED
  BY <1>1, <1>2, <1>3, <1>4, <1>5 DEF Next

-----------------------------------------------------------------------------
(* The theorems                                                             *)

\* Subject.Next, BehaviorSubject.Next and ReplaySubject.Next: whoever is subscribed
\* from before a call until after it gets its value once, and whoever disposed before
\* it never gets it, however Subscribe, Dispose, Complete and other calls interleave.
THEOREM SubjectDelivers == Spec => []DeliveredOnce
<1>1. Init => SubjectIInv
  BY SubjectInitial
<1>2. SubjectIInv => DeliveredOnce
  <2> SUFFICES ASSUME SubjectIInv PROVE DeliveredOnce
    OBVIOUS
  <2>1. MaxNext \in 0 .. MaxCalls /\ MaxCalls \in Nat
    BY ScenesAssumption DEF SubjectIInv, SubjectTypes, SceneType, MaxNext
  <2>2. ASSUME ~completed, NEW n \in ended, NEW s \in open[n] \cap Listening PROVE Times(s, n) = 1
    BY <2>2 DEF SubjectIInv, SubjectTypes, Owed
  <2>3. ASSUME NEW n \in 1 .. MaxNext, NEW s \in gone[n] PROVE Times(s, n) = 0
    BY <2>1 DEF SubjectIInv, Left
  <2> QED
    BY <2>2, <2>3 DEF DeliveredOnce
<1> QED
  BY <1>1, <1>2, SubjectInductive, PTL DEF Spec

\* Subscribe of a ReplaySubject replays its buffer before live values arrive, and a
\* Subject calls its subscribers in the order of the calls: with one goroutine calling
\* Next no subscriber goes back to an older value.
THEOREM SubjectOrders == Spec => []InOrder
<1>1. Init => SubjectIInv
  BY SubjectInitial
<1>2. SubjectIInv => InOrder
  <2>1. SubjectIInv => \A s \in Subscribers : DOMAIN got[s] = 1 .. Len(got[s])
    BY LenProperties DEF SubjectIInv, SubjectTypes
  <2> QED
    BY <2>1 DEF SubjectIInv, Rising, Sorted, InOrder
<1> QED
  BY <1>1, <1>2, SubjectInductive, PTL DEF Spec
=============================================================================
