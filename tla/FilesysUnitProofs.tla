------------------------- MODULE FilesysUnitProofs --------------------------
(* Proofs about FilesysUnit, for any units, packets and bounds: the threads  *)
(* of the old machine are gone when a reset ends, a packet is answered before*)
(* it is replied, and as long as only uae_reset restarts the machine every   *)
(* packet is in one place and the pipes have room.                           *)
EXTENDS FilesysUnit, TLAPS, FiniteSetTheorems, FunctionTheorems

-----------------------------------------------------------------------------
(* How often a message is in a sequence.                                     *)
Places(m, seq) == {i \in DOMAIN seq : seq[i] = m}
One(b) == IF b THEN 1 ELSE 0

(* The places are finitely many.                                             *)
LEMMA PlacesFinite ==
  ASSUME NEW S, NEW m, NEW seq \in Seq(S)
  PROVE  /\ IsFiniteSet(Places(m, seq)) /\ Occurrences(m, seq) = Cardinality(Places(m, seq))
         /\ Occurrences(m, seq) \in Nat
<1>1. IsFiniteSet(1..Len(seq)) /\ DOMAIN seq = 1..Len(seq)
  BY FS_Interval
<1>2. Places(m, seq) \in SUBSET (1..Len(seq))
  BY <1>1 DEF Places
<1>3. IsFiniteSet(Places(m, seq))
  BY <1>1, <1>2, FS_Subset
<1>4. Occurrences(m, seq) = Cardinality(Places(m, seq))
  BY DEF Occurrences, Places
<1> QED
  BY <1>3, <1>4, FS_CardinalityType

(* One that is nowhere in it occurs no times, and the other way round.       *)
LEMMA OccursNowhere ==
  ASSUME NEW S, NEW m, NEW seq \in Seq(S)
  PROVE  Occurrences(m, seq) = 0 <=> \A i \in 1..Len(seq) : seq[i] # m
<1>1. Occurrences(m, seq) = 0 <=> Places(m, seq) = {}
  BY PlacesFinite, FS_EmptySet
<1>2. DOMAIN seq = 1..Len(seq)
  OBVIOUS
<1> QED
  BY <1>1, <1>2 DEF Places

(* One that occurs at most once is not in two places.                        *)
LEMMA OccursOnce ==
  ASSUME NEW S, NEW m, NEW seq \in Seq(S), Occurrences(m, seq) <= 1,
         NEW i \in 1..Len(seq), NEW j \in 1..Len(seq), seq[i] = m, seq[j] = m
  PROVE  i = j
<1>1. i \in Places(m, seq) /\ j \in Places(m, seq)
  BY DEF Places
<1>2. /\ IsFiniteSet(Places(m, seq)) /\ Cardinality(Places(m, seq)) \in Nat
      /\ Cardinality(Places(m, seq)) <= 1
  BY PlacesFinite
<1>3. PICK x : Places(m, seq) = {x}
  <2>1. Cardinality(Places(m, seq)) # 0
    BY <1>1, <1>2, FS_EmptySet
  <2>2. Cardinality(Places(m, seq)) = 1
    BY <1>2, <2>1
  <2> QED
    BY <1>2, <2>2, FS_Singleton
<1> QED
  BY <1>1, <1>3

(* Appending counts what is appended.                                        *)
LEMMA OccursAppend ==
  ASSUME NEW S, NEW m, NEW seq \in Seq(S), NEW x \in S
  PROVE  Occurrences(m, Append(seq, x)) = Occurrences(m, seq) + One(x = m)
<1>1. Append(seq, x) \in Seq(S)
  OBVIOUS
<1>2. CASE x = m
  <2>1. Places(m, Append(seq, x)) = Places(m, seq) \cup {Len(seq) + 1}
    BY <1>2 DEF Places
  <2>2. Len(seq) + 1 \notin Places(m, seq)
    BY DEF Places
  <2>3. Cardinality(Places(m, seq) \cup {Len(seq) + 1}) = Cardinality(Places(m, seq)) + 1
    BY <2>2, PlacesFinite, FS_AddElement
  <2> QED
    BY <1>1, <1>2, <2>1, <2>3, PlacesFinite DEF One
<1>3. CASE x # m
  <2>1. Places(m, Append(seq, x)) = Places(m, seq)
    BY <1>3 DEF Places
  <2>2. Occurrences(m, Append(seq, x)) = Occurrences(m, seq) /\ Occurrences(m, seq) \in Nat
    BY <1>1, <2>1, PlacesFinite
  <2>3. One(x = m) = 0
    BY <1>3 DEF One
  <2> QED
    BY <2>2, <2>3
<1> QED
  BY <1>2, <1>3

(* Taking one out, wherever it is, counts it out.                            *)
LEMMA OccursRemoveAt ==
  ASSUME NEW S, NEW m, NEW seq \in Seq(S), NEW n \in 1..Len(seq)
  PROVE  /\ RemoveAt(seq, n) \in Seq(S) /\ Len(RemoveAt(seq, n)) = Len(seq) - 1
         /\ \A i \in 1..Len(seq) - 1 :
              RemoveAt(seq, n)[i] = IF i < n THEN seq[i] ELSE seq[i + 1]
         /\ Occurrences(m, seq) = One(seq[n] = m) + Occurrences(m, RemoveAt(seq, n))
<1> DEFINE l == SubSeq(seq, 1, n - 1)
           h == SubSeq(seq, n + 1, Len(seq))
           r == RemoveAt(seq, n)
<1>0. Len(seq) \in Nat /\ n \in Nat
  OBVIOUS
<1>1. l \in Seq(S) /\ Len(l) = n - 1 /\ \A i \in 1..(n - 1) : l[i] = seq[i]
  OBVIOUS
<1>2. h \in Seq(S) /\ Len(h) = Len(seq) - n /\ \A i \in 1..(Len(seq) - n) : h[i] = seq[n + i]
  OBVIOUS
<1> HIDE DEF l, h
<1>3. l \o h \in Seq(S) /\ Len(l \o h) = Len(seq) - 1
  <2>1. l \in Seq(S) /\ h \in Seq(S)
    BY <1>1, <1>2
  <2>2. l \o h \in Seq(S)
    BY ONLY <2>1
  <2>3. Len(l \o h) = Len(l) + Len(h)
    BY ONLY <2>1
  <2> QED
    BY <1>0, <1>1, <1>2, <2>2, <2>3
<1>4. \A i \in 1..Len(seq) - 1 : (l \o h)[i] = IF i < n THEN seq[i] ELSE seq[i + 1]
  <2> TAKE i \in 1..Len(seq) - 1
  <2>1. CASE i < n
    BY <1>0, <1>1, <1>2, <2>1
  <2>2. CASE ~(i < n)
    <3>1. (l \o h)[i] = h[i - (n - 1)] /\ i - (n - 1) \in 1..(Len(seq) - n)
      BY <1>0, <1>1, <1>2, <2>2
    <3>2. n + (i - (n - 1)) = i + 1
      BY <1>0
    <3> QED
      BY <1>2, <2>2, <3>1, <3>2
  <2> QED
    BY <2>1, <2>2
<1>5. r = l \o h
  BY DEF RemoveAt, l, h
<1>6. /\ r \in Seq(S) /\ Len(r) = Len(seq) - 1
      /\ \A i \in 1..Len(seq) - 1 : r[i] = IF i < n THEN seq[i] ELSE seq[i + 1]
  BY <1>3, <1>4, <1>5
<1> HIDE DEF r
<1> DEFINE T == Places(m, r)
           U == Places(m, seq) \ {n}
           f == [i \in T |-> IF i < n THEN i ELSE i + 1]
<1>7. /\ T = {i \in 1..Len(seq) - 1 : m = IF i < n THEN seq[i] ELSE seq[i + 1]}
      /\ U = {i \in 1..Len(seq) : seq[i] = m /\ i # n}
  BY <1>6 DEF Places
<1>8. f \in Bijection(T, U)
  <2>1. f \in [T -> U]
    BY <1>0, <1>7
  <2>2. \A a, b \in T : f[a] = f[b] => a = b
    BY <1>0, <1>7
  <2>3. \A u \in U : \E t \in T : f[t] = u
    <3> TAKE u \in U
    <3>1. CASE u < n
      BY <1>0, <1>7, <3>1
    <3>2. CASE ~(u < n)
      <4>1. u - 1 \in T /\ f[u - 1] = u
        BY <1>0, <1>7, <3>2
      <4> QED
        BY <4>1
    <3> QED
      BY <3>1, <3>2
  <2> QED
    BY <2>1, <2>2, <2>3 DEF Bijection, Injection, Surjection, IsInjective
<1> HIDE DEF f
<1>9. Cardinality(U) = Cardinality(T)
  BY <1>6, <1>8, PlacesFinite, FS_Bijection DEF ExistsBijection
<1>10. n \in Places(m, seq) <=> seq[n] = m
  BY DEF Places
<1>11. /\ IsFiniteSet(Places(m, seq)) /\ Occurrences(m, seq) = Cardinality(Places(m, seq))
       /\ Occurrences(m, seq) \in Nat
  BY PlacesFinite
<1>12. Cardinality(U) = IF seq[n] = m THEN Occurrences(m, seq) - 1 ELSE Occurrences(m, seq)
  BY <1>10, <1>11, FS_RemoveElement
<1>13. Occurrences(m, r) = Cardinality(T) /\ Occurrences(m, r) \in Nat
  BY <1>6, PlacesFinite
<1>14. Occurrences(m, seq) = One(seq[n] = m) + Occurrences(m, r)
  BY <1>9, <1>11, <1>12, <1>13 DEF One
<1> QED
  BY <1>6, <1>14 DEF r

(* Taking the first one out.                                                 *)
LEMMA OccursTail ==
  ASSUME NEW S, NEW m, NEW seq \in Seq(S), seq # <<>>
  PROVE  Occurrences(m, seq) = One(Head(seq) = m) + Occurrences(m, Tail(seq))
<1>1. 1 \in 1..Len(seq) /\ Head(seq) = seq[1] /\ Tail(seq) \in Seq(S) /\ Len(Tail(seq)) = Len(seq) - 1
  OBVIOUS
<1>2. \A i \in 1..Len(seq) - 1 : Tail(seq)[i] = seq[i + 1]
  OBVIOUS
<1>3. Tail(seq) = RemoveAt(seq, 1)
  <2> DEFINE r == RemoveAt(seq, 1)
  <2>1. /\ r \in Seq(S) /\ Len(r) = Len(seq) - 1
        /\ \A i \in 1..Len(seq) - 1 : r[i] = IF i < 1 THEN seq[i] ELSE seq[i + 1]
    BY <1>1, OccursRemoveAt
  <2> HIDE DEF r
  <2>2. \A i \in 1..Len(seq) - 1 : r[i] = Tail(seq)[i]
    BY <1>2, <2>1
  <2>3. r = Tail(seq)
    BY <1>1, <2>1, <2>2
  <2> QED
    BY <2>3 DEF r
<1>4. Occurrences(m, seq) = One(seq[1] = m) + Occurrences(m, RemoveAt(seq, 1))
  BY <1>1, OccursRemoveAt
<1> QED
  BY <1>1, <1>3, <1>4

(* Putting one before the others.                                            *)
LEMMA PrependFacts ==
  ASSUME NEW S, NEW seq \in Seq(S), NEW x \in S
  PROVE  /\ <<x>> \o seq \in Seq(S) /\ Tail(<<x>> \o seq) = seq
         /\ Head(<<x>> \o seq) = x /\ <<x>> \o seq # <<>>
         /\ \A y : (\E i \in DOMAIN (<<x>> \o seq) : (<<x>> \o seq)[i] = y)
                  <=> y = x \/ (\E i \in DOMAIN seq : seq[i] = y)
<1> DEFINE s == <<x>> \o seq
<1>1. /\ s \in Seq(S) /\ Len(s) = Len(seq) + 1 /\ s[1] = x
      /\ \A i \in 1..Len(seq) : s[i + 1] = seq[i]
  OBVIOUS
<1>2. Tail(s) = seq /\ Head(s) = x /\ s # <<>>
  <2>1. Head(s) = x /\ s # <<>> /\ Tail(s) \in Seq(S) /\ Len(Tail(s)) = Len(seq)
    OBVIOUS
  <2>2. \A i \in 1..Len(seq) : Tail(s)[i] = seq[i]
    BY <1>1
  <2> HIDE DEF s
  <2> QED
    BY <2>1, <2>2
<1> HIDE DEF s
<1>4. ASSUME NEW y PROVE (\E i \in DOMAIN s : s[i] = y) <=> y = x \/ (\E i \in DOMAIN seq : seq[i] = y)
  <2>1. DOMAIN s = 1..Len(seq) + 1 /\ DOMAIN seq = 1..Len(seq) /\ Len(seq) \in Nat
    BY <1>1
  <2>2. ASSUME NEW i \in DOMAIN s PROVE s[i] = x \/ \E j \in DOMAIN seq : seq[j] = s[i]
    <3>1. i = 1 \/ (i - 1 \in 1..Len(seq) /\ s[i] = seq[i - 1])
      BY <1>1, <2>1
    <3> QED
      BY <1>1, <2>1, <3>1
  <2>3. ASSUME NEW i \in DOMAIN seq PROVE i + 1 \in DOMAIN s /\ s[i + 1] = seq[i]
    BY <1>1, <2>1
  <2>4. 1 \in DOMAIN s /\ s[1] = x
    BY <1>1, <2>1
  <2> QED
    BY <2>2, <2>3, <2>4
<1> QED
  BY <1>1, <1>2, <1>4 DEF s

(* Putting one in front counts it.                                          *)
LEMMA OccursPrepend ==
  ASSUME NEW S, NEW m, NEW seq \in Seq(S), NEW x \in S
  PROVE  Occurrences(m, <<x>> \o seq) = One(x = m) + Occurrences(m, seq)
<1> DEFINE s == <<x>> \o seq
<1>1. s \in Seq(S) /\ Tail(s) = seq /\ Head(s) = x /\ s # <<>>
  BY PrependFacts
<1> HIDE DEF s
<1>2. Occurrences(m, s) = One(Head(s) = m) + Occurrences(m, Tail(s))
  BY <1>1, OccursTail
<1> QED
  BY <1>1, <1>2 DEF s

-----------------------------------------------------------------------------
(* The emulator thread has told unit u's thread to go, and has sent it the   *)
(* death message.                                                            *)
ToldToGo(u) == ~CpuRuns /\ (u < emu[2] \/ (u = emu[2] /\ emu[1] \in {"death", "sync"}))
DeathSent(u) == ~CpuRuns /\ (u < emu[2] \/ (u = emu[2] /\ emu[1] = "sync"))

(* A thread is dead only after it was told to go, its semaphore is only      *)
(* posted when it is dead, and the emulator thread is only past a unit whose *)
(* thread is dead. This holds whatever the 68k does, reboots included.       *)
EndInv ==
  /\ DOMAIN thread = Unit /\ \A u \in Unit : "pc" \in DOMAIN thread[u]
  /\ down \in [Unit -> [go : BOOLEAN, sync : 0..1]]
  /\ emu \in {"run", "flag", "death", "sync"} \X (0..Units) /\ restarts \in 0..MaxRestarts
  /\ \A u \in Unit : /\ thread[u].pc = "dead" => down[u].go
                     /\ down[u].sync > 0 => thread[u].pc = "dead"
                     /\ down[u].go <=> ToldToGo(u)
  /\ ~CpuRuns => /\ emu[2] \in Unit /\ restarts > 0
                 /\ \A u \in Unit : u < emu[2] => thread[u].pc = "dead"

(* A step of a thread that is not its end leaves that so.                    *)
LEMMA EndKept ==
  ASSUME EndInv, UNCHANGED <<down, emu, restarts>>, DOMAIN thread' = Unit,
         \A u \in Unit : "pc" \in DOMAIN thread'[u],
         \A u \in Unit : thread'[u].pc = "dead" <=> thread[u].pc = "dead"
  PROVE  EndInv'
<1>1. (CpuRuns' <=> CpuRuns) /\ \A u \in Unit : ToldToGo(u)' <=> ToldToGo(u)
  BY DEF ToldToGo, CpuRuns
<1>2. down' = down /\ emu' = emu /\ restarts' = restarts
  OBVIOUS
<1>3. /\ \A u \in Unit : thread'[u].pc = "dead" => down'[u].go
      /\ \A u \in Unit : down'[u].sync > 0 => thread'[u].pc = "dead"
      /\ \A u \in Unit : down'[u].go <=> ToldToGo(u)'
  BY <1>1, <1>2 DEF EndInv
<1>4. ~CpuRuns' => /\ emu'[2] \in Unit /\ restarts' > 0
                   /\ \A u \in Unit : u < emu'[2] => thread'[u].pc = "dead"
  BY <1>1, <1>2 DEF EndInv
<1>5. /\ down' \in [Unit -> [go : BOOLEAN, sync : 0..1]] /\ restarts' \in 0..MaxRestarts
      /\ emu' \in {"run", "flag", "death", "sync"} \X (0..Units)
  BY <1>2 DEF EndInv
<1>6. DOMAIN thread' = Unit /\ \A u \in Unit : "pc" \in DOMAIN thread'[u]
  OBVIOUS
<1> QED
  BY ONLY <1>3, <1>4, <1>5, <1>6 DEF EndInv

(* A step of a thread: only its end posts its semaphore.                    *)
LEMMA EndThread ==
  ASSUME EndInv, NEW u \in Unit, Thread(u)
  PROVE  EndInv'
<1>d. DOMAIN thread = Unit /\ "pc" \in DOMAIN thread[u]
  BY DEF EndInv
<1>1. CASE ThreadDies(u)
  <2>1. /\ down' = [down EXCEPT ![u].sync = @ + 1] /\ thread' = [thread EXCEPT ![u].pc = "dead"]
        /\ UNCHANGED <<emu, restarts>> /\ thread[u].pc = "read" /\ down[u].go
    BY <1>1 DEF ThreadDies, ThreadAt
  <2>2. down[u].sync = 0
    BY <2>1 DEF EndInv
  <2>3. /\ DOMAIN thread' = Unit /\ thread'[u].pc = "dead"
        /\ \A v \in Unit : /\ "pc" \in DOMAIN thread'[v]
                            /\ v # u => thread'[v].pc = thread[v].pc
    BY <2>1 DEF EndInv
  <2>4. /\ down' \in [Unit -> [go : BOOLEAN, sync : 0..1]] /\ down'[u].go
        /\ \A v \in Unit : v # u => down'[v] = down[v]
    BY <2>1, <2>2 DEF EndInv
  <2>5. \A v \in Unit : ToldToGo(v)' <=> ToldToGo(v)
    BY <2>1 DEF ToldToGo, CpuRuns
  <2>6. CpuRuns' <=> CpuRuns
    BY <2>1 DEF CpuRuns
  <2> QED
    BY <2>1, <2>3, <2>4, <2>5, <2>6 DEF EndInv
<1>2. CASE \/ ThreadReads(u) \/ ThreadDiscards(u) \/ ThreadNotifies(u)
           \/ ThreadHandles(u) \/ ThreadMarks(u) \/ ThreadCounts(u) \/ ThreadRequests(u)
           \/ ThreadGivesBack(u) \/ ThreadClears(u)
  <2>1. UNCHANGED <<down, emu, restarts>>
    BY <1>2 DEF ThreadReads, ThreadDiscards, ThreadNotifies, ThreadHandles, ThreadMarks,
                ThreadCounts, ThreadRequests, ThreadGivesBack, ThreadClears, resetVars
  <2>2. /\ DOMAIN thread' = Unit /\ "pc" \in DOMAIN thread'[u]
        /\ thread'[u].pc = "dead" <=> thread[u].pc = "dead"
        /\ \A v \in Unit : v # u => thread'[v] = thread[v]
    <3>1. CASE ThreadReads(u)
      BY <1>d, <3>1 DEF ThreadReads, ThreadAt
    <3>2. CASE ThreadDiscards(u)
      BY <1>d, <3>2 DEF ThreadDiscards, ThreadAt
    <3>3. CASE ThreadNotifies(u)
      BY <1>d, <3>3 DEF ThreadNotifies, ThreadAt
    <3>4. CASE ThreadHandles(u)
      BY <1>d, <3>4 DEF ThreadHandles, ThreadAt
    <3>5. CASE ThreadMarks(u)
      BY <1>d, <3>5 DEF ThreadMarks, ThreadAt
    <3>6. CASE ThreadCounts(u) \/ ThreadRequests(u) \/ ThreadGivesBack(u) \/ ThreadClears(u)
      BY <1>d, <3>6 DEF ThreadCounts, ThreadRequests, ThreadGivesBack, ThreadClears, ThreadAt
    <3> QED
      BY <1>2, <3>1, <3>2, <3>3, <3>4, <3>5, <3>6
  <2> QED
    BY <2>1, <2>2, EndKept DEF EndInv
<1> QED
  BY <1>1, <1>2 DEF Thread

(* A step of the emulator thread in a reset.                                *)
LEMMA EndReset ==
  ASSUME EndInv, ResetBegins \/ ResetStep
  PROVE  EndInv'
<1>0. Units \in Nat \ {0} /\ MaxRestarts \in Nat /\ \A u \in Unit : u \in Nat
  BY FilesysAssumption DEF FilesysAssumption, Unit
<1>u. \A u \in Unit : ~(u < 1)
  BY DEF Unit
<1>1. CASE ResetBegins
  <2>1. /\ emu' = <<"flag", 1>> /\ restarts' = restarts + 1 /\ restarts < MaxRestarts
        /\ thread' = thread /\ down' = down /\ CpuRuns
    BY <1>1 DEF ResetBegins, hostVars
  <2>2. ~CpuRuns' /\ \A u \in Unit : ~ToldToGo(u)' /\ ~ToldToGo(u)
    <3>1. emu'[1] = "flag" /\ emu'[2] = 1
      BY <2>1
    <3> QED
      BY <1>u, <2>1, <3>1 DEF ToldToGo, CpuRuns
  <2>3. restarts' \in 0..MaxRestarts /\ restarts' > 0
    BY <1>0, <2>1 DEF EndInv
  <2>4. emu' \in {"run", "flag", "death", "sync"} \X (0..Units) /\ emu'[2] \in Unit
        /\ \A u \in Unit : ~(u < emu'[2])
    BY <1>0, <2>1 DEF Unit
  <2> QED
    BY <2>1, <2>2, <2>3, <2>4 DEF EndInv
<1>2. CASE ResetFlags
  <2> DEFINE e == emu[2]
  <2>1. /\ emu[1] = "flag" /\ down' = [down EXCEPT ![e] = [go |-> TRUE, sync |-> 0]]
        /\ emu' = <<"death", e>> /\ thread' = thread /\ restarts' = restarts /\ ~CpuRuns
    BY <1>2 DEF ResetFlags, hostVars, CpuRuns
  <2>2. e \in Unit
    BY <2>1 DEF EndInv
  <2>3. ~CpuRuns' /\ \A u \in Unit : ToldToGo(u)' <=> ToldToGo(u) \/ u = e
    BY <1>0, <2>1, <2>2 DEF ToldToGo, CpuRuns
  <2>4. emu' \in {"run", "flag", "death", "sync"} \X (0..Units) /\ emu'[2] = e
    BY <1>0, <2>1, <2>2 DEF Unit
  <2>5. /\ down' \in [Unit -> [go : BOOLEAN, sync : 0..1]] /\ down'[e].go /\ down'[e].sync = 0
        /\ \A u \in Unit : u # e => down'[u] = down[u]
    BY <2>1, <2>2 DEF EndInv
  <2> HIDE DEF e
  <2>6. /\ \A u \in Unit : thread'[u].pc = "dead" => down'[u].go
        /\ \A u \in Unit : down'[u].sync > 0 => thread'[u].pc = "dead"
        /\ \A u \in Unit : down'[u].go <=> ToldToGo(u)'
    BY <2>1, <2>2, <2>3, <2>5 DEF EndInv
  <2>7. restarts > 0 /\ \A u \in Unit : u < e => thread[u].pc = "dead"
    BY <2>1 DEF EndInv, e
  <2> QED
    BY <2>1, <2>2, <2>3, <2>4, <2>5, <2>6, <2>7 DEF EndInv
<1>3. CASE ResetSendsDeath
  <2>1. /\ emu[1] = "death" /\ emu' = <<"sync", emu[2]>>
        /\ UNCHANGED <<thread, down, restarts>> /\ ~CpuRuns /\ ~CpuRuns'
    BY <1>3 DEF ResetSendsDeath, CpuRuns
  <2>2. \A u \in Unit : ToldToGo(u)' <=> ToldToGo(u)
    BY <2>1 DEF ToldToGo
  <2>3. emu' \in {"run", "flag", "death", "sync"} \X (0..Units) /\ emu'[2] = emu[2]
    BY <2>1 DEF EndInv
  <2> QED
    BY <2>1, <2>2, <2>3 DEF EndInv
<1>4. CASE ResetNextUnit
  <2> DEFINE e == emu[2]
  <2>1. /\ emu[1] = "sync" /\ e < Units /\ down[e].sync > 0
        /\ down' = [down EXCEPT ![e].sync = @ - 1]
        /\ emu' = <<"flag", e + 1>> /\ thread' = thread /\ restarts' = restarts
        /\ ~CpuRuns /\ ~CpuRuns'
    BY <1>4 DEF ResetNextUnit, hostVars, CpuRuns
  <2>2. e \in Unit /\ e \in Nat /\ e + 1 \in Unit
    BY <1>0, <2>1 DEF EndInv, Unit
  <2>3. \A u \in Unit : ToldToGo(u)' <=> ToldToGo(u)
    BY <1>0, <2>1, <2>2 DEF ToldToGo
  <2>4. emu' \in {"run", "flag", "death", "sync"} \X (0..Units) /\ emu'[2] = e + 1
    BY <1>0, <2>1, <2>2 DEF Unit
  <2>5. /\ down' \in [Unit -> [go : BOOLEAN, sync : 0..1]] /\ down'[e].sync = 0
        /\ \A u \in Unit : down'[u].go = down[u].go /\ (u # e => down'[u] = down[u])
    BY <2>1, <2>2 DEF EndInv
  <2>6. thread[e].pc = "dead" /\ \A u \in Unit : u < e + 1 <=> u < e \/ u = e
    <3>1. thread[e].pc = "dead"
      BY <2>1, <2>2 DEF EndInv
    <3>2. \A u \in Unit : u < e + 1 <=> u < e \/ u = e
      BY <1>0, <2>2
    <3> QED
      BY <3>1, <3>2
  <2>7. restarts > 0 /\ \A u \in Unit : u < e => thread[u].pc = "dead"
    BY <2>1 DEF EndInv
  <2> HIDE DEF e
  <2>8. \A u \in Unit : down'[u].sync > 0 => thread'[u].pc = "dead"
    BY <2>1, <2>5 DEF EndInv
  <2> QED
    BY <2>1, <2>2, <2>3, <2>4, <2>5, <2>6, <2>7, <2>8 DEF EndInv
<1>5. CASE ResetEnds
  <2>1. /\ thread' = ForAll(Idle) /\ down' = ForAll([go |-> FALSE, sync |-> 0])
        /\ emu' = <<"run", 0>> /\ restarts' = restarts /\ CpuRuns'
    BY <1>5 DEF ResetEnds, CpuRuns
  <2>2. emu' \in {"run", "flag", "death", "sync"} \X (0..Units)
    BY <1>0, <2>1
  <2>3. /\ DOMAIN thread' = Unit
        /\ \A u \in Unit : "pc" \in DOMAIN thread'[u] /\ thread'[u].pc = "read"
    BY <2>1 DEF ForAll, Idle
  <2>4. /\ down' \in [Unit -> [go : BOOLEAN, sync : 0..1]]
        /\ \A u \in Unit : ~down'[u].go /\ down'[u].sync = 0
    BY <2>1 DEF ForAll
  <2>5. \A u \in Unit : ~ToldToGo(u)'
    BY <2>1 DEF ToldToGo
  <2> QED
    BY <2>1, <2>2, <2>3, <2>4, <2>5 DEF EndInv
<1> QED
  BY <1>1, <1>2, <1>3, <1>4, <1>5 DEF ResetStep

(* Nothing but the threads' ends and the emulator thread touches it.         *)
LEMMA EndStep ==
  ASSUME EndInv, [Next]_vars
  PROVE  EndInv'
<1>1. CASE UNCHANGED <<thread, down, emu, restarts>>
  BY <1>1, EndKept DEF EndInv
<1>2. CASE Reboot
  <2>1. /\ UNCHANGED <<thread, emu, down>> /\ restarts' = restarts + 1 /\ restarts < MaxRestarts
        /\ CpuRuns /\ CpuRuns'
    BY <1>2 DEF Reboot, CpuRuns
  <2>2. \A u \in Unit : ToldToGo(u)' <=> ToldToGo(u)
    BY <2>1 DEF ToldToGo
  <2>3. restarts' \in 0..MaxRestarts
    BY <2>1, FilesysAssumption DEF EndInv, FilesysAssumption
  <2> QED
    BY <2>1, <2>2, <2>3 DEF EndInv
<1>3. ASSUME NEW u \in Unit, Task(u) PROVE UNCHANGED <<thread, down, emu, restarts>>
  BY <1>3 DEF Task, startup_handler, GetMsg, ReleaseDummy, CollectLocks, LocksCollected, Scan,
              ScanEnds, FSML_FromDOS, QueueCommand, RejectCommand, StartCommand, Enqueue,
              hostVars, resetVars
<1>4. CASE filesys_diagentry \/ Interrupt \/ \E p \in Packet : Send(p)
  BY <1>1, <1>4 DEF filesys_diagentry, Interrupt, Send, InterruptBegins, InterruptDrains,
              InterruptSkips, InterruptPuts, InterruptEnds, hostVars, resetVars
<1>5. CASE UNCHANGED vars
  BY <1>1, <1>5 DEF vars, hostVars, resetVars
<1>6. ASSUME NEW u \in Unit, Thread(u) PROVE EndInv'
  BY <1>6, EndThread
<1> QED
  BY <1>1, <1>2, <1>3, <1>4, <1>5, <1>6, EndReset DEF Next

(* The machine starts with no thread told to go.                            *)
LEMMA EndStarts == Init => EndInv
<1> SUFFICES ASSUME Init PROVE EndInv
  OBVIOUS
<1>1. /\ thread = ForAll(Idle) /\ emu = <<"run", 0>> /\ restarts = 0
      /\ down = ForAll([go |-> FALSE, sync |-> 0])
  BY DEF Init
<1>2. Units \in Nat /\ MaxRestarts \in Nat
  BY FilesysAssumption DEF FilesysAssumption
<1>3. emu \in {"run", "flag", "death", "sync"} \X (0..Units) /\ restarts \in 0..MaxRestarts
  BY <1>1, <1>2
<1>4. DOMAIN thread = Unit /\ \A u \in Unit : "pc" \in DOMAIN thread[u] /\ thread[u].pc = "read"
  BY <1>1 DEF ForAll, Idle
<1>5. /\ down \in [Unit -> [go : BOOLEAN, sync : 0..1]]
      /\ \A u \in Unit : ~down[u].go /\ down[u].sync = 0
  BY <1>1 DEF ForAll
<1>6. CpuRuns /\ \A u \in Unit : ~ToldToGo(u)
  BY <1>1 DEF ToldToGo, CpuRuns
<1> QED
  BY <1>3, <1>4, <1>5, <1>6 DEF EndInv

(* When a reset lets the machine run again, every thread of the old machine  *)
(* has come to its end: uae_reset takes filesys_prepare_reset's posts as the *)
(* threads' farewell, and none is posted by a thread that still runs. For    *)
(* any number of units, of packets under way, and reboots.                   *)
THEOREM OldThreadsDie == Spec => OldThreadsAreDead
<1>1. EndInv /\ [Next]_vars => [(~CpuRuns /\ CpuRuns') => \A u \in Unit : thread[u].pc = "dead"]_vars
  <2> SUFFICES ASSUME EndInv, Next, ~CpuRuns, CpuRuns' PROVE \A u \in Unit : thread[u].pc = "dead"
    OBVIOUS
  <2>1. ResetStep
    <3>1. CASE \E u \in Unit : Task(u) \/ Thread(u)
      <4>1. emu' = emu
        <5>1. ASSUME NEW u \in Unit, Task(u) PROVE emu' = emu
          BY <5>1 DEF Task, startup_handler, GetMsg, ReleaseDummy, CollectLocks, LocksCollected,
             Scan, ScanEnds, FSML_FromDOS, QueueCommand, RejectCommand, StartCommand, Enqueue,
             resetVars
        <5>2. ASSUME NEW u \in Unit, Thread(u) PROVE emu' = emu
          BY <5>2 DEF Thread, ThreadReads, ThreadDiscards, ThreadDies, ThreadNotifies,
             ThreadHandles, ThreadMarks, ThreadCounts, ThreadRequests, ThreadGivesBack,
             ThreadClears, resetVars
        <5> QED
          BY <3>1, <5>1, <5>2
      <4> QED
        BY <4>1 DEF CpuRuns
    <3>2. CASE filesys_diagentry \/ Interrupt \/ ResetBegins \/ Reboot \/ \E p \in Packet : Send(p)
      BY <3>2 DEF filesys_diagentry, Interrupt, Send, InterruptBegins, InterruptDrains,
              InterruptSkips, InterruptPuts, InterruptEnds, ResetBegins, Reboot
    <3> QED
      BY <3>1, <3>2 DEF Next
  <2>2. ResetEnds
    BY <2>1 DEF ResetStep, ResetFlags, ResetSendsDeath, ResetNextUnit, CpuRuns
  <2>3. emu = <<"sync", Units>> /\ down[Units].sync > 0 /\ Units \in Unit
    BY <2>2, FilesysAssumption DEF ResetEnds, FilesysAssumption, Unit
  <2>4. thread[Units].pc = "dead" /\ \A u \in Unit : u < Units => thread[u].pc = "dead"
    BY <2>3 DEF EndInv
  <2>5. \A u \in Unit : u < Units \/ u = Units
    BY FilesysAssumption DEF FilesysAssumption, Unit
  <2> QED
    BY <2>4, <2>5
<1>2. Init => EndInv
  BY EndStarts
<1>3. EndInv /\ [Next]_vars => EndInv'
  BY EndStep
<1> QED
  BY <1>1, <1>2, <1>3, PTL DEF Spec, OldThreadsAreDead

-----------------------------------------------------------------------------
(* The types, by name.                                                       *)
TaskType ==
  [pc : {"boot", "wait", "release", "collect", "scan", "fromDOS", "enqueue"},
   pck : Packet \cup {Null}, scan : Nat, d5 : 0..MaxStarted, chain : Seq(Packet), locks : Nat]
UnitType == [self : {"none", "live", "stale"}, sent : 0..CmdWrap - 1,
             acked : 0..CmdWrap - 1, complete : 0..CmdWrap - 1]
ThreadType ==
  [pc : {"read", "handle", "mark", "count", "request", "giveBack", "clear", "dead"},
   pck : Packet \cup {Null}, locks : 0..3, sends : 0..NotifyMax]
EmuType == {"run", "flag", "death", "sync"} \X (0..Units)
DownType == [go : BOOLEAN, sync : 0..1]
PacketTypes == /\ waiting \subseteq Packet /\ result \subseteq Packet
               /\ status \in [Packet -> {"0", "1", "done"}]
UnitTypes ==
  /\ port \in [Unit -> Seq(Packet \cup {Dummy})] /\ task \in [Unit -> TaskType]
  /\ unit \in [Unit -> UnitType] /\ unit_pipe \in [Unit -> Seq(Packet \cup {Null, Garbage})]
  /\ back_pipe \in [Unit -> Seq(1..3)] /\ thread \in [Unit -> ThreadType]
OtherTypes ==
  /\ held \in [Unit -> 0..MaxHeld] /\ extant \in [Unit -> Int]
  /\ amigaUp \in BOOLEAN /\ uae_int_requested \in 0..1 /\ irq \in {"off", "work"}
  /\ unit_no \in 1..Units + 1 /\ singlethread_int_sem \in 0..1
  /\ native \in 0..NativeRecords
EndTypes == emu \in EmuType /\ down \in [Unit -> DownType] /\ restarts \in 0..MaxRestarts

(* TypeOK in four parts.                                                    *)
LEMMA TypesNamed == TypeOK <=> PacketTypes /\ UnitTypes /\ OtherTypes /\ EndTypes
BY DEF TypeOK, PacketTypes, UnitTypes, OtherTypes, EndTypes, TaskType, UnitType, ThreadType,
       EmuType, DownType

(* The packets a unit's handler has looked at and not replied, and those of  *)
(* them that the thread has marked.                                          *)
Chained(t) == {t.chain[i] : i \in DOMAIN t.chain}
TakenOf(t) == Chained(t) \cup (IF t.pc = "enqueue" THEN {t.pck} ELSE {})
Taken(u) == TakenOf(task[u])
Done(u) == {p \in Taken(u) : status[p] = "done"}
Works(t) == t.pc \in {"handle", "mark"}
Started(t) == t.d5 + One(t.pc = "enqueue")
ToGiveBack(t) == t.pc \in {"count", "request", "giveBack"}

(* The handler's program counter and the packet in its hands.                *)
TaskInv(u) ==
  /\ task[u].pc \in {"fromDOS", "enqueue"} <=> task[u].pck # Null
  /\ task[u].pc = "enqueue" => task[u].d5 < MaxStarted
  /\ task[u].pc = "scan" => task[u].scan >= 1
  /\ task[u].pc = "boot" => /\ unit[u] = NoUnit /\ port[u] = <<>> /\ task[u] = Booting
                            /\ thread[u].pc \in {"read", "dead"}

(* What is in the pipe to the thread, or with the thread, is taken by the    *)
(* handler, not done, and there once; but for the death message.             *)
PipeInv(u) ==
  /\ \A i \in 1..Len(unit_pipe[u]) :
       IF unit_pipe[u][i] \in Packet
       THEN unit_pipe[u][i] \in Taken(u) /\ status[unit_pipe[u][i]] # "done"
       ELSE DeathSent(u)
  /\ \A i, j \in 1..Len(unit_pipe[u]) :
       unit_pipe[u][i] \in Packet /\ unit_pipe[u][i] = unit_pipe[u][j] => i = j

HandInv(u) ==
  Works(thread[u]) =>
    /\ thread[u].pck \in Taken(u) /\ status[thread[u].pck] # "done"
    /\ \A i \in 1..Len(unit_pipe[u]) : unit_pipe[u][i] # thread[u].pck

(* A packet the thread has marked has its results.                           *)
ResultInv(u) ==
  /\ Done(u) \subseteq result
  /\ thread[u].pc = "mark" => thread[u].pck \in result

(* The commands started bound what is in the pipe, with the thread, and      *)
(* done; a word in the pipe back, or to come, is of one that is done, or of  *)
(* one that was replied since the handler last emptied the pipe.             *)
CountInv(u) ==
  /\ IsFiniteSet(Done(u))
  /\ Len(unit_pipe[u]) + One(Works(thread[u])) + Cardinality(Done(u))
       <= Started(task[u]) + One(DeathSent(u))
  /\ One(Works(thread[u])) + Cardinality(Done(u)) <= Started(task[u])
  /\ Len(back_pipe[u]) + One(ToGiveBack(thread[u]))
       + (IF task[u].pc = "scan" THEN Started(task[u]) ELSE 0)
       <= 1 + MaxStarted + Cardinality(Done(u))

(* The parts of PacketInOnePlace and DummyQueuedOnce.                        *)
PlaceInv(u) ==
  \A p \in Packet :
    Occurrences(p, port[u]) + Occurrences(p, task[u].chain) + One(task[u].pck = p)
      = One(p \in waiting /\ u = Volume[p])

DummyInv(u) ==
  Occurrences(Dummy, port[u]) + One(task[u].pc = "release")
    = One(unit[u].acked # unit[u].complete)

(* The locks a thread holds at each point of its loop.                       *)
LocksInv ==
  \A u \in Unit : /\ thread[u].pc \in {"read", "dead"} => thread[u].locks = 0
                  /\ thread[u].pc = "handle" => thread[u].locks = 2

IrqInv == irq = "work" => amigaUp /\ singlethread_int_sem = 0

UnitInv(u) == /\ TaskInv(u) /\ PipeInv(u) /\ HandInv(u) /\ ResultInv(u)
              /\ CountInv(u) /\ PlaceInv(u) /\ DummyInv(u)

FsInv == /\ PacketTypes /\ UnitTypes /\ OtherTypes /\ LocksInv /\ IrqInv
         /\ \A u \in Unit : UnitInv(u)

-----------------------------------------------------------------------------
(* What the invariant says of one unit, the record types spelt out.          *)
LEMMA UnitFacts ==
  ASSUME UnitTypes, NEW u \in Unit
  PROVE  /\ port[u] \in Seq(Packet \cup {Dummy}) /\ task[u] \in TaskType
         /\ task[u].pck \in Packet \cup {Null} /\ task[u].chain \in Seq(Packet)
         /\ task[u].d5 \in 0..MaxStarted /\ task[u].scan \in Nat /\ task[u].locks \in Nat
         /\ unit_pipe[u] \in Seq(Packet \cup {Null, Garbage}) /\ back_pipe[u] \in Seq(1..3)
         /\ thread[u] \in ThreadType /\ thread[u].pck \in Packet \cup {Null}
         /\ thread[u].locks \in 0..3 /\ unit[u] \in UnitType
BY DEF UnitTypes, TaskType, ThreadType

(* A packet that is somewhere is there once and nowhere else, and its client *)
(* uses this unit and waits.                                                 *)
LEMMA WhereItIs ==
  ASSUME UnitTypes, NEW u \in Unit, PlaceInv(u), NEW p \in Packet
  PROVE  /\ p \in Chained(task[u]) =>
              /\ p \in waiting /\ Volume[p] = u /\ task[u].pck # p
              /\ Occurrences(p, task[u].chain) = 1 /\ Occurrences(p, port[u]) = 0
         /\ task[u].pck = p =>
              /\ p \in waiting /\ Volume[p] = u /\ p \notin Chained(task[u])
              /\ Occurrences(p, task[u].chain) = 0 /\ Occurrences(p, port[u]) = 0
         /\ ~(p \in waiting /\ Volume[p] = u) =>
              /\ task[u].pck # p /\ p \notin Chained(task[u])
              /\ Occurrences(p, task[u].chain) = 0 /\ Occurrences(p, port[u]) = 0
         /\ Occurrences(p, task[u].chain) \in Nat /\ Occurrences(p, port[u]) \in Nat
<1> DEFINE a == Occurrences(p, port[u])
           b == Occurrences(p, task[u].chain)
<1>1. a \in Nat /\ b \in Nat
  BY UnitFacts, PlacesFinite
<1>2. b = 0 <=> p \notin Chained(task[u])
  <2>1. task[u].chain \in Seq(Packet)
    BY UnitFacts
  <2>2. b = 0 <=> \A i \in 1..Len(task[u].chain) : task[u].chain[i] # p
    BY <2>1, OccursNowhere
  <2>3. DOMAIN task[u].chain = 1..Len(task[u].chain)
    BY <2>1
  <2> QED
    BY <2>2, <2>3 DEF Chained
<1>3. a + b + One(task[u].pck = p) = One(p \in waiting /\ u = Volume[p])
  BY DEF PlaceInv
<1> HIDE DEF a, b
<1>4. /\ b # 0 => b = 1 /\ a = 0 /\ task[u].pck # p /\ p \in waiting /\ Volume[p] = u
      /\ task[u].pck = p => a = 0 /\ b = 0 /\ p \in waiting /\ Volume[p] = u
      /\ ~(p \in waiting /\ Volume[p] = u) => a = 0 /\ b = 0 /\ task[u].pck # p
  BY <1>1, <1>3 DEF One
<1> QED
  BY <1>1, <1>2, <1>4 DEF a, b

(* A packet the handler has taken is one its unit's client waits for.       *)
LEMMA TakenFacts ==
  ASSUME UnitTypes, NEW u \in Unit, PlaceInv(u), TaskInv(u), NEW p \in Taken(u)
  PROVE  p \in Packet /\ p \in waiting /\ Volume[p] = u
<1>1. CASE p \in Chained(task[u])
  <2>1. p \in Packet
    BY <1>1, UnitFacts DEF Chained
  <2> QED
    BY <1>1, <2>1, WhereItIs
<1>2. CASE task[u].pc = "enqueue" /\ p = task[u].pck
  <2>1. p \in Packet
    BY <1>2, UnitFacts DEF TaskInv
  <2> QED
    BY <1>2, <2>1, WhereItIs
<1> QED
  BY <1>1, <1>2 DEF Taken, TakenOf

(* What an action leaves alone of a unit.                                    *)
SameUnit(w) ==
  /\ port'[w] = port[w] /\ task'[w] = task[w] /\ unit'[w] = unit[w]
  /\ unit_pipe'[w] = unit_pipe[w] /\ back_pipe'[w] = back_pipe[w] /\ thread'[w] = thread[w]
  /\ DeathSent(w)' <=> DeathSent(w)
  /\ \A p \in Packet : Volume[p] = w => /\ p \in waiting' <=> p \in waiting
                                        /\ status'[p] = status[p]
                                        /\ p \in result => p \in result'

(* What is left alone keeps what the invariant says of it.                  *)
LEMMA SameInv ==
  ASSUME FsInv, NEW w \in Unit, SameUnit(w)
  PROVE  UnitInv(w)'
<1>1. UnitInv(w) /\ UnitTypes
  BY DEF FsInv
<1>2. Taken(w)' = Taken(w)
  BY DEF SameUnit, Taken
<1>3. \A p \in Taken(w) : p \in Packet /\ Volume[p] = w
  BY <1>1, TakenFacts DEF UnitInv
<1>4. Done(w)' = Done(w)
  BY <1>2, <1>3 DEF Done, SameUnit
<1>5. TaskInv(w)'
  BY <1>1 DEF UnitInv, TaskInv, SameUnit
<1>6. PipeInv(w)'
  BY <1>1, <1>2, <1>3 DEF UnitInv, PipeInv, SameUnit
<1>7. HandInv(w)'
  BY <1>1, <1>2, <1>3 DEF UnitInv, HandInv, SameUnit
<1>8. ResultInv(w)'
  <2>1. Done(w)' \subseteq result'
    BY <1>1, <1>3, <1>4 DEF UnitInv, ResultInv, SameUnit, Done
  <2>2. thread[w].pc = "mark" => thread[w].pck \in result'
    BY <1>1, <1>3 DEF UnitInv, ResultInv, HandInv, SameUnit, Works
  <2> QED
    BY <2>1, <2>2 DEF ResultInv, SameUnit
<1>9. CountInv(w)'
  <2>1. Cardinality(Done(w))' = Cardinality(Done(w)) /\ (IsFiniteSet(Done(w))' <=> IsFiniteSet(Done(w)))
    BY <1>4
  <2>2. One(DeathSent(w))' = One(DeathSent(w))
    BY DEF SameUnit, One
  <2>3. /\ task'[w] = task[w] /\ unit_pipe'[w] = unit_pipe[w] /\ back_pipe'[w] = back_pipe[w]
        /\ thread'[w] = thread[w]
    BY DEF SameUnit
  <2>4. CountInv(w)
    BY <1>1 DEF UnitInv
  <2> QED
    BY ONLY <2>1, <2>2, <2>3, <2>4 DEF CountInv
<1>10. PlaceInv(w)'
  BY <1>1 DEF UnitInv, PlaceInv, SameUnit, One
<1>11. DummyInv(w)'
  BY <1>1 DEF UnitInv, DummyInv, SameUnit
<1> QED
  BY <1>5, <1>6, <1>7, <1>8, <1>9, <1>10, <1>11 DEF UnitInv

(* A step of one unit.                                                       *)
LEMMA OneUnit ==
  ASSUME FsInv, NEW u \in Unit, \A w \in Unit : w # u => SameUnit(w),
         PacketTypes', UnitTypes', OtherTypes', LocksInv', IrqInv', UnitInv(u)'
  PROVE  FsInv'
<1>1. ASSUME NEW w \in Unit PROVE UnitInv(w)'
  <2>1. CASE w = u
    BY <2>1
  <2>2. CASE w # u
    BY <2>2, SameInv
  <2> QED
    BY <2>1, <2>2
<1> QED
  BY <1>1 DEF FsInv

(* What is with the thread stays as it is while the handler takes packets    *)
(* that are not done.                                                        *)
LEMMA PipesKept ==
  ASSUME NEW u \in Unit, UnitInv(u), unit_pipe'[u] = unit_pipe[u],
         Works(thread'[u]) => Works(thread[u]) /\ thread'[u].pck = thread[u].pck,
         thread'[u].pc = "mark" => thread[u].pc = "mark",
         DeathSent(u)' <=> DeathSent(u),
         \A p \in Taken(u) : p \in Taken(u)' /\ status'[p] = status[p] /\ (p \in result => p \in result'),
         \A p \in Taken(u)' : p \notin Taken(u) => status'[p] # "done"
  PROVE  PipeInv(u)' /\ HandInv(u)' /\ ResultInv(u)' /\ Done(u)' = Done(u)
<1>1. PipeInv(u)'
  BY DEF UnitInv, PipeInv
<1>2. HandInv(u)'
  BY DEF UnitInv, HandInv
<1>3. Done(u)' = Done(u)
  BY DEF Done
<1>4. ResultInv(u)'
  <2>1. \A p \in Done(u) : p \in Taken(u) /\ p \in result
    BY DEF Done, UnitInv, ResultInv
  <2>2. Done(u)' \subseteq result'
    BY <1>3, <2>1
  <2>3. thread'[u].pc = "mark" => thread'[u].pck \in result'
    BY DEF UnitInv, ResultInv, HandInv, Works
  <2> QED
    BY <2>2, <2>3 DEF ResultInv
<1> QED
  BY <1>1, <1>2, <1>3, <1>4

(* The counts stay when no command starts, ends or moves.                   *)
LEMMA CountKept ==
  ASSUME UnitTypes, UnitTypes', NEW u \in Unit, UnitInv(u), Done(u)' = Done(u),
         unit_pipe'[u] = unit_pipe[u], DeathSent(u)' <=> DeathSent(u),
         Works(thread'[u]) <=> Works(thread[u]), Started(task'[u]) = Started(task[u]),
         Len(back_pipe'[u]) + One(ToGiveBack(thread'[u]))
           <= Len(back_pipe[u]) + One(ToGiveBack(thread[u])),
         task'[u].pc = "scan" => task[u].pc = "scan"
  PROVE  CountInv(u)'
<1>1. CountInv(u)
  BY DEF UnitInv
<1>2. Cardinality(Done(u))' = Cardinality(Done(u)) /\ IsFiniteSet(Done(u))'
  BY <1>1 DEF CountInv
<1>3. One(DeathSent(u))' = One(DeathSent(u)) /\ One(Works(thread[u]))' = One(Works(thread[u]))
  BY DEF One
<1>4. /\ Cardinality(Done(u)) \in Nat /\ Len(back_pipe[u]) \in Nat /\ Len(back_pipe'[u]) \in Nat
      /\ Started(task[u]) \in Nat /\ MaxStarted \in Nat
  <2>1. Len(back_pipe[u]) \in Nat /\ task[u].d5 \in Nat
    BY UnitFacts, FilesysAssumption DEF FilesysAssumption
  <2>2. Len(back_pipe'[u]) \in Nat
    BY DEF UnitTypes
  <2> QED
    BY SMTT(30), <1>1, <2>1, <2>2, FS_CardinalityType, FilesysAssumption
       DEF CountInv, Started, One, FilesysAssumption
<1>5. Len(back_pipe'[u]) + One(ToGiveBack(thread'[u]))
        + (IF task'[u].pc = "scan" THEN Started(task'[u]) ELSE 0)
        <= 1 + MaxStarted + Cardinality(Done(u))
  <2> DEFINE x == One(ToGiveBack(thread[u]))
             y == One(ToGiveBack(thread'[u]))
             c == IF task[u].pc = "scan" THEN Started(task[u]) ELSE 0
             d == IF task'[u].pc = "scan" THEN Started(task'[u]) ELSE 0
  <2>1. x \in Nat /\ y \in Nat
    BY DEF One
  <2>2. c \in Nat /\ d \in Nat /\ d <= c
    BY <1>4
  <2>3. Len(back_pipe[u]) + x + c <= 1 + MaxStarted + Cardinality(Done(u))
    BY <1>1 DEF CountInv
  <2>4. Len(back_pipe'[u]) + y <= Len(back_pipe[u]) + x
    OBVIOUS
  <2> HIDE DEF x, y, c, d
  <2>5. Len(back_pipe'[u]) + y + d <= 1 + MaxStarted + Cardinality(Done(u))
    BY <1>4, <2>1, <2>2, <2>3, <2>4
  <2> QED
    BY <2>5 DEF y, d
<1> QED
  BY <1>1, <1>2, <1>3, <1>5 DEF CountInv

(* What the assumptions say of the constants.                               *)
LEMMA Names == Dummy \notin Packet /\ Null \notin Packet /\ Garbage \notin Packet /\ Dummy # Null
               /\ Units \in Nat \ {0} /\ MaxStarted \in Nat \ {0} /\ NativeRecords \in Nat
               /\ Volume \in [Packet -> Unit] /\ CmdWrap \in Nat \ {0, 1}
<1>1. Cardinality(Packet) \in Nat
  BY FilesysAssumption, FS_CardinalityType DEF FilesysAssumption
<1> QED
  BY <1>1, FilesysAssumption DEF FilesysAssumption, Dummy, Null, Garbage, Unit

-----------------------------------------------------------------------------
(* The handler process.                                                      *)
LEMMA GetMsgKeeps ==
  ASSUME FsInv, NEW u \in Unit, GetMsg(u)
  PROVE  FsInv'
<1> DEFINE m == Head(port[u])
           pc == IF m = Dummy THEN "release" ELSE "fromDOS"
           pck == IF m = Dummy THEN task[u].pck ELSE m
<1>i. UnitTypes /\ UnitInv(u)
  BY DEF FsInv
<1>1. /\ port[u] # <<>> /\ port' = [port EXCEPT ![u] = Tail(port[u])] /\ task[u].pc = "wait"
      /\ task' = [task EXCEPT ![u].pc = pc, ![u].pck = pck]
      /\ UNCHANGED <<waiting, result, status, extant, unit, unit_pipe, back_pipe, thread, held,
                     irqVars, emu, down, restarts>>
  BY DEF GetMsg, TaskAt, packetVars, hostVars, resetVars
<1>2. m \in Packet \cup {Dummy} /\ Tail(port[u]) \in Seq(Packet \cup {Dummy})
  BY <1>i, <1>1, UnitFacts
<1>3. task[u].pck = Null
  BY <1>i, <1>1 DEF UnitInv, TaskInv
<1> HIDE DEF m
<1>4. /\ task'[u] \in TaskType /\ task'[u].pc = pc /\ task'[u].pck = pck
      /\ task'[u].d5 = task[u].d5 /\ task'[u].scan = task[u].scan
      /\ task'[u].chain = task[u].chain /\ \A w \in Unit : w # u => task'[w] = task[w]
      /\ task' \in [Unit -> TaskType]
  <2>1. task \in [Unit -> TaskType] /\ task[u] \in TaskType
    BY <1>i DEF UnitTypes
  <2>2. pc \in {"boot", "wait", "release", "collect", "scan", "fromDOS", "enqueue"} /\ pck \in Packet \cup {Null}
    BY <1>2, <1>3
  <2> HIDE DEF pc, pck
  <2>3. /\ [task[u] EXCEPT !.pc = pc, !.pck = pck] \in TaskType
        /\ task' = [task EXCEPT ![u] = [task[u] EXCEPT !.pc = pc, !.pck = pck]]
    BY <1>1, <2>1, <2>2 DEF TaskType
  <2> QED
    BY <2>1, <2>3 DEF TaskType
<1>5. UnitTypes'
  BY <1>i, <1>1, <1>2, <1>4 DEF UnitTypes
<1>6. port'[u] = Tail(port[u]) /\ \A w \in Unit : w # u => port'[w] = port[w]
  BY <1>i, <1>1 DEF UnitTypes
<1>d. \A w \in Unit : DeathSent(w)' <=> DeathSent(w)
  BY <1>1 DEF DeathSent, CpuRuns
<1>7. ASSUME NEW w \in Unit, w # u PROVE SameUnit(w)
  BY <1>1, <1>4, <1>6, <1>7, <1>d DEF SameUnit
<1>8. Taken(u)' = Taken(u)
  BY <1>1, <1>4 DEF Taken, TakenOf, Chained
<1>9. PipeInv(u)' /\ HandInv(u)' /\ ResultInv(u)' /\ Done(u)' = Done(u)
  BY <1>i, <1>1, <1>8, <1>d, PipesKept
<1>10. CountInv(u)'
  <2>1. /\ Started(task'[u]) = Started(task[u]) /\ task'[u].pc # "scan"
        /\ Len(back_pipe'[u]) + One(ToGiveBack(thread'[u]))
             <= Len(back_pipe[u]) + One(ToGiveBack(thread[u]))
    BY <1>i, <1>1, <1>4, UnitFacts DEF Started, One
  <2> QED
    BY <1>i, <1>1, <1>5, <1>9, <1>d, <2>1, CountKept
<1>11. TaskInv(u)'
  BY <1>1, <1>2, <1>3, <1>4, Names DEF TaskInv
<1>12. PlaceInv(u)'
  <2> SUFFICES ASSUME NEW p \in Packet
               PROVE  Occurrences(p, port'[u]) + Occurrences(p, task'[u].chain) + One(task'[u].pck = p)
                        = One(p \in waiting' /\ u = Volume[p])
    BY DEF PlaceInv
  <2>1. Occurrences(p, port[u]) = One(m = p) + Occurrences(p, port'[u])
    BY <1>i, <1>1, <1>6, UnitFacts, OccursTail DEF m
  <2>2. One(task'[u].pck = p) = One(m = p) /\ One(task[u].pck = p) = 0
    BY <1>2, <1>3, <1>4, Names DEF One
  <2>3. /\ Occurrences(p, port'[u]) \in Nat /\ Occurrences(p, task[u].chain) \in Nat
        /\ One(m = p) \in Nat
    BY <1>i, <1>2, <1>6, UnitFacts, PlacesFinite DEF One
  <2>4. Occurrences(p, port[u]) + Occurrences(p, task[u].chain) + One(task[u].pck = p)
          = One(p \in waiting /\ u = Volume[p])
    BY <1>i DEF UnitInv, PlaceInv
  <2>5. Occurrences(p, task'[u].chain) = Occurrences(p, task[u].chain)
    BY <1>4
  <2> QED
    BY <1>1, <2>1, <2>2, <2>3, <2>4, <2>5
<1>13. DummyInv(u)'
  <2>1. Occurrences(Dummy, port[u]) = One(m = Dummy) + Occurrences(Dummy, port'[u])
    BY <1>i, <1>1, <1>6, UnitFacts, OccursTail DEF m
  <2>2. One(task'[u].pc = "release") = One(m = Dummy) /\ One(task[u].pc = "release") = 0
    BY <1>1, <1>4 DEF One
  <2>3. Occurrences(Dummy, port'[u]) \in Nat /\ One(m = Dummy) \in Nat
    BY <1>i, <1>2, <1>6, UnitFacts, PlacesFinite DEF One
  <2>4. Occurrences(Dummy, port[u]) + One(task[u].pc = "release")
          = One(unit[u].acked # unit[u].complete)
    BY <1>i DEF UnitInv, DummyInv
  <2>5. unit'[u] = unit[u]
    BY <1>1
  <2> QED
    BY <2>1, <2>2, <2>3, <2>4, <2>5 DEF DummyInv
<1>14. PacketTypes' /\ OtherTypes' /\ LocksInv' /\ IrqInv'
  BY <1>1 DEF FsInv, PacketTypes, OtherTypes, LocksInv, IrqInv, irqVars
<1>15. UnitInv(u)'
  BY <1>9, <1>10, <1>11, <1>12, <1>13 DEF UnitInv
<1> QED
  BY <1>5, <1>7, <1>14, <1>15, OneUnit

(* A step of the handler that moves no packet.                               *)
LEMMA QuietTask ==
  ASSUME FsInv, NEW u \in Unit, UnitTypes', \A w \in Unit : w # u => task'[w] = task[w],
         task'[u].chain = task[u].chain, task'[u].pck = task[u].pck, task'[u].d5 = task[u].d5,
         task[u].pc # "enqueue", task'[u].pc # "enqueue",
         UNCHANGED <<waiting, result, status, port, unit_pipe, thread, held, irqVars, emu>>,
         extant' \in [Unit -> Int],
         \A w \in Unit : w # u => unit'[w] = unit[w] /\ back_pipe'[w] = back_pipe[w],
         Len(back_pipe'[u]) <= Len(back_pipe[u]),
         task'[u].pc = "scan" => task[u].pc = "scan" \/ back_pipe'[u] = <<>>,
         TaskInv(u)', DummyInv(u)'
  PROVE  FsInv'
<1>i. UnitTypes /\ UnitInv(u)
  BY DEF FsInv
<1>d. \A w \in Unit : DeathSent(w)' <=> DeathSent(w)
  BY DEF DeathSent, CpuRuns
<1>1. /\ waiting' = waiting /\ result' = result /\ status' = status /\ port' = port
      /\ unit_pipe' = unit_pipe /\ thread' = thread /\ held' = held
  OBVIOUS
<1>2. Taken(u)' = Taken(u)
  BY DEF Taken, TakenOf, Chained
<1>3. PipeInv(u)' /\ HandInv(u)' /\ ResultInv(u)' /\ Done(u)' = Done(u)
  BY <1>i, <1>d, <1>1, <1>2, PipesKept
<1>4. Started(task'[u]) = Started(task[u]) /\ Started(task[u]) = task[u].d5 /\ task[u].d5 \in 0..MaxStarted
  BY <1>i, UnitFacts, Names DEF Started, One
<1>5. CountInv(u)'
  <2>1. Len(back_pipe[u]) \in Nat /\ Len(back_pipe'[u]) \in Nat /\ One(ToGiveBack(thread[u])) \in 0..1
    BY <1>i, UnitFacts DEF UnitTypes, One
  <2>2. CASE task'[u].pc = "scan" => task[u].pc = "scan"
    <3>1. Len(back_pipe'[u]) + One(ToGiveBack(thread'[u])) <= Len(back_pipe[u]) + One(ToGiveBack(thread[u]))
      BY <1>1, <2>1
    <3> QED
      BY <1>i, <1>d, <1>1, <1>3, <1>4, <2>2, <3>1, CountKept
  <2>3. CASE back_pipe'[u] = <<>>
    <3>1. CountInv(u)
      BY <1>i DEF UnitInv
    <3>2. /\ Cardinality(Done(u))' = Cardinality(Done(u)) /\ IsFiniteSet(Done(u))'
          /\ Cardinality(Done(u)) \in Nat /\ Len(back_pipe'[u]) = 0
      BY <1>3, <2>3, <3>1, FS_CardinalityType DEF CountInv
    <3>3. One(DeathSent(u))' = One(DeathSent(u)) /\ thread' = thread /\ unit_pipe' = unit_pipe
      BY <1>d, <1>1 DEF One
    <3>4. Len(back_pipe'[u]) + One(ToGiveBack(thread'[u]))
            + (IF task'[u].pc = "scan" THEN Started(task'[u]) ELSE 0)
            <= 1 + MaxStarted + Cardinality(Done(u))
      BY <1>1, <1>4, <2>1, <3>2, Names
    <3> QED
      BY <1>4, <3>1, <3>2, <3>3, <3>4 DEF CountInv
  <2> QED
    BY <2>2, <2>3
<1>6. PlaceInv(u)'
  BY <1>i, <1>1 DEF UnitInv, PlaceInv
<1>7. ASSUME NEW w \in Unit, w # u PROVE SameUnit(w)
  BY <1>1, <1>d, <1>7 DEF SameUnit
<1>8. PacketTypes' /\ OtherTypes' /\ LocksInv' /\ IrqInv'
  BY <1>1 DEF FsInv, PacketTypes, OtherTypes, LocksInv, IrqInv, irqVars
<1>9. UnitInv(u)'
  BY <1>3, <1>5, <1>6 DEF UnitInv
<1> QED
  BY <1>7, <1>8, <1>9, OneUnit

(* The types of an updated handler.                                          *)
LEMMA TaskUpdate ==
  ASSUME UnitTypes, NEW u \in Unit, NEW t \in TaskType, task' = [task EXCEPT ![u] = t]
  PROVE  /\ task' \in [Unit -> TaskType] /\ task'[u] = t
         /\ \A w \in Unit : w # u => task'[w] = task[w]
BY DEF UnitTypes

(* The handler's steps that touch no packet keep the invariant.             *)
LEMMA QuietTasksKeep ==
  ASSUME FsInv, NEW u \in Unit,
         \/ startup_handler(u) \/ ReleaseDummy(u) \/ CollectLocks(u) \/ LocksCollected(u)
         \/ ScanEnds(u)
  PROVE  FsInv'
<1>i. UnitTypes /\ UnitInv(u) /\ task[u] \in TaskType /\ OtherTypes
  BY UnitFacts DEF FsInv
<1>1. CASE startup_handler(u)
  <2> DEFINE t == [task[u] EXCEPT !.pc = "wait"]
  <2>1. /\ unit' = [unit EXCEPT ![u] = [NoUnit EXCEPT !.self = "live"]] /\ task[u].pc = "boot"
        /\ task' = [task EXCEPT ![u] = t]
        /\ UNCHANGED <<waiting, result, status, port, extant, unit_pipe, back_pipe, thread, held,
                       irqVars, emu>>
    BY <1>1 DEF startup_handler, TaskAt, packetVars, resetVars
  <2>2. t \in TaskType /\ t.pc = "wait" /\ t.chain = task[u].chain /\ t.pck = task[u].pck /\ t.d5 = task[u].d5
    BY <1>i DEF TaskType
  <2> HIDE DEF t
  <2>3. /\ task' \in [Unit -> TaskType] /\ task'[u] = t /\ \A w \in Unit : w # u => task'[w] = task[w]
    BY <1>i, <2>1, <2>2, TaskUpdate
  <2>4. [NoUnit EXCEPT !.self = "live"] \in UnitType
    BY Names DEF NoUnit, UnitType
  <2>5. unit' \in [Unit -> UnitType] /\ \A w \in Unit : w # u => unit'[w] = unit[w]
    BY <1>i, <2>1, <2>4 DEF UnitTypes
  <2>6. UnitTypes' /\ extant' \in [Unit -> Int]
    BY <1>i, <2>1, <2>3, <2>5 DEF UnitTypes, OtherTypes
  <2>7. TaskInv(u)'
    BY <1>i, <2>1, <2>2, <2>3 DEF UnitInv, TaskInv
  <2>8. DummyInv(u)'
    <3>1. unit[u] = NoUnit /\ unit'[u].acked = unit'[u].complete /\ unit[u].acked = unit[u].complete
      BY <1>i, <2>1 DEF UnitInv, TaskInv, UnitTypes, NoUnit
    <3> QED
      BY <1>i, <2>1, <2>2, <2>3, <3>1 DEF UnitInv, DummyInv, One
  <2>9. Len(back_pipe'[u]) <= Len(back_pipe[u])
    BY <1>i, <2>1, UnitFacts
  <2> QED
    BY <2>1, <2>2, <2>3, <2>5, <2>6, <2>7, <2>8, <2>9, QuietTask
<1>2. CASE ReleaseDummy(u)
  <2> DEFINE t == [task[u] EXCEPT !.pc = "collect"]
             d == [unit[u] EXCEPT !.complete = unit[u].acked]
  <2>1. /\ unit' = [unit EXCEPT ![u] = d] /\ task[u].pc = "release"
        /\ task' = [task EXCEPT ![u] = t]
        /\ UNCHANGED <<waiting, result, status, port, extant, unit_pipe, back_pipe, thread, held,
                       irqVars, emu>>
    BY <1>2 DEF ReleaseDummy, TaskAt, packetVars, resetVars
  <2>2. t \in TaskType /\ t.pc = "collect" /\ t.chain = task[u].chain /\ t.pck = task[u].pck /\ t.d5 = task[u].d5
    BY <1>i DEF TaskType
  <2>4. d \in UnitType /\ d.complete = d.acked
    <3>1. unit[u] \in UnitType
      BY <1>i, UnitFacts
    <3> QED
      BY <3>1 DEF UnitType
  <2> HIDE DEF t, d
  <2>3. /\ task' \in [Unit -> TaskType] /\ task'[u] = t /\ \A w \in Unit : w # u => task'[w] = task[w]
    BY <1>i, <2>1, <2>2, TaskUpdate
  <2>5. unit' \in [Unit -> UnitType] /\ unit'[u] = d /\ \A w \in Unit : w # u => unit'[w] = unit[w]
    BY <1>i, <2>1, <2>4 DEF UnitTypes
  <2>6. UnitTypes' /\ extant' \in [Unit -> Int]
    BY <1>i, <2>1, <2>3, <2>5 DEF UnitTypes, OtherTypes
  <2>7. TaskInv(u)'
    BY <1>i, <2>1, <2>2, <2>3 DEF UnitInv, TaskInv
  <2>8. DummyInv(u)'
    <3>1. Occurrences(Dummy, port[u]) + One(task[u].pc = "release")
            = One(unit[u].acked # unit[u].complete)
      BY <1>i DEF UnitInv, DummyInv
    <3>2. Occurrences(Dummy, port[u]) \in Nat
      BY <1>i, UnitFacts, PlacesFinite
    <3>3. Occurrences(Dummy, port[u]) = 0
      BY <2>1, <3>1, <3>2 DEF One
    <3>4. One(task'[u].pc = "release") = 0 /\ One(unit'[u].acked # unit'[u].complete) = 0
      BY <2>2, <2>3, <2>4, <2>5 DEF One
    <3>5. port' = port
      BY <2>1
    <3> QED
      BY <3>3, <3>4, <3>5 DEF DummyInv
  <2>9. Len(back_pipe'[u]) <= Len(back_pipe[u])
    BY <1>i, <2>1, UnitFacts
  <2> QED
    BY <2>1, <2>2, <2>3, <2>5, <2>6, <2>7, <2>8, <2>9, QuietTask
<1>3. CASE CollectLocks(u)
  <2> DEFINE n == task[u].locks + Head(back_pipe[u])
             t == [task[u] EXCEPT !.locks = n]
  <2>1. /\ back_pipe[u] # <<>> /\ back_pipe' = [back_pipe EXCEPT ![u] = Tail(back_pipe[u])]
        /\ task' = [task EXCEPT ![u] = t] /\ task[u].pc = "collect"
        /\ UNCHANGED <<waiting, result, status, port, extant, unit, unit_pipe, thread, held,
                       irqVars, emu>>
    BY <1>3 DEF CollectLocks, TaskAt, packetVars, resetVars
  <2>0. /\ n \in Nat /\ Tail(back_pipe[u]) \in Seq(1..3)
        /\ Len(Tail(back_pipe[u])) <= Len(back_pipe[u])
    <3>1. back_pipe[u] \in Seq(1..3) /\ task[u].locks \in Nat
      BY <1>i, UnitFacts
    <3>2. Head(back_pipe[u]) \in 1..3 /\ Tail(back_pipe[u]) \in Seq(1..3)
          /\ Len(Tail(back_pipe[u])) <= Len(back_pipe[u])
      BY <2>1, <3>1
    <3> QED
      BY <3>1, <3>2
  <2> HIDE DEF n
  <2>2. t \in TaskType /\ t.pc = "collect" /\ t.chain = task[u].chain /\ t.pck = task[u].pck /\ t.d5 = task[u].d5
    BY <1>i, <2>0, <2>1 DEF TaskType
  <2> HIDE DEF t
  <2>3. /\ task' \in [Unit -> TaskType] /\ task'[u] = t /\ \A w \in Unit : w # u => task'[w] = task[w]
    BY <1>i, <2>1, <2>2, TaskUpdate
  <2>5. /\ back_pipe' \in [Unit -> Seq(1..3)] /\ back_pipe'[u] = Tail(back_pipe[u])
        /\ \A w \in Unit : w # u => back_pipe'[w] = back_pipe[w]
    BY <1>i, <2>0, <2>1 DEF UnitTypes
  <2>6. UnitTypes' /\ extant' \in [Unit -> Int]
    BY <1>i, <2>1, <2>3, <2>5 DEF UnitTypes, OtherTypes
  <2>7. TaskInv(u)'
    BY <1>i, <2>1, <2>2, <2>3 DEF UnitInv, TaskInv
  <2>8. DummyInv(u)'
    BY <1>i, <2>1, <2>2, <2>3 DEF UnitInv, DummyInv
  <2>9. Len(back_pipe'[u]) <= Len(back_pipe[u])
    BY <2>0, <2>5
  <2> QED
    BY <2>1, <2>2, <2>3, <2>5, <2>6, <2>7, <2>8, <2>9, QuietTask
<1>4. CASE LocksCollected(u) \/ ScanEnds(u)
  <2>1. PICK pc \in {"scan", "wait"}, n \in {0, 1} :
        /\ task' = [task EXCEPT ![u].pc = pc, ![u].scan = n] /\ task[u].pc \in {"collect", "scan"}
        /\ pc = "scan" => n = 1 /\ back_pipe[u] = <<>>
        /\ UNCHANGED <<waiting, result, status, port, extant, unit, unit_pipe, back_pipe, thread, held,
                       irqVars, emu>>
    <3>1. CASE LocksCollected(u)
      BY <3>1 DEF LocksCollected, TaskAt, packetVars, hostVars, resetVars
    <3>2. CASE ScanEnds(u)
      BY <3>2 DEF ScanEnds, TaskAt, packetVars, hostVars, resetVars
    <3> QED
      BY <1>4, <3>1, <3>2
  <2> DEFINE t == [task[u] EXCEPT !.pc = pc, !.scan = n]
  <2>2. /\ t \in TaskType /\ t.pc = pc /\ t.chain = task[u].chain /\ t.pck = task[u].pck
        /\ t.d5 = task[u].d5 /\ t.scan = n
    <3>1. n \in Nat /\ pc \in {"boot", "wait", "release", "collect", "scan", "fromDOS", "enqueue"}
      OBVIOUS
    <3> QED
      BY <1>i, <3>1 DEF TaskType
  <2>0. task' = [task EXCEPT ![u] = t]
    BY <1>i, <2>1 DEF UnitTypes
  <2> HIDE DEF t
  <2>3. /\ task' \in [Unit -> TaskType] /\ task'[u] = t /\ \A w \in Unit : w # u => task'[w] = task[w]
    BY <1>i, <2>0, <2>2, TaskUpdate
  <2>6. UnitTypes' /\ extant' \in [Unit -> Int]
    BY <1>i, <2>1, <2>3 DEF UnitTypes, OtherTypes
  <2>7. TaskInv(u)'
    BY <1>i, <2>1, <2>2, <2>3 DEF UnitInv, TaskInv
  <2>8. DummyInv(u)'
    BY <1>i, <2>1, <2>2, <2>3 DEF UnitInv, DummyInv, One
  <2>9. Len(back_pipe'[u]) <= Len(back_pipe[u])
    BY <1>i, <2>1, UnitFacts
  <2>10. task[u].pc # "enqueue" /\ task'[u].pc # "enqueue"
         /\ (task'[u].pc = "scan" => back_pipe'[u] = <<>>)
    BY <2>1, <2>2, <2>3
  <2> QED
    BY <2>1, <2>2, <2>3, <2>6, <2>7, <2>8, <2>9, <2>10, QuietTask
<1> QED
  BY <1>1, <1>2, <1>3, <1>4

(* A packet is on a chain if it occurs there.                                *)
LEMMA ChainedOccurs ==
  ASSUME NEW s \in Seq(Packet), NEW p
  PROVE  p \in {s[i] : i \in DOMAIN s} <=> Occurrences(p, s) # 0
<1>1. Occurrences(p, s) = 0 <=> \A i \in 1..Len(s) : s[i] # p
  BY OccursNowhere
<1>2. DOMAIN s = 1..Len(s)
  OBVIOUS
<1> QED
  BY <1>1, <1>2

(* FSML_check_old replies a packet that is done, out of the chain.          *)
LEMMA ScanKeeps ==
  ASSUME FsInv, NEW u \in Unit, Scan(u)
  PROVE  FsInv'
<1> DEFINE n == task[u].scan
           p == task[u].chain[n]
           chain == RemoveAt(task[u].chain, n)
<1>i. UnitTypes /\ UnitInv(u) /\ task[u] \in TaskType /\ OtherTypes /\ PacketTypes
  BY UnitFacts DEF FsInv
<1>n. n \in 1..Len(task[u].chain) /\ task[u].chain \in Seq(Packet) /\ task[u].pc = "scan"
      /\ task[u].d5 \in 0..MaxStarted
  <2>1. n >= 1 /\ n <= Len(task[u].chain) /\ task[u].pc = "scan"
    BY <1>i DEF Scan, TaskAt, UnitInv, TaskInv
  <2>2. n \in Nat /\ task[u].chain \in Seq(Packet)
    BY <1>i, UnitFacts
  <2> HIDE DEF n
  <2> QED
    BY <1>i, <2>1, <2>2, UnitFacts
<1>p. p \in Packet /\ p \in Chained(task[u])
  BY <1>n DEF Chained
<1>d. \A w \in Unit : DeathSent(w)' <=> DeathSent(w)
  BY DEF DeathSent, CpuRuns, Scan, resetVars
<1>1. CASE status[p] # "done"
  <2> DEFINE t == [task[u] EXCEPT !.scan = n + 1]
  <2>1. /\ task' = [task EXCEPT ![u] = t]
        /\ UNCHANGED <<waiting, result, status, port, extant, unit, unit_pipe, back_pipe, thread, held,
                       irqVars, emu>>
    BY <1>1 DEF Scan, hostVars, resetVars
  <2>2. n + 1 \in Nat /\ n + 1 >= 1
    BY <1>n
  <2> HIDE DEF n
  <2>3. /\ t \in TaskType /\ t.pc = "scan" /\ t.chain = task[u].chain /\ t.pck = task[u].pck
        /\ t.d5 = task[u].d5 /\ t.scan = n + 1
    BY <1>i, <1>n, <2>2 DEF TaskType
  <2> HIDE DEF t
  <2>4. /\ task' \in [Unit -> TaskType] /\ task'[u] = t /\ \A w \in Unit : w # u => task'[w] = task[w]
    BY <1>i, <2>1, <2>3, TaskUpdate
  <2>5. UnitTypes' /\ extant' \in [Unit -> Int]
    BY <1>i, <2>1, <2>4 DEF UnitTypes, OtherTypes
  <2>6. TaskInv(u)'
    BY <1>i, <1>n, <2>1, <2>2, <2>3, <2>4 DEF UnitInv, TaskInv
  <2>7. DummyInv(u)'
    BY <1>i, <1>n, <2>1, <2>3, <2>4 DEF UnitInv, DummyInv
  <2>8. Len(back_pipe'[u]) <= Len(back_pipe[u])
    BY <1>i, <2>1, UnitFacts
  <2> QED
    BY <1>n, <2>1, <2>3, <2>4, <2>5, <2>6, <2>7, <2>8, QuietTask
<1>2. CASE status[p] = "done"
  <2>1. /\ task' = [task EXCEPT ![u].chain = chain, ![u].d5 = @ - 1] /\ waiting' = waiting \ {p}
        /\ UNCHANGED <<result, status, port, extant, unit, unit_pipe, back_pipe, thread, held,
                       irqVars, emu>>
    BY <1>2 DEF Scan, hostVars, resetVars
  <2>2. p \in Done(u) /\ p \in waiting /\ Volume[p] = u /\ task[u].pck # p
        /\ Occurrences(p, task[u].chain) = 1 /\ Occurrences(p, port[u]) = 0
    <3>1. /\ p \in waiting /\ Volume[p] = u /\ task[u].pck # p
          /\ Occurrences(p, task[u].chain) = 1 /\ Occurrences(p, port[u]) = 0
      BY <1>i, <1>p, WhereItIs DEF UnitInv
    <3> QED
      BY <1>2, <1>p, <3>1 DEF Done, Taken, TakenOf
  <2>3. chain \in Seq(Packet) /\ \A q : Occurrences(q, task[u].chain) = One(p = q) + Occurrences(q, chain)
    BY <1>n, OccursRemoveAt
  <2>4. /\ IsFiniteSet(Done(u)) /\ Cardinality(Done(u)) \in Nat /\ Cardinality(Done(u)) > 0
        /\ Cardinality(Done(u)) <= task[u].d5
    <3>1. /\ IsFiniteSet(Done(u)) /\ Cardinality(Done(u)) \in Nat /\ Cardinality(Done(u)) <= Started(task[u])
      <4>1. /\ IsFiniteSet(Done(u)) /\ Cardinality(Done(u)) \in Nat
            /\ One(Works(thread[u])) + Cardinality(Done(u)) <= Started(task[u])
        BY <1>i, FS_CardinalityType DEF UnitInv, CountInv
      <4>2. One(Works(thread[u])) \in Nat /\ Started(task[u]) \in Nat
        BY <1>n, Names DEF One, Started
      <4> QED
        BY <4>1, <4>2
    <3>2. Cardinality(Done(u)) # 0
      BY <2>2, <3>1, FS_EmptySet
    <3> QED
      BY <1>n, <3>1, <3>2 DEF Started, One
  <2> DEFINE d == task[u].d5 - 1
             t == [task[u] EXCEPT !.chain = chain, !.d5 = d]
  <2>5. d \in 0..MaxStarted
    BY <1>n, <2>4, Names
  <2> HIDE DEF d, chain, p, n
  <2>6. /\ t \in TaskType /\ t.pc = "scan" /\ t.chain = chain /\ t.pck = task[u].pck
        /\ t.d5 = d /\ t.scan = n
    BY <1>i, <1>n, <2>3, <2>5 DEF TaskType, n
  <2>7. task' = [task EXCEPT ![u] = t]
    BY <1>i, <2>1 DEF UnitTypes, d
  <2> HIDE DEF t
  <2>8. /\ task' \in [Unit -> TaskType] /\ task'[u] = t /\ \A w \in Unit : w # u => task'[w] = task[w]
    BY <1>i, <2>6, <2>7, TaskUpdate
  <2>9. UnitTypes'
    BY <1>i, <2>1, <2>8 DEF UnitTypes
  <2>10. \A q \in Packet : Occurrences(q, chain) \in Nat /\ Occurrences(q, task[u].chain) \in Nat
    BY <1>n, <2>3, PlacesFinite
  <2>11. \A q \in Packet : q \in Chained(t) <=> q \in Chained(task[u]) /\ q # p
    <3> TAKE q \in Packet
    <3>1. (q \in Chained(task[u]) <=> Occurrences(q, task[u].chain) # 0)
      BY <1>n, ChainedOccurs DEF Chained
    <3>2. q \in Chained(t) <=> Occurrences(q, chain) # 0
      BY <2>3, <2>6, ChainedOccurs DEF Chained
    <3>3. Occurrences(q, task[u].chain) = One(p = q) + Occurrences(q, chain)
      BY <2>3
    <3> QED
      BY <2>2, <2>10, <3>1, <3>2, <3>3 DEF One
  <2>12. /\ \A q \in Taken(u) : q \in Packet /\ q \in Chained(task[u])
         /\ \A q \in Taken(u)' : q \in Packet /\ q \in Chained(t)
         /\ \A q \in Chained(t) : q \in Taken(u)'
         /\ \A q \in Chained(task[u]) : q \in Taken(u)
    <3>1. \A q \in Chained(task[u]) : q \in Packet
      BY <1>n DEF Chained
    <3>2. \A q \in Chained(t) : q \in Packet
      BY <2>3, <2>6 DEF Chained
    <3> QED
      BY <1>n, <2>6, <2>8, <3>1, <3>2 DEF Taken, TakenOf
  <2>13. Taken(u)' = Taken(u) \ {p}
    BY <2>11, <2>12
  <2>14. Done(u)' = Done(u) \ {p}
    BY <2>1, <2>13 DEF Done
  <2>15. IsFiniteSet(Done(u)') /\ Cardinality(Done(u)') = Cardinality(Done(u)) - 1
    BY <2>2, <2>4, <2>14, FS_RemoveElement
  <2>16. PipeInv(u)'
    <3>1. unit_pipe' = unit_pipe /\ status' = status
      BY <2>1
    <3> QED
      BY <1>i, <1>2, <1>d, <2>13, <3>1 DEF UnitInv, PipeInv, p, n
  <2>17. HandInv(u)' /\ ResultInv(u)'
    <3>1. unit_pipe' = unit_pipe /\ status' = status /\ thread' = thread /\ result' = result
      BY <2>1
    <3>2. HandInv(u)'
      BY <1>i, <1>2, <2>13, <3>1 DEF UnitInv, HandInv, p, n
    <3>3. ResultInv(u)'
      BY <1>i, <2>14, <3>1 DEF UnitInv, ResultInv
    <3> QED
      BY <3>2, <3>3
  <2>18. CountInv(u)'
    <3>1. Started(task[u]) = task[u].d5 /\ Started(task'[u]) = d /\ task'[u].pc = "scan"
      BY <1>n, <2>5, <2>6, <2>8 DEF Started, One
    <3>2. /\ unit_pipe' = unit_pipe /\ thread' = thread /\ back_pipe' = back_pipe
          /\ One(DeathSent(u))' = One(DeathSent(u))
      BY <1>d, <2>1 DEF One
    <3> DEFINE a == Len(unit_pipe[u]) + One(Works(thread[u]))
               w == One(Works(thread[u]))
               b == Len(back_pipe[u]) + One(ToGiveBack(thread[u]))
    <3>3. a \in Nat /\ b \in Nat /\ w \in Nat /\ One(DeathSent(u)) \in Nat
      <4>1. Len(unit_pipe[u]) \in Nat /\ Len(back_pipe[u]) \in Nat
        BY <1>i, UnitFacts
      <4>2. /\ One(Works(thread[u])) \in Nat /\ One(ToGiveBack(thread[u])) \in Nat
            /\ One(DeathSent(u)) \in Nat
        BY DEF One
      <4> QED
        BY <4>1, <4>2
    <3>4. /\ a + Cardinality(Done(u)) <= task[u].d5 + One(DeathSent(u))
          /\ b + task[u].d5 <= 1 + MaxStarted + Cardinality(Done(u))
          /\ w + Cardinality(Done(u)) <= task[u].d5
      BY <1>i, <1>n, <3>1 DEF UnitInv, CountInv
    <3>5. /\ a' = a /\ b' = b /\ w' = w
      BY <3>2
    <3> HIDE DEF a, b, w
    <3>6. /\ a + Cardinality(Done(u)') <= d + One(DeathSent(u))
          /\ w + Cardinality(Done(u)') <= d
          /\ b + d <= 1 + MaxStarted + Cardinality(Done(u)')
      <4> DEFINE c == Cardinality(Done(u))
                 e == One(DeathSent(u))
                 k == task[u].d5
      <4>1. /\ c \in Nat /\ e \in Nat /\ k \in Nat /\ MaxStarted \in Nat /\ w + c <= k
            /\ a + c <= k + e /\ b + k <= 1 + MaxStarted + c
        BY <1>n, <2>4, <3>3, <3>4, Names
      <4>2. Cardinality(Done(u)') = c - 1 /\ d = k - 1
        BY <2>15 DEF d
      <4> HIDE DEF c, e, k
      <4>3. a + (c - 1) <= (k - 1) + e /\ w + (c - 1) <= k - 1 /\ b + (k - 1) <= 1 + MaxStarted + (c - 1)
        BY <3>3, <4>1
      <4> QED
        BY <4>2, <4>3 DEF e
    <3> QED
      BY <2>15, <3>1, <3>2, <3>5, <3>6 DEF CountInv, a, b, w
  <2>19. TaskInv(u)'
    BY <1>i, <1>n, <2>1, <2>6, <2>8 DEF UnitInv, TaskInv, n
  <2>20. PlaceInv(u)'
    <3> SUFFICES ASSUME NEW q \in Packet
                 PROVE  Occurrences(q, port[u]) + Occurrences(q, chain) + One(task[u].pck = q)
                          = One(q \in waiting' /\ u = Volume[q])
      BY <2>1, <2>6, <2>8 DEF PlaceInv
    <3>1. Occurrences(q, port[u]) + Occurrences(q, task[u].chain) + One(task[u].pck = q)
            = One(q \in waiting /\ u = Volume[q])
      BY <1>i DEF UnitInv, PlaceInv
    <3>2. Occurrences(q, task[u].chain) = One(p = q) + Occurrences(q, chain)
      BY <2>3
    <3>3. Occurrences(q, chain) \in Nat
      BY <2>10
    <3>4. CASE q = p
      BY <2>1, <2>2, <3>2, <3>3, <3>4 DEF One
    <3>5. CASE q # p
      <4>1. Occurrences(q, task[u].chain) = Occurrences(q, chain) /\ (q \in waiting' <=> q \in waiting)
        BY <2>1, <3>2, <3>3, <3>5 DEF One
      <4> QED
        BY <3>1, <4>1 DEF One
    <3> QED
      BY <3>4, <3>5
  <2>21. DummyInv(u)'
    BY <1>i, <1>n, <2>1, <2>6, <2>8 DEF UnitInv, DummyInv
  <2>22. ASSUME NEW w \in Unit, w # u PROVE SameUnit(w)
    BY <1>d, <2>1, <2>2, <2>8, <2>22 DEF SameUnit
  <2>23. PacketTypes' /\ OtherTypes' /\ LocksInv' /\ IrqInv'
    BY <2>1 DEF FsInv, PacketTypes, OtherTypes, LocksInv, IrqInv, irqVars
  <2>24. UnitInv(u)'
    BY <2>16, <2>17, <2>18, <2>19, <2>20, <2>21 DEF UnitInv
  <2> QED
    BY <2>9, <2>22, <2>23, <2>24, OneUnit
<1> QED
  BY <1>1, <1>2

(* A step of the handler on the packet in its hands.                         *)
LEMMA PacketTask ==
  ASSUME FsInv, NEW u \in Unit, UnitTypes', PacketTypes',
         \A w \in Unit : w # u => task'[w] = task[w],
         UNCHANGED <<result, port, unit, unit_pipe, back_pipe, thread, held, irqVars, emu>>,
         extant' \in [Unit -> Int],
         \A p \in Packet : Volume[p] # u => status'[p] = status[p] /\ (p \in waiting' <=> p \in waiting),
         \A p \in Taken(u) : p \in Taken(u)' /\ status'[p] = status[p],
         \A p \in Taken(u)' : p \notin Taken(u) => status'[p] # "done",
         Started(task'[u]) = Started(task[u]),
         task[u].pc \in {"fromDOS", "enqueue"}, task'[u].pc \in {"wait", "fromDOS", "enqueue"},
         TaskInv(u)', PlaceInv(u)'
  PROVE  FsInv'
<1>i. UnitTypes /\ UnitInv(u)
  BY DEF FsInv
<1>d. \A w \in Unit : DeathSent(w)' <=> DeathSent(w)
  BY DEF DeathSent, CpuRuns
<1>1. /\ result' = result /\ port' = port /\ unit' = unit /\ back_pipe' = back_pipe
      /\ unit_pipe' = unit_pipe /\ thread' = thread /\ held' = held
  OBVIOUS
<1>2. PipeInv(u)' /\ HandInv(u)' /\ ResultInv(u)' /\ Done(u)' = Done(u)
  BY <1>i, <1>d, <1>1, PipesKept
<1>3. CountInv(u)'
  <2>1. Len(back_pipe[u]) \in Nat /\ One(ToGiveBack(thread[u])) \in 0..1
    BY <1>i, UnitFacts DEF One
  <2>2. Len(back_pipe'[u]) + One(ToGiveBack(thread'[u])) <= Len(back_pipe[u]) + One(ToGiveBack(thread[u]))
    BY <1>1, <2>1
  <2>3. task'[u].pc # "scan"
    OBVIOUS
  <2> QED
    BY <1>i, <1>d, <1>1, <1>2, <2>2, <2>3, CountKept
<1>4. DummyInv(u)'
  BY <1>i, <1>1 DEF UnitInv, DummyInv, One
<1>5. ASSUME NEW w \in Unit, w # u PROVE SameUnit(w)
  BY <1>1, <1>d, <1>5 DEF SameUnit
<1>6. OtherTypes' /\ LocksInv' /\ IrqInv'
  BY <1>1 DEF FsInv, OtherTypes, LocksInv, IrqInv, irqVars
<1>7. UnitInv(u)'
  BY <1>2, <1>3, <1>4 DEF UnitInv
<1> QED
  BY <1>5, <1>6, <1>7, OneUnit

(* LockCheck leaves three to six locks.                                     *)
LEMMA LockCheckFacts ==
  ASSUME NEW n \in Nat PROVE LockCheck(n) \in 3..6
BY DEF LockCheck

(* A command that must wait goes to the chain's front, with no thread.      *)
LEMMA QueueKeeps ==
  ASSUME FsInv, NEW u \in Unit, TaskAt(u, "fromDOS"), QueueCommand(u)
  PROVE  FsInv'
<1> DEFINE p == task[u].pck
           chain == <<p>> \o task[u].chain
           t == [task[u] EXCEPT !.pc = "wait", !.pck = Null, !.chain = chain]
<1>i. UnitTypes /\ UnitInv(u) /\ task[u] \in TaskType /\ OtherTypes /\ PacketTypes
  BY UnitFacts DEF FsInv
<1>p. p \in Packet /\ task[u].pc = "fromDOS" /\ task[u].chain \in Seq(Packet)
  BY <1>i, UnitFacts DEF TaskAt, UnitInv, TaskInv
<1>1. /\ status' = [status EXCEPT ![p] = "1"]
      /\ task' = [task EXCEPT ![u].pc = "wait", ![u].pck = Null, ![u].chain = chain]
      /\ UNCHANGED <<waiting, result, port, extant, unit, unit_pipe, back_pipe, thread, held,
                     irqVars, emu>>
  BY DEF QueueCommand, hostVars, resetVars
<1>2. /\ chain \in Seq(Packet)
      /\ \A q : Occurrences(q, chain) = One(p = q) + Occurrences(q, task[u].chain)
      /\ {chain[i] : i \in DOMAIN chain} = {p} \cup Chained(task[u])
  <2> DEFINE c == task[u].chain
  <2>0. p \in Packet /\ c \in Seq(Packet)
    BY <1>p
  <2>1. /\ chain \in Seq(Packet)
        /\ \A y : (\E i \in DOMAIN chain : chain[i] = y) <=> y = p \/ (\E i \in DOMAIN c : c[i] = y)
    <3>1. chain = <<p>> \o c
      OBVIOUS
    <3> HIDE DEF p, c, chain
    <3>2. /\ <<p>> \o c \in Seq(Packet)
          /\ \A y : (\E i \in DOMAIN (<<p>> \o c) : (<<p>> \o c)[i] = y)
                   <=> y = p \/ (\E i \in DOMAIN c : c[i] = y)
      BY ONLY <2>0, PrependFacts, SMTT(30)
    <3> QED
      BY <3>1, <3>2
  <2>2. \A q : Occurrences(q, chain) = One(p = q) + Occurrences(q, task[u].chain)
    BY <1>p, OccursPrepend
  <2> HIDE DEF chain
  <2>3. {chain[i] : i \in DOMAIN chain} = {p} \cup {task[u].chain[i] : i \in DOMAIN task[u].chain}
    BY <2>1
  <2> QED
    BY <2>1, <2>2, <2>3 DEF Chained
<1>w. p \in waiting /\ Volume[p] = u /\ p \notin Chained(task[u])
  BY <1>i, <1>p, WhereItIs DEF UnitInv
<1>n. p # Null
  BY <1>p, Names
<1> HIDE DEF p, chain
<1>3. /\ t \in TaskType /\ t.pc = "wait" /\ t.pck = Null /\ t.chain = chain
      /\ t.d5 = task[u].d5
  BY <1>i, <1>2 DEF TaskType
<1>4. task' = [task EXCEPT ![u] = t]
  BY <1>i, <1>1 DEF UnitTypes
<1> HIDE DEF t
<1>5. /\ task' \in [Unit -> TaskType] /\ task'[u] = t /\ \A w \in Unit : w # u => task'[w] = task[w]
  BY <1>i, <1>3, <1>4, TaskUpdate
<1>6. UnitTypes' /\ extant' \in [Unit -> Int]
  BY <1>i, <1>1, <1>5 DEF UnitTypes, OtherTypes
<1>7. /\ PacketTypes' /\ status'[p] = "1" /\ \A q \in Packet : q # p => status'[q] = status[q]
  BY <1>i, <1>p, <1>1 DEF PacketTypes
<1>8. Taken(u) = Chained(task[u]) /\ Taken(u)' = {p} \cup Chained(task[u])
  <2>1. Chained(t) = {chain[i] : i \in DOMAIN chain}
    BY <1>3 DEF Chained
  <2>2. TakenOf(t) = Chained(t) /\ TakenOf(task[u]) = Chained(task[u])
    BY <1>3, <1>p DEF TakenOf
  <2> QED
    BY <1>2, <1>5, <2>1, <2>2 DEF Taken
<1>9. \A q \in Taken(u) : q \in Packet /\ q # p
  BY <1>8, <1>p, <1>w DEF Chained
<1>10. Started(task'[u]) = Started(task[u])
  BY <1>3, <1>5, <1>p DEF Started, One
<1>11. TaskInv(u)'
  BY <1>3, <1>5 DEF TaskInv
<1>12. PlaceInv(u)'
  <2> SUFFICES ASSUME NEW q \in Packet
               PROVE  Occurrences(q, port[u]) + Occurrences(q, chain) + One(Null = q)
                        = One(q \in waiting /\ u = Volume[q])
    BY <1>1, <1>3, <1>5 DEF PlaceInv
  <2>1. Occurrences(q, port[u]) + Occurrences(q, task[u].chain) + One(p = q)
          = One(q \in waiting /\ u = Volume[q])
    BY <1>i DEF UnitInv, PlaceInv, p
  <2>2. Occurrences(q, chain) = One(p = q) + Occurrences(q, task[u].chain)
    BY <1>2
  <2>3. Occurrences(q, port[u]) \in Nat /\ Occurrences(q, task[u].chain) \in Nat /\ One(p = q) \in Nat
    BY <1>i, <1>p, UnitFacts, PlacesFinite DEF One
  <2>4. One(Null = q) = 0
    BY Names DEF One
  <2> QED
    BY <2>1, <2>2, <2>3, <2>4
<1>13. \A q \in Packet : Volume[q] # u => status'[q] = status[q] /\ (q \in waiting' <=> q \in waiting)
  BY <1>1, <1>7, <1>w
<1>14. \A q \in Taken(u) : q \in Taken(u)' /\ status'[q] = status[q]
  BY <1>7, <1>8, <1>9
<1>15. \A q \in Taken(u)' : q \notin Taken(u) => status'[q] # "done"
  BY <1>7, <1>8
<1>16. task[u].pc \in {"fromDOS", "enqueue"} /\ task'[u].pc \in {"wait", "fromDOS", "enqueue"}
  BY <1>3, <1>5, <1>p
<1> QED
  BY <1>1, <1>5, <1>6, <1>7, <1>10, <1>11, <1>12, <1>13, <1>14, <1>15, <1>16, PacketTask

(* A packet that is refused is replied at once.                             *)
LEMMA RejectKeeps ==
  ASSUME FsInv, NEW u \in Unit, TaskAt(u, "fromDOS"), RejectCommand(u)
  PROVE  FsInv'
<1> DEFINE p == task[u].pck
           n == LockCheck(task[u].locks)
           t == [task[u] EXCEPT !.pc = "wait", !.pck = Null, !.locks = n]
<1>i. UnitTypes /\ UnitInv(u) /\ task[u] \in TaskType /\ OtherTypes /\ PacketTypes
  BY UnitFacts DEF FsInv
<1>p. p \in Packet /\ task[u].pc = "fromDOS" /\ task[u].chain \in Seq(Packet)
  BY <1>i, UnitFacts DEF TaskAt, UnitInv, TaskInv
<1>1. /\ waiting' = waiting \ {p}
      /\ extant' = [extant EXCEPT ![u] = @ + n - task[u].locks]
      /\ task' = [task EXCEPT ![u].pc = "wait", ![u].pck = Null, ![u].locks = n]
      /\ UNCHANGED <<result, status, port, unit, unit_pipe, back_pipe, thread, held,
                     irqVars, emu>>
  BY DEF RejectCommand, hostVars, resetVars
<1>2. n \in Nat /\ task[u].locks \in Nat
  <2>1. task[u].locks \in Nat
    BY <1>i, UnitFacts
  <2> QED
    BY <2>1, LockCheckFacts
<1>w. /\ p \in waiting /\ Volume[p] = u /\ p \notin Chained(task[u])
      /\ Occurrences(p, task[u].chain) = 0 /\ Occurrences(p, port[u]) = 0
  BY <1>i, <1>p, WhereItIs DEF UnitInv
<1> HIDE DEF p, n
<1>3. /\ t \in TaskType /\ t.pc = "wait" /\ t.pck = Null /\ t.chain = task[u].chain
      /\ t.d5 = task[u].d5
  BY <1>i, <1>2 DEF TaskType
<1>4. task' = [task EXCEPT ![u] = t]
  BY <1>i, <1>1 DEF UnitTypes
<1> HIDE DEF t
<1>5. /\ task' \in [Unit -> TaskType] /\ task'[u] = t /\ \A w \in Unit : w # u => task'[w] = task[w]
  BY <1>i, <1>3, <1>4, TaskUpdate
<1>6. extant' \in [Unit -> Int]
  <2>1. extant[u] + n - task[u].locks \in Int
    BY <1>i, <1>2 DEF OtherTypes
  <2> QED
    BY <1>i, <1>1, <2>1 DEF OtherTypes
<1>7. UnitTypes' /\ PacketTypes'
  BY <1>i, <1>1, <1>5 DEF UnitTypes, PacketTypes
<1>8. Taken(u)' = Taken(u)
  BY <1>3, <1>5, <1>p DEF Taken, TakenOf, Chained
<1>10. Started(task'[u]) = Started(task[u])
  BY <1>3, <1>5, <1>p DEF Started, One
<1>11. TaskInv(u)'
  BY <1>3, <1>5 DEF TaskInv
<1>12. PlaceInv(u)'
  <2> SUFFICES ASSUME NEW q \in Packet
               PROVE  Occurrences(q, port[u]) + Occurrences(q, task[u].chain) + One(Null = q)
                        = One(q \in waiting' /\ u = Volume[q])
    BY <1>1, <1>3, <1>5 DEF PlaceInv
  <2>1. Occurrences(q, port[u]) + Occurrences(q, task[u].chain) + One(p = q)
          = One(q \in waiting /\ u = Volume[q])
    BY <1>i DEF UnitInv, PlaceInv, p
  <2>3. Occurrences(q, port[u]) \in Nat /\ Occurrences(q, task[u].chain) \in Nat
    BY <1>i, <1>p, UnitFacts, PlacesFinite
  <2>4. One(Null = q) = 0
    BY Names DEF One
  <2>5. CASE q = p
    BY <1>1, <1>w, <2>4, <2>5 DEF One
  <2>6. CASE q # p
    BY <1>1, <2>1, <2>3, <2>4, <2>6 DEF One
  <2> QED
    BY <2>5, <2>6
<1>13. \A q \in Packet : Volume[q] # u => status'[q] = status[q] /\ (q \in waiting' <=> q \in waiting)
  BY <1>1, <1>w
<1>16. task[u].pc \in {"fromDOS", "enqueue"} /\ task'[u].pc \in {"wait", "fromDOS", "enqueue"}
  BY <1>3, <1>5, <1>p
<1>17. status' = status
  BY <1>1
<1> QED
  BY <1>1, <1>5, <1>6, <1>7, <1>8, <1>10, <1>11, <1>12, <1>13, <1>16, <1>17, PacketTask

(* The command started goes from the handler's hands to the chain.          *)
LEMMA EnqueueKeeps ==
  ASSUME FsInv, NEW u \in Unit, Enqueue(u)
  PROVE  FsInv'
<1> DEFINE p == task[u].pck
           chain == <<p>> \o task[u].chain
           d == task[u].d5 + 1
           t == [task[u] EXCEPT !.pc = "wait", !.pck = Null, !.d5 = d, !.chain = chain]
<1>i. UnitTypes /\ UnitInv(u) /\ task[u] \in TaskType /\ OtherTypes /\ PacketTypes
  BY UnitFacts DEF FsInv
<1>p. p \in Packet /\ task[u].pc = "enqueue" /\ task[u].chain \in Seq(Packet)
  BY <1>i, UnitFacts DEF Enqueue, TaskAt, UnitInv, TaskInv
<1>1. /\ task' = [task EXCEPT ![u].pc = "wait", ![u].pck = Null, ![u].d5 = d, ![u].chain = chain]
      /\ UNCHANGED <<waiting, result, status, port, extant, unit, unit_pipe, back_pipe, thread, held,
                     irqVars, emu>>
  BY DEF Enqueue, packetVars, hostVars, resetVars
<1>2. /\ chain \in Seq(Packet)
      /\ \A q : Occurrences(q, chain) = One(p = q) + Occurrences(q, task[u].chain)
      /\ {chain[i] : i \in DOMAIN chain} = {p} \cup Chained(task[u])
  <2> DEFINE c == task[u].chain
  <2>0. p \in Packet /\ c \in Seq(Packet)
    BY <1>p
  <2>1. /\ chain \in Seq(Packet)
        /\ \A y : (\E i \in DOMAIN chain : chain[i] = y) <=> y = p \/ (\E i \in DOMAIN c : c[i] = y)
    <3>1. chain = <<p>> \o c
      OBVIOUS
    <3> HIDE DEF p, c, chain
    <3>2. /\ <<p>> \o c \in Seq(Packet)
          /\ \A y : (\E i \in DOMAIN (<<p>> \o c) : (<<p>> \o c)[i] = y)
                   <=> y = p \/ (\E i \in DOMAIN c : c[i] = y)
      BY ONLY <2>0, PrependFacts, SMTT(30)
    <3> QED
      BY <3>1, <3>2
  <2>2. \A q : Occurrences(q, chain) = One(p = q) + Occurrences(q, task[u].chain)
    BY <1>p, OccursPrepend
  <2> HIDE DEF chain
  <2>3. {chain[i] : i \in DOMAIN chain} = {p} \cup {task[u].chain[i] : i \in DOMAIN task[u].chain}
    BY <2>1
  <2> QED
    BY <2>1, <2>2, <2>3 DEF Chained
<1>n. d \in 0..MaxStarted /\ task[u].d5 \in Nat
  <2>1. task[u].d5 < MaxStarted /\ task[u].d5 \in 0..MaxStarted
    BY <1>i, <1>p, UnitFacts DEF UnitInv, TaskInv
  <2> QED
    BY <2>1, Names
<1>10. Started(task[u]) = d
  BY <1>n, <1>p DEF Started, One
<1> HIDE DEF p, chain, d
<1>3. /\ t \in TaskType /\ t.pc = "wait" /\ t.pck = Null /\ t.chain = chain /\ t.d5 = d
  BY <1>i, <1>2, <1>n DEF TaskType
<1>4. task' = [task EXCEPT ![u] = t]
  BY <1>i, <1>1 DEF UnitTypes
<1> HIDE DEF t
<1>5. /\ task' \in [Unit -> TaskType] /\ task'[u] = t /\ \A w \in Unit : w # u => task'[w] = task[w]
  BY <1>i, <1>3, <1>4, TaskUpdate
<1>6. UnitTypes' /\ PacketTypes' /\ extant' \in [Unit -> Int]
  BY <1>i, <1>1, <1>5 DEF UnitTypes, PacketTypes, OtherTypes
<1>8. Taken(u)' = Taken(u)
  <2>1. Chained(t) = {chain[i] : i \in DOMAIN chain}
    BY <1>3 DEF Chained
  <2>2. TakenOf(t) = Chained(t) /\ TakenOf(task[u]) = Chained(task[u]) \cup {p}
    BY <1>3, <1>p DEF TakenOf, p
  <2> QED
    BY <1>2, <1>5, <2>1, <2>2 DEF Taken
<1>9. Started(task'[u]) = Started(task[u])
  BY <1>3, <1>5, <1>n, <1>10 DEF Started, One
<1>11. TaskInv(u)'
  BY <1>3, <1>5 DEF TaskInv
<1>12. PlaceInv(u)'
  <2> SUFFICES ASSUME NEW q \in Packet
               PROVE  Occurrences(q, port[u]) + Occurrences(q, chain) + One(Null = q)
                        = One(q \in waiting /\ u = Volume[q])
    BY <1>1, <1>3, <1>5 DEF PlaceInv
  <2>1. Occurrences(q, port[u]) + Occurrences(q, task[u].chain) + One(p = q)
          = One(q \in waiting /\ u = Volume[q])
    BY <1>i DEF UnitInv, PlaceInv, p
  <2>2. Occurrences(q, chain) = One(p = q) + Occurrences(q, task[u].chain)
    BY <1>2
  <2>3. Occurrences(q, port[u]) \in Nat /\ Occurrences(q, task[u].chain) \in Nat /\ One(p = q) \in Nat
    BY <1>i, <1>p, UnitFacts, PlacesFinite DEF One
  <2>4. One(Null = q) = 0
    BY Names DEF One
  <2> QED
    BY <2>1, <2>2, <2>3, <2>4
<1>13. status' = status /\ waiting' = waiting
  BY <1>1
<1>16. task[u].pc \in {"fromDOS", "enqueue"} /\ task'[u].pc \in {"wait", "fromDOS", "enqueue"}
  BY <1>3, <1>5, <1>p
<1> QED
  BY <1>1, <1>5, <1>6, <1>8, <1>9, <1>11, <1>12, <1>13, <1>16, PacketTask

(* What Append does, position by position.                                  *)
LEMMA AppendFacts ==
  ASSUME NEW S, NEW q \in Seq(S), NEW x \in S
  PROVE  /\ Append(q, x) \in Seq(S) /\ Len(Append(q, x)) = Len(q) + 1 /\ Len(q) \in Nat
         /\ Append(q, x)[Len(q) + 1] = x
         /\ \A i \in 1..Len(q) : Append(q, x)[i] = q[i]
         /\ \A i \in 1..Len(q) + 1 : i \in 1..Len(q) \/ i = Len(q) + 1
OBVIOUS

(* A command handed to the thread: it is in the pipe once, and not done.    *)
LEMMA StartKeeps ==
  ASSUME FsInv, NEW u \in Unit, TaskAt(u, "fromDOS"), StartCommand(u)
  PROVE  FsInv'
<1> DEFINE p == task[u].pck
           n == LockCheck(task[u].locks) - 2
           q == Append(unit_pipe[u], p)
           t == [task[u] EXCEPT !.pc = "enqueue", !.locks = n]
<1>i. UnitTypes /\ UnitInv(u) /\ task[u] \in TaskType /\ OtherTypes /\ PacketTypes
  BY UnitFacts DEF FsInv
<1>p. p \in Packet /\ task[u].pc = "fromDOS" /\ task[u].chain \in Seq(Packet)
      /\ task[u].d5 \in Nat /\ task[u].d5 < MaxStarted /\ task[u].locks \in Nat
  <2>1. p \in Packet /\ task[u].pc = "fromDOS" /\ task[u].d5 < MaxStarted
    BY <1>i, UnitFacts DEF TaskAt, UnitInv, TaskInv, StartCommand
  <2> QED
    BY <1>i, <2>1, UnitFacts
<1>1. /\ status' = [status EXCEPT ![p] = "0"]
      /\ extant' = [extant EXCEPT ![u] = @ + LockCheck(task[u].locks) - task[u].locks]
      /\ task' = [task EXCEPT ![u].pc = "enqueue", ![u].locks = n]
      /\ unit_pipe' = [unit_pipe EXCEPT ![u] = q]
      /\ UNCHANGED <<waiting, result, port, unit, back_pipe, thread, held, irqVars, emu>>
  BY DEF StartCommand, resetVars
<1>2. n \in Nat /\ LockCheck(task[u].locks) \in Nat
  <2>1. LockCheck(task[u].locks) \in 3..6
    BY <1>p, LockCheckFacts
  <2> QED
    BY <2>1
<1>w. p \in waiting /\ Volume[p] = u /\ p \notin Chained(task[u])
  BY <1>i, <1>p, WhereItIs DEF UnitInv
<1>q. /\ unit_pipe[u] \in Seq(Packet \cup {Null, Garbage}) /\ q \in Seq(Packet \cup {Null, Garbage})
      /\ Len(q) = Len(unit_pipe[u]) + 1 /\ Len(unit_pipe[u]) \in Nat
      /\ q[Len(unit_pipe[u]) + 1] = p /\ \A i \in 1..Len(unit_pipe[u]) : q[i] = unit_pipe[u][i]
      /\ \A i \in 1..Len(unit_pipe[u]) + 1 : i \in 1..Len(unit_pipe[u]) \/ i = Len(unit_pipe[u]) + 1
  <2>1. unit_pipe[u] \in Seq(Packet \cup {Null, Garbage}) /\ p \in Packet \cup {Null, Garbage}
    BY <1>i, <1>p, UnitFacts
  <2> HIDE DEF p
  <2> QED
    BY <2>1, AppendFacts
<1>10. Started(task[u]) = task[u].d5
  BY <1>p DEF Started, One
<1>t. TakenOf(task[u]) = Chained(task[u])
  BY <1>p DEF TakenOf
<1>a. Len(unit_pipe[u]) + One(Works(thread[u])) + Cardinality(Done(u)) <= task[u].d5 + One(DeathSent(u))
  BY <1>i, <1>10 DEF UnitInv, CountInv
<1>3. /\ t \in TaskType /\ t.pc = "enqueue" /\ t.pck = p /\ t.chain = task[u].chain
      /\ t.d5 = task[u].d5
  <2> HIDE DEF n
  <2> QED
    BY <1>i, <1>2 DEF TaskType
<1>4. task' = [task EXCEPT ![u] = t]
  BY <1>i, <1>1 DEF UnitTypes
<1>6. extant' \in [Unit -> Int]
  <2> DEFINE k == LockCheck(task[u].locks)
  <2>1. extant[u] + k - task[u].locks \in Int
    BY <1>i, <1>p, <1>2 DEF OtherTypes
  <2> HIDE DEF k
  <2>2. extant' = [extant EXCEPT ![u] = extant[u] + k - task[u].locks]
    BY <1>1 DEF k
  <2> QED
    BY <1>i, <2>1, <2>2 DEF OtherTypes
<1> HIDE DEF t, q, n, p
<1>5. /\ task' \in [Unit -> TaskType] /\ task'[u] = t /\ \A w \in Unit : w # u => task'[w] = task[w]
  BY <1>i, <1>3, <1>4, TaskUpdate
<1>7. /\ PacketTypes' /\ status'[p] = "0" /\ \A r \in Packet : r # p => status'[r] = status[r]
  BY <1>i, <1>p, <1>1 DEF PacketTypes
<1>8. /\ unit_pipe' \in [Unit -> Seq(Packet \cup {Null, Garbage})] /\ unit_pipe'[u] = q
      /\ \A w \in Unit : w # u => unit_pipe'[w] = unit_pipe[w]
  BY <1>i, <1>1, <1>q DEF UnitTypes
<1>9. UnitTypes'
  BY <1>i, <1>1, <1>5, <1>8 DEF UnitTypes
<1>11. Taken(u) = Chained(task[u]) /\ Taken(u)' = Taken(u) \cup {p}
  <2>1. TakenOf(t) = Chained(task[u]) \cup {p}
    BY <1>3 DEF TakenOf, Chained
  <2> QED
    BY <1>5, <1>t, <2>1 DEF Taken
<1>12. \A r \in Taken(u) : r \in Packet /\ r # p /\ status'[r] = status[r]
  BY <1>7, <1>11, <1>p, <1>w DEF Chained
<1>13. Done(u)' = Done(u)
  BY <1>7, <1>11, <1>12 DEF Done
<1>d. \A w \in Unit : DeathSent(w)' <=> DeathSent(w)
  BY <1>1 DEF DeathSent, CpuRuns
<1>14. PipeInv(u)'
  <2>1. ASSUME NEW i \in 1..Len(unit_pipe[u])
        PROVE  /\ q[i] # p
               /\ IF q[i] \in Packet THEN q[i] \in Taken(u) /\ status'[q[i]] # "done" ELSE DeathSent(u)
    BY <1>i, <1>p, <1>q, <1>12 DEF UnitInv, PipeInv
  <2>2. ASSUME NEW i \in 1..Len(q)
        PROVE  IF q[i] \in Packet THEN q[i] \in Taken(u)' /\ status'[q[i]] # "done" ELSE DeathSent(u)
    BY <1>p, <1>q, <1>7, <1>11, <2>1
  <2>3. ASSUME NEW i \in 1..Len(q), NEW j \in 1..Len(q), q[i] \in Packet, q[i] = q[j]
        PROVE  i = j
    <3>1. CASE i = Len(unit_pipe[u]) + 1 \/ j = Len(unit_pipe[u]) + 1
      BY <1>q, <2>1, <2>3, <3>1
    <3>2. CASE i \in 1..Len(unit_pipe[u]) /\ j \in 1..Len(unit_pipe[u])
      BY <1>i, <1>q, <2>3, <3>2 DEF UnitInv, PipeInv
    <3> QED
      BY <1>q, <3>1, <3>2
  <2> QED
    BY <1>8, <1>d, <2>2, <2>3 DEF PipeInv
<1>15. HandInv(u)'
  <2> SUFFICES ASSUME Works(thread[u])
               PROVE  /\ thread[u].pck \in Taken(u)' /\ status'[thread[u].pck] # "done"
                      /\ \A i \in 1..Len(q) : q[i] # thread[u].pck
    BY <1>1, <1>8 DEF HandInv
  <2>1. /\ thread[u].pck \in Taken(u) /\ status[thread[u].pck] # "done"
        /\ \A i \in 1..Len(unit_pipe[u]) : unit_pipe[u][i] # thread[u].pck
    BY <1>i DEF UnitInv, HandInv
  <2>2. \A i \in 1..Len(q) : q[i] # thread[u].pck
    BY <1>q, <1>12, <2>1
  <2> QED
    BY <1>11, <1>12, <2>1, <2>2
<1>16. ResultInv(u)'
  BY <1>i, <1>1, <1>13 DEF UnitInv, ResultInv
<1>17. CountInv(u)'
  <2>1. /\ thread' = thread /\ back_pipe' = back_pipe /\ One(DeathSent(u))' = One(DeathSent(u))
        /\ Cardinality(Done(u))' = Cardinality(Done(u)) /\ IsFiniteSet(Done(u))'
    BY <1>i, <1>1, <1>d, <1>13 DEF One, UnitInv, CountInv
  <2>2. Started(task'[u]) = task[u].d5 + 1 /\ task'[u].pc = "enqueue"
    BY <1>3, <1>5 DEF Started, One
  <2>3. Cardinality(Done(u)) \in Nat /\ One(Works(thread[u])) + Cardinality(Done(u)) <= task[u].d5
    BY <1>i, <1>10, FS_CardinalityType DEF UnitInv, CountInv
  <2>4. One(Works(thread[u])) \in Nat /\ One(DeathSent(u)) \in Nat
    BY DEF One
  <2>5. Len(q) + One(Works(thread[u])) + Cardinality(Done(u)) <= task[u].d5 + 1 + One(DeathSent(u))
    <3> DEFINE l == Len(unit_pipe[u])
               w == One(Works(thread[u]))
               c == Cardinality(Done(u))
               d == task[u].d5
               e == One(DeathSent(u))
    <3>1. /\ l \in Nat /\ w \in Nat /\ c \in Nat /\ d \in Nat /\ e \in Nat /\ Len(q) = l + 1
          /\ l + w + c <= d + e
      BY <1>a, <1>p, <1>q, <2>3, <2>4
    <3> HIDE DEF l, w, c, d, e
    <3>2. Len(q) + w + c <= d + 1 + e
      BY <3>1
    <3> QED
      BY <3>2 DEF w, c, d, e
  <2>6. One(Works(thread[u])) + Cardinality(Done(u)) <= task[u].d5 + 1
    BY <1>p, <2>3, <2>4
  <2>7. Len(back_pipe[u]) + One(ToGiveBack(thread[u])) + 0 <= 1 + MaxStarted + Cardinality(Done(u))
    BY <1>i, <1>p DEF UnitInv, CountInv
  <2> QED
    BY <1>8, <2>1, <2>2, <2>5, <2>6, <2>7 DEF CountInv
<1>18. TaskInv(u)'
  BY <1>i, <1>1, <1>p, <1>3, <1>5, Names DEF TaskInv
<1>19. PlaceInv(u)'
  BY <1>i, <1>1, <1>3, <1>5 DEF UnitInv, PlaceInv, p
<1>20. DummyInv(u)'
  BY <1>i, <1>1, <1>p, <1>3, <1>5 DEF UnitInv, DummyInv, One
<1>21. ASSUME NEW w \in Unit, w # u PROVE SameUnit(w)
  BY <1>1, <1>d, <1>5, <1>7, <1>8, <1>w, <1>21 DEF SameUnit
<1>22. OtherTypes' /\ LocksInv' /\ IrqInv'
  BY <1>1, <1>6 DEF FsInv, OtherTypes, LocksInv, IrqInv, irqVars
<1>23. UnitInv(u)'
  BY <1>14, <1>15, <1>16, <1>17, <1>18, <1>19, <1>20 DEF UnitInv
<1> QED
  BY <1>7, <1>9, <1>21, <1>22, <1>23, OneUnit

(* A step of the handler.                                                   *)
LEMMA TaskKeeps ==
  ASSUME FsInv, NEW u \in Unit, Task(u)
  PROVE  FsInv'
<1>1. CASE FSML_FromDOS(u)
  BY <1>1, QueueKeeps, RejectKeeps, StartKeeps DEF FSML_FromDOS
<1> QED
  BY <1>1, QuietTasksKeep, GetMsgKeeps, ScanKeeps, EnqueueKeeps DEF Task

-----------------------------------------------------------------------------
(* The thread.                                                               *)
LEMMA ThreadUpdate ==
  ASSUME UnitTypes, NEW u \in Unit, NEW t \in ThreadType, thread' = [thread EXCEPT ![u] = t]
  PROVE  /\ thread' \in [Unit -> ThreadType] /\ thread'[u] = t
         /\ \A w \in Unit : w # u => thread'[w] = thread[w]
BY DEF UnitTypes

(* A step of the thread that touches no packet.                              *)
LEMMA QuietThread ==
  ASSUME FsInv, NEW u \in Unit, UnitTypes', OtherTypes', LocksInv',
         \A w \in Unit : w # u => /\ thread'[w] = thread[w] /\ unit'[w] = unit[w]
                                  /\ back_pipe'[w] = back_pipe[w],
         UNCHANGED <<waiting, result, status, port, task, unit_pipe, amigaUp, irq,
                     singlethread_int_sem, emu>>,
         thread[u].pc \notin {"read", "dead", "mark"}, thread'[u].pc # "mark",
         Works(thread'[u]) <=> Works(thread[u]),
         Works(thread[u]) => thread'[u].pck = thread[u].pck,
         unit'[u].acked = unit[u].acked, unit'[u].complete = unit[u].complete,
         Len(back_pipe'[u]) + One(ToGiveBack(thread'[u]))
           <= Len(back_pipe[u]) + One(ToGiveBack(thread[u]))
  PROVE  FsInv'
<1>i. UnitTypes /\ UnitInv(u)
  BY DEF FsInv
<1>d. \A w \in Unit : DeathSent(w)' <=> DeathSent(w)
  BY DEF DeathSent, CpuRuns
<1>1. /\ waiting' = waiting /\ result' = result /\ status' = status /\ port' = port
      /\ unit_pipe' = unit_pipe /\ task' = task
  OBVIOUS
<1>2. Taken(u)' = Taken(u)
  BY <1>1 DEF Taken
<1>3. PipeInv(u)' /\ HandInv(u)' /\ ResultInv(u)' /\ Done(u)' = Done(u)
  BY <1>i, <1>d, <1>1, <1>2, PipesKept
<1>4. CountInv(u)'
  BY <1>i, <1>d, <1>1, <1>3, CountKept
<1>5. PlaceInv(u)' /\ DummyInv(u)'
  BY <1>i, <1>1 DEF UnitInv, PlaceInv, DummyInv
<1>6. TaskInv(u)'
  BY <1>i, <1>1 DEF UnitInv, TaskInv
<1>7. ASSUME NEW w \in Unit, w # u PROVE SameUnit(w)
  BY <1>1, <1>d, <1>7 DEF SameUnit
<1>8. PacketTypes' /\ IrqInv'
  BY <1>1 DEF FsInv, PacketTypes, IrqInv
<1>9. UnitInv(u)'
  BY <1>3, <1>4, <1>5, <1>6 DEF UnitInv
<1> QED
  BY <1>7, <1>8, <1>9, OneUnit

(* The thread's steps that touch no packet keep the invariant.              *)
LEMMA QuietThreadsKeep ==
  ASSUME FsInv, NEW u \in Unit,
         \/ ThreadNotifies(u) \/ ThreadCounts(u) \/ ThreadRequests(u) \/ ThreadGivesBack(u)
         \/ ThreadClears(u)
  PROVE  FsInv'
<1>i. /\ UnitTypes /\ UnitInv(u) /\ OtherTypes /\ LocksInv
      /\ thread \in [Unit -> ThreadType] /\ thread[u] \in ThreadType
      /\ thread[u].locks \in 0..3 /\ thread[u].sends \in 0..NotifyMax
      /\ Len(back_pipe[u]) \in Nat /\ back_pipe[u] \in Seq(1..3)
  <2>1. UnitTypes /\ UnitInv(u) /\ OtherTypes /\ LocksInv
    BY DEF FsInv
  <2>2. thread \in [Unit -> ThreadType] /\ thread[u] \in ThreadType
    BY <2>1 DEF UnitTypes
  <2> QED
    BY <2>1, <2>2, UnitFacts DEF ThreadType
<1>1. CASE ThreadNotifies(u)
  <2> DEFINE n == thread[u].sends - 1
             t == [thread[u] EXCEPT !.sends = n]
  <2>1. /\ thread[u].pc = "handle" /\ thread[u].sends > 0 /\ native < NativeRecords
        /\ native' = native + 1 /\ uae_int_requested' = 1
        /\ thread' = [thread EXCEPT ![u] = t]
        /\ UNCHANGED <<waiting, result, status, port, task, extant, unit, unit_pipe, back_pipe, held,
                       amigaUp, irq, unit_no, singlethread_int_sem, emu>>
    BY <1>1 DEF ThreadNotifies, ThreadAt, packetVars, amigaVars, resetVars
  <2>2. n \in 0..NotifyMax /\ native' \in 0..NativeRecords
    <3>1. NotifyMax \in Nat /\ NativeRecords \in Nat
      BY FilesysAssumption DEF FilesysAssumption
    <3>2. native \in 0..NativeRecords
      BY <1>i DEF OtherTypes
    <3> QED
      BY <1>i, <2>1, <3>1, <3>2
  <2> HIDE DEF n
  <2>3. t \in ThreadType /\ t.pc = "handle" /\ t.pck = thread[u].pck /\ t.locks = thread[u].locks
    BY <1>i, <2>1, <2>2 DEF ThreadType
  <2> HIDE DEF t
  <2>4. /\ thread' \in [Unit -> ThreadType] /\ thread'[u] = t
        /\ \A w \in Unit : w # u => thread'[w] = thread[w]
    BY <1>i, <2>1, <2>3, ThreadUpdate
  <2>5. UnitTypes' /\ OtherTypes'
    BY SMTT(30), <1>i, <2>1, <2>2, <2>4 DEF UnitTypes, OtherTypes
  <2>6. LocksInv'
    BY <1>i, <2>1, <2>3, <2>4 DEF LocksInv
  <2>7. /\ Works(thread'[u]) <=> Works(thread[u])
        /\ ~ToGiveBack(thread'[u]) /\ ~ToGiveBack(thread[u])
    BY <2>1, <2>3, <2>4 DEF Works, ToGiveBack
  <2>8. Len(back_pipe'[u]) + One(ToGiveBack(thread'[u])) <= Len(back_pipe[u]) + One(ToGiveBack(thread[u]))
    BY <1>i, <2>1, <2>7 DEF One
  <2> QED
    BY <2>1, <2>3, <2>4, <2>5, <2>6, <2>7, <2>8, QuietThread
<1>2. CASE ThreadCounts(u)
  <2> DEFINE n == Count(unit[u].sent)
             d == [unit[u] EXCEPT !.sent = n]
             t == [thread[u] EXCEPT !.pc = "request"]
  <2>1. /\ thread[u].pc = "count" /\ thread' = [thread EXCEPT ![u] = t]
        /\ unit' = [unit EXCEPT ![u] = d]
        /\ UNCHANGED <<waiting, result, status, port, task, extant, unit_pipe, back_pipe, held,
                       irqVars, emu>>
    BY <1>2 DEF ThreadCounts, ThreadAt, packetVars, amigaVars, resetVars
  <2>2. n \in 0..CmdWrap - 1
    <3>1. unit[u].sent \in 0..CmdWrap - 1 /\ CmdWrap \in Nat /\ CmdWrap > 0
      BY <1>i, Names DEF UnitTypes, UnitType
    <3> QED
      BY <3>1 DEF Count
  <2> HIDE DEF n
  <2>3. t \in ThreadType /\ t.pc = "request" /\ t.pck = thread[u].pck /\ t.locks = thread[u].locks
    BY <1>i, <2>1, <2>2 DEF ThreadType
  <2>9. d \in UnitType /\ d.acked = unit[u].acked /\ d.complete = unit[u].complete
    <3>1. unit[u] \in UnitType
      BY <1>i DEF UnitTypes
    <3> QED
      BY <2>2, <3>1 DEF UnitType
  <2> HIDE DEF t, d
  <2>4. /\ thread' \in [Unit -> ThreadType] /\ thread'[u] = t
        /\ \A w \in Unit : w # u => thread'[w] = thread[w]
    BY <1>i, <2>1, <2>3, ThreadUpdate
  <2>10. /\ unit' \in [Unit -> UnitType] /\ unit'[u] = d /\ \A w \in Unit : w # u => unit'[w] = unit[w]
    BY <1>i, <2>1, <2>9 DEF UnitTypes
  <2>5. UnitTypes' /\ OtherTypes'
    BY <1>i, <2>1, <2>4, <2>10 DEF UnitTypes, OtherTypes, irqVars
  <2>6. LocksInv'
    BY <1>i, <2>1, <2>3, <2>4 DEF LocksInv
  <2>7. /\ ~Works(thread'[u]) /\ ~Works(thread[u])
        /\ ToGiveBack(thread'[u]) /\ ToGiveBack(thread[u])
    BY <2>1, <2>3, <2>4 DEF Works, ToGiveBack
  <2>8. Len(back_pipe'[u]) + One(ToGiveBack(thread'[u])) <= Len(back_pipe[u]) + One(ToGiveBack(thread[u]))
    BY <1>i, <2>1, <2>7 DEF One
  <2>11. /\ UNCHANGED <<waiting, result, status, port, task, unit_pipe, amigaUp, irq,
                        singlethread_int_sem, emu>>
         /\ \A w \in Unit : w # u => back_pipe'[w] = back_pipe[w]
    BY <2>1 DEF irqVars
  <2>12. unit'[u].acked = unit[u].acked /\ unit'[u].complete = unit[u].complete
         /\ thread'[u].pc # "mark" /\ thread[u].pc \notin {"read", "dead", "mark"}
    BY <2>1, <2>3, <2>4, <2>9, <2>10
  <2> QED
    BY <2>4, <2>5, <2>6, <2>7, <2>8, <2>10, <2>11, <2>12, QuietThread
<1>3. CASE ThreadRequests(u) \/ ThreadClears(u)
  <2>1. PICK pc \in {"giveBack", "read"}, n \in 0..3 :
        /\ thread' = [thread EXCEPT ![u] = [thread[u] EXCEPT !.pc = pc, !.locks = n]]
        /\ pc = "giveBack" => thread[u].pc = "request" /\ n = thread[u].locks
        /\ pc = "read" => thread[u].pc = "clear" /\ n = 0
        /\ uae_int_requested' \in {1, uae_int_requested}
        /\ UNCHANGED <<waiting, result, status, port, task, extant, unit, unit_pipe, back_pipe, held,
                       amigaUp, irq, unit_no, singlethread_int_sem, native, emu>>
    <3>1. CASE ThreadRequests(u)
      <4>1. [thread[u] EXCEPT !.pc = "giveBack", !.locks = thread[u].locks]
              = [thread[u] EXCEPT !.pc = "giveBack"]
        BY <1>i DEF ThreadType
      <4>2. /\ thread' = [thread EXCEPT ![u] = [thread[u] EXCEPT !.pc = "giveBack"]]
            /\ thread[u].pc = "request" /\ uae_int_requested' = 1
            /\ UNCHANGED <<waiting, result, status, port, task, extant, unit, unit_pipe, back_pipe,
                           held, amigaUp, irq, unit_no, singlethread_int_sem, native, emu>>
        BY <1>i, <3>1 DEF ThreadRequests, ThreadAt, packetVars, amigaVars, resetVars
      <4> QED
        BY <1>i, <4>1, <4>2
    <3>2. CASE ThreadClears(u)
      <4>1. /\ thread' = [thread EXCEPT ![u] = [thread[u] EXCEPT !.pc = "read", !.locks = 0]]
            /\ thread[u].pc = "clear"
            /\ UNCHANGED <<waiting, result, status, port, task, extant, unit, unit_pipe, back_pipe,
                           held, amigaUp, uae_int_requested, irq, unit_no, singlethread_int_sem,
                           native, emu>>
        BY <1>i, <3>2 DEF ThreadClears, ThreadAt, packetVars, amigaVars, irqVars, resetVars
      <4> QED
        BY <4>1
    <3> QED
      BY <1>3, <3>1, <3>2
  <2> DEFINE t == [thread[u] EXCEPT !.pc = pc, !.locks = n]
  <2>3. t \in ThreadType /\ t.pc = pc /\ t.pck = thread[u].pck /\ t.locks = n
    <3>1. pc \in {"read", "handle", "mark", "count", "request", "giveBack", "clear", "dead"}
      OBVIOUS
    <3> QED
      BY <1>i, <3>1 DEF ThreadType
  <2> HIDE DEF t
  <2>4. /\ thread' \in [Unit -> ThreadType] /\ thread'[u] = t
        /\ \A w \in Unit : w # u => thread'[w] = thread[w]
    <3>1. thread' = [thread EXCEPT ![u] = t]
      BY <2>1 DEF t
    <3> QED
      BY <1>i, <2>3, <3>1, ThreadUpdate
  <2>5. UnitTypes' /\ OtherTypes'
    BY SMTT(30), <1>i, <2>1, <2>4 DEF UnitTypes, OtherTypes
  <2>6. LocksInv'
    BY <1>i, <2>1, <2>3, <2>4 DEF LocksInv
  <2>7. /\ ~Works(thread'[u]) /\ ~Works(thread[u])
        /\ ToGiveBack(thread'[u]) => ToGiveBack(thread[u])
    BY <2>1, <2>3, <2>4 DEF Works, ToGiveBack
  <2>8. Len(back_pipe'[u]) + One(ToGiveBack(thread'[u])) <= Len(back_pipe[u]) + One(ToGiveBack(thread[u]))
    BY <1>i, <2>1, <2>7 DEF One
  <2>9. thread[u].pc \notin {"read", "dead", "mark"} /\ thread'[u].pc # "mark"
    BY <2>1, <2>3, <2>4
  <2> QED
    BY <2>1, <2>4, <2>5, <2>6, <2>7, <2>8, <2>9, QuietThread
<1>4. CASE ThreadGivesBack(u)
  <2> DEFINE q == IF thread[u].locks = 0 THEN back_pipe[u] ELSE Append(back_pipe[u], thread[u].locks)
             t == [thread[u] EXCEPT !.pc = "clear"]
  <2>1. /\ thread[u].pc = "giveBack" /\ thread' = [thread EXCEPT ![u] = t]
        /\ back_pipe' = [back_pipe EXCEPT ![u] = q]
        /\ UNCHANGED <<waiting, result, status, port, task, extant, unit, unit_pipe, held,
                       irqVars, emu>>
    BY <1>4 DEF ThreadGivesBack, ThreadAt, packetVars, amigaVars, resetVars
  <2>2. q \in Seq(1..3) /\ Len(q) <= Len(back_pipe[u]) + 1 /\ Len(q) \in Nat
    <3>1. CASE thread[u].locks = 0
      BY <1>i, <3>1
    <3>2. CASE thread[u].locks # 0
      <4>1. thread[u].locks \in 1..3 /\ q = Append(back_pipe[u], thread[u].locks)
        BY <1>i, <3>2
      <4>2. /\ Append(back_pipe[u], thread[u].locks) \in Seq(1..3)
            /\ Len(Append(back_pipe[u], thread[u].locks)) = Len(back_pipe[u]) + 1
        BY <1>i, <4>1
      <4> QED
        BY <1>i, <4>1, <4>2
    <3> QED
      BY <3>1, <3>2
  <2> HIDE DEF q
  <2>3. t \in ThreadType /\ t.pc = "clear" /\ t.pck = thread[u].pck /\ t.locks = thread[u].locks
    BY <1>i, <2>1 DEF ThreadType
  <2> HIDE DEF t
  <2>4. /\ thread' \in [Unit -> ThreadType] /\ thread'[u] = t
        /\ \A w \in Unit : w # u => thread'[w] = thread[w]
    BY <1>i, <2>1, <2>3, ThreadUpdate
  <2>10. /\ back_pipe' \in [Unit -> Seq(1..3)] /\ back_pipe'[u] = q
         /\ \A w \in Unit : w # u => back_pipe'[w] = back_pipe[w]
    BY <1>i, <2>1, <2>2 DEF UnitTypes
  <2>5. UnitTypes' /\ OtherTypes'
    BY <1>i, <2>1, <2>4, <2>10 DEF UnitTypes, OtherTypes, irqVars
  <2>6. LocksInv'
    BY <1>i, <2>1, <2>3, <2>4 DEF LocksInv
  <2>7. /\ ~Works(thread'[u]) /\ ~Works(thread[u])
        /\ ~ToGiveBack(thread'[u]) /\ ToGiveBack(thread[u])
    BY <2>1, <2>3, <2>4 DEF Works, ToGiveBack
  <2>8. Len(back_pipe'[u]) + One(ToGiveBack(thread'[u])) <= Len(back_pipe[u]) + One(ToGiveBack(thread[u]))
    <3>1. One(ToGiveBack(thread'[u])) = 0 /\ One(ToGiveBack(thread[u])) = 1
      BY <2>7 DEF One
    <3> QED
      BY <1>i, <2>2, <2>10, <3>1
  <2>11. /\ UNCHANGED <<waiting, result, status, port, task, unit_pipe, amigaUp, irq,
                        singlethread_int_sem, emu>>
         /\ unit' = unit
    BY <2>1 DEF irqVars
  <2>12. thread'[u].pc # "mark" /\ thread[u].pc \notin {"read", "dead", "mark"}
    BY <2>1, <2>3, <2>4
  <2> QED
    BY <2>4, <2>5, <2>6, <2>7, <2>8, <2>10, <2>11, <2>12, QuietThread
<1> QED
  BY <1>1, <1>2, <1>3, <1>4

(* What Tail does, position by position.                                    *)
LEMMA TailFacts ==
  ASSUME NEW S, NEW q \in Seq(S), q # <<>>
  PROVE  /\ Tail(q) \in Seq(S) /\ Len(Tail(q)) = Len(q) - 1 /\ Len(q) \in Nat \ {0}
         /\ Head(q) = q[1] /\ Head(q) \in S /\ 1 \in 1..Len(q)
         /\ \A i \in 1..Len(Tail(q)) : Tail(q)[i] = q[i + 1] /\ i + 1 \in 1..Len(q) /\ i + 1 # 1
OBVIOUS

(* Taking the first record out of the pipe to the thread.                    *)
LEMMA PipeTail ==
  ASSUME UnitTypes, NEW u \in Unit, PipeInv(u), unit_pipe[u] # <<>>,
         unit_pipe' = [unit_pipe EXCEPT ![u] = Tail(unit_pipe[u])],
         Taken(u)' = Taken(u), status' = status, DeathSent(u)' <=> DeathSent(u)
  PROVE  /\ PipeInv(u)' /\ unit_pipe' \in [Unit -> Seq(Packet \cup {Null, Garbage})]
         /\ Len(unit_pipe'[u]) = Len(unit_pipe[u]) - 1 /\ Len(unit_pipe[u]) \in Nat
         /\ Head(unit_pipe[u]) \in Packet =>
              /\ Head(unit_pipe[u]) \in Taken(u) /\ status[Head(unit_pipe[u])] # "done"
              /\ \A i \in 1..Len(unit_pipe'[u]) : unit_pipe'[u][i] # Head(unit_pipe[u])
         /\ Head(unit_pipe[u]) \notin Packet => DeathSent(u)
         /\ \A w \in Unit : w # u => unit_pipe'[w] = unit_pipe[w]
<1> DEFINE q == unit_pipe[u]
           r == Tail(q)
<1>1. /\ r \in Seq(Packet \cup {Null, Garbage}) /\ Len(r) = Len(q) - 1 /\ Len(q) \in Nat \ {0}
      /\ Head(q) = q[1] /\ 1 \in 1..Len(q)
      /\ \A i \in 1..Len(r) : r[i] = q[i + 1] /\ i + 1 \in 1..Len(q) /\ i + 1 # 1
  <2>1. q \in Seq(Packet \cup {Null, Garbage}) /\ q # <<>>
    BY UnitFacts
  <2> HIDE DEF q
  <2> QED
    BY <2>1, TailFacts
<1>2. /\ \A i \in 1..Len(q) : IF q[i] \in Packet THEN q[i] \in Taken(u) /\ status[q[i]] # "done"
                              ELSE DeathSent(u)
      /\ \A i, j \in 1..Len(q) : q[i] \in Packet /\ q[i] = q[j] => i = j
  BY DEF PipeInv
<1>3. /\ unit_pipe'[u] = r /\ \A w \in Unit : w # u => unit_pipe'[w] = unit_pipe[w]
      /\ unit_pipe' \in [Unit -> Seq(Packet \cup {Null, Garbage})]
  BY <1>1 DEF UnitTypes
<1> HIDE DEF q, r
<1>4. /\ \A i \in 1..Len(r) : IF r[i] \in Packet THEN r[i] \in Taken(u) /\ status[r[i]] # "done"
                              ELSE DeathSent(u)
      /\ \A i \in 1..Len(r) : q[1] \in Packet => r[i] # q[1]
  BY <1>1, <1>2
<1>5. ASSUME NEW i \in 1..Len(r), NEW j \in 1..Len(r), r[i] \in Packet, r[i] = r[j] PROVE i = j
  <2>1. i + 1 = j + 1
    BY <1>1, <1>2, <1>5
  <2> QED
    BY <1>1, <2>1
<1>6. PipeInv(u)'
  BY <1>3, <1>4, <1>5 DEF PipeInv
<1> QED
  BY <1>1, <1>2, <1>3, <1>4, <1>6 DEF q

(* The thread takes a word from its pipe: a packet, or its end.             *)
LEMMA ReadsKeep ==
  ASSUME FsInv, EndInv, NEW u \in Unit, ThreadReads(u) \/ ThreadDiscards(u) \/ ThreadDies(u)
  PROVE  FsInv'
<1>i. UnitTypes /\ UnitInv(u) /\ OtherTypes /\ LocksInv /\ PacketTypes /\ IrqInv
      /\ thread[u] \in ThreadType /\ CountInv(u) /\ PipeInv(u)
  BY UnitFacts DEF FsInv, UnitInv
<1>1. /\ thread[u].pc = "read" /\ unit_pipe[u] # <<>>
      /\ unit_pipe' = [unit_pipe EXCEPT ![u] = Tail(unit_pipe[u])]
      /\ UNCHANGED <<waiting, result, status, port, task, extant, unit, back_pipe, held,
                     irqVars, emu>>
      /\ \/ /\ ~down[u].go
            /\ \E n \in 0..NotifyMax :
                 thread' = [thread EXCEPT ![u].pc = "handle", ![u].pck = Head(unit_pipe[u]),
                                          ![u].locks = @ + 2, ![u].sends = n]
         \/ thread' = thread
         \/ thread' = [thread EXCEPT ![u] = [thread[u] EXCEPT !.pc = "dead"]]
  <2>1. CASE ThreadReads(u)
    BY <2>1 DEF ThreadReads, ThreadAt, packetVars, amigaVars, resetVars
  <2>2. CASE ThreadDiscards(u)
    BY <2>2 DEF ThreadDiscards, ThreadAt, packetVars, amigaVars, resetVars
  <2>3. CASE ThreadDies(u)
    BY <2>3 DEF ThreadDies, ThreadAt, packetVars, amigaVars
  <2> QED
    BY <2>1, <2>2, <2>3
<1>d. \A w \in Unit : DeathSent(w)' <=> DeathSent(w)
  BY <1>1 DEF DeathSent, CpuRuns
<1>2. Taken(u)' = Taken(u) /\ Done(u)' = Done(u)
  BY <1>1 DEF Taken, Done
<1>3. /\ PipeInv(u)' /\ unit_pipe' \in [Unit -> Seq(Packet \cup {Null, Garbage})]
      /\ Len(unit_pipe'[u]) = Len(unit_pipe[u]) - 1 /\ Len(unit_pipe[u]) \in Nat
      /\ Head(unit_pipe[u]) \in Packet =>
           /\ Head(unit_pipe[u]) \in Taken(u) /\ status[Head(unit_pipe[u])] # "done"
           /\ \A i \in 1..Len(unit_pipe'[u]) : unit_pipe'[u][i] # Head(unit_pipe[u])
      /\ Head(unit_pipe[u]) \notin Packet => DeathSent(u)
      /\ \A w \in Unit : w # u => unit_pipe'[w] = unit_pipe[w]
  BY <1>i, <1>1, <1>2, <1>d, PipeTail
<1>4. thread[u].locks = 0
  <2>1. thread[u].pc \in {"read", "dead"} /\ LocksInv
    BY <1>i, <1>1
  <2> QED
    BY ONLY <2>1, u \in Unit DEF LocksInv
<1>5. PICK t \in ThreadType :
        /\ thread' = [thread EXCEPT ![u] = t] /\ t.locks \in {0, 2}
        /\ \/ /\ t.pc = "handle" /\ t.pck = Head(unit_pipe[u]) /\ ~DeathSent(u)
              /\ Head(unit_pipe[u]) \in Packet /\ t.locks = 2
           \/ t.pc \in {"read", "dead"} /\ t.locks = 0
  <2>1. CASE /\ ~down[u].go
             /\ \E n \in 0..NotifyMax :
                  thread' = [thread EXCEPT ![u].pc = "handle", ![u].pck = Head(unit_pipe[u]),
                                           ![u].locks = @ + 2, ![u].sends = n]
    <3>1. ~DeathSent(u)
      BY <2>1 DEF EndInv, DeathSent, ToldToGo
    <3>2. Head(unit_pipe[u]) \in Packet
      BY <1>3, <3>1
    <3>3. PICK n \in 0..NotifyMax :
            thread' = [thread EXCEPT ![u].pc = "handle", ![u].pck = Head(unit_pipe[u]),
                                     ![u].locks = @ + 2, ![u].sends = n]
      BY <2>1
    <3> DEFINE h == Head(unit_pipe[u])
               l == thread[u].locks + 2
               t == [thread[u] EXCEPT !.pc = "handle", !.pck = h, !.locks = l, !.sends = n]
    <3>4. l \in 0..3 /\ l = 2 /\ h \in Packet \cup {Null}
      BY <1>4, <3>2
    <3>5. thread' = [thread EXCEPT ![u] = t]
      BY <1>i, <3>3 DEF UnitTypes
    <3> HIDE DEF h, l
    <3>6. t \in ThreadType /\ t.pc = "handle" /\ t.pck = h /\ t.locks = l
      BY <1>i, <3>4 DEF ThreadType
    <3> HIDE DEF t
    <3> QED
      BY <3>1, <3>2, <3>4, <3>5, <3>6 DEF h
  <2>2. CASE thread' = thread
    <3>1. thread' = [thread EXCEPT ![u] = thread[u]]
      BY <1>i, <2>2 DEF UnitTypes
    <3> QED
      BY <1>i, <1>1, <1>4, <3>1
  <2>3. CASE thread' = [thread EXCEPT ![u] = [thread[u] EXCEPT !.pc = "dead"]]
    <3> DEFINE t == [thread[u] EXCEPT !.pc = "dead"]
    <3>1. t \in ThreadType /\ t.pc = "dead" /\ t.locks = thread[u].locks
      BY <1>i DEF ThreadType
    <3>2. thread' = [thread EXCEPT ![u] = t]
      BY <2>3
    <3> HIDE DEF t
    <3> QED
      BY <1>4, <3>1, <3>2
  <2> QED
    BY <1>1, <2>1, <2>2, <2>3
<1>6. /\ thread' \in [Unit -> ThreadType] /\ thread'[u] = t
      /\ \A w \in Unit : w # u => thread'[w] = thread[w]
  BY <1>i, <1>5, ThreadUpdate
<1>7. UnitTypes' /\ OtherTypes' /\ PacketTypes' /\ IrqInv'
  BY <1>i, <1>1, <1>3, <1>6 DEF UnitTypes, OtherTypes, PacketTypes, IrqInv, irqVars
<1>8. LocksInv'
  BY <1>i, <1>5, <1>6 DEF LocksInv
<1>9. HandInv(u)'
  <2>1. CASE t.pc = "handle"
    BY <1>1, <1>2, <1>3, <1>5, <1>6, <2>1 DEF HandInv
  <2>2. CASE t.pc \in {"read", "dead"}
    BY <1>6, <2>2 DEF HandInv, Works
  <2> QED
    BY <1>5, <2>1, <2>2
<1>10. ResultInv(u)'
  BY <1>i, <1>1, <1>2, <1>5, <1>6 DEF UnitInv, ResultInv
<1>11. CountInv(u)'
  <2>1. /\ task' = task /\ back_pipe' = back_pipe /\ One(DeathSent(u))' = One(DeathSent(u))
        /\ Cardinality(Done(u))' = Cardinality(Done(u)) /\ IsFiniteSet(Done(u))'
    BY <1>i, <1>1, <1>d, <1>2 DEF One, CountInv
  <2>2. One(Works(thread[u])) = 0 /\ One(Works(thread'[u])) \in {0, 1}
        /\ One(ToGiveBack(thread[u])) = 0 /\ One(ToGiveBack(thread'[u])) = 0
    BY <1>1, <1>5, <1>6 DEF One, Works, ToGiveBack
  <2> DEFINE l == Len(unit_pipe[u])
             k == Len(unit_pipe'[u])
             w == One(Works(thread'[u]))
             c == Cardinality(Done(u))
             d == Started(task[u])
             e == One(DeathSent(u))
  <2>3. l \in Nat /\ k \in Nat /\ k = l - 1 /\ w \in {0, 1} /\ c \in Nat /\ d \in Nat /\ e \in Nat /\ l + c <= d + e
        /\ c <= d /\ (w = 1 => e = 0)
    <3>1. l \in Nat /\ k \in Nat /\ k = l - 1 /\ w \in {0, 1} /\ c \in Nat /\ e \in Nat
      BY <1>i, <1>3, <2>2, FS_CardinalityType DEF CountInv, One
    <3>2. d \in Nat
      BY <1>i, UnitFacts, Names DEF Started, One
    <3>3. l + 0 + c <= d + e /\ 0 + c <= d
      BY <1>i, <2>2 DEF CountInv
    <3>4. w = 1 => e = 0
      BY <1>5, <1>6 DEF One, Works
    <3> QED
      BY <3>1, <3>2, <3>3, <3>4
  <2> HIDE DEF l, k, w, c, d, e
  <2>4. k + w + c <= d + e /\ w + c <= d
    BY <2>3
  <2> QED
    BY <1>i, <2>1, <2>2, <2>4 DEF CountInv, k, w, c, d, e
<1>12. PlaceInv(u)' /\ DummyInv(u)'
  BY <1>i, <1>1 DEF UnitInv, PlaceInv, DummyInv
<1>13. TaskInv(u)'
  <2>1. CASE t.pc = "handle"
    <3>1. task[u].pc # "boot"
      <4>1. Head(unit_pipe[u]) \in Taken(u)
        BY <1>3, <1>5, <2>1
      <4>2. task[u] = Booting => Taken(u) = {}
        BY DEF Booting, Taken, TakenOf, Chained
      <4> QED
        BY <1>i, <4>1, <4>2 DEF UnitInv, TaskInv
    <3> QED
      BY <1>i, <1>1, <3>1 DEF UnitInv, TaskInv
  <2>2. CASE t.pc \in {"read", "dead"}
    BY <1>i, <1>1, <1>6, <2>2 DEF UnitInv, TaskInv
  <2> QED
    BY <1>5, <2>1, <2>2
<1>14. ASSUME NEW w \in Unit, w # u PROVE SameUnit(w)
  BY <1>1, <1>d, <1>3, <1>6, <1>14 DEF SameUnit
<1>15. UnitInv(u)'
  BY <1>3, <1>9, <1>10, <1>11, <1>12, <1>13 DEF UnitInv
<1> QED
  BY <1>7, <1>8, <1>14, <1>15, OneUnit

(* handle_packet fills in the results of a packet that is not done.         *)
LEMMA HandlesKeep ==
  ASSUME FsInv, NEW u \in Unit, ThreadHandles(u)
  PROVE  FsInv'
<1>i. UnitTypes /\ UnitInv(u) /\ OtherTypes /\ LocksInv /\ PacketTypes /\ IrqInv
      /\ thread[u] \in ThreadType
  BY UnitFacts DEF FsInv
<1>1. PICK made \in 0..2, freed \in 0..1 :
        /\ freed = 1 => made = 0 /\ held[u] > 0
        /\ held[u] + made <= MaxHeld
        /\ held' = [held EXCEPT ![u] = @ + made - freed]
        /\ thread' = [thread EXCEPT ![u].pc = "mark", ![u].locks = @ + freed - made]
  BY DEF ThreadHandles
<1>2. /\ thread[u].pc = "handle" /\ result' = result \cup {thread[u].pck}
      /\ UNCHANGED <<waiting, status, port, task, extant, unit, unit_pipe, back_pipe, irqVars, emu>>
  BY DEF ThreadHandles, ThreadAt, amigaVars, resetVars
<1>3. thread[u].locks = 2
  <2>1. thread[u].pc = "handle" /\ LocksInv
    BY <1>i, <1>2
  <2> QED
    BY ONLY <2>1, u \in Unit DEF LocksInv
<1>4. thread[u].pck \in Taken(u) /\ thread[u].pck \in Packet /\ Volume[thread[u].pck] = u
  <2>1. thread[u].pck \in Taken(u)
    BY <1>i, <1>2 DEF UnitInv, HandInv, Works
  <2> QED
    BY <1>i, <2>1, TakenFacts DEF UnitInv
<1> DEFINE l == thread[u].locks + freed - made
           h == held[u] + made - freed
           t == [thread[u] EXCEPT !.pc = "mark", !.locks = l]
<1>5. l \in 0..3
  BY <1>3
<1>6. h \in 0..MaxHeld
  <2>1. held[u] \in 0..MaxHeld /\ MaxHeld \in Nat
    BY <1>i, FilesysAssumption DEF OtherTypes, FilesysAssumption
  <2> QED
    BY <1>1, <2>1
<1>7. thread' = [thread EXCEPT ![u] = t] /\ held' = [held EXCEPT ![u] = h]
  BY <1>i, <1>1 DEF UnitTypes
<1> HIDE DEF l, h
<1>8. t \in ThreadType /\ t.pc = "mark" /\ t.pck = thread[u].pck
  BY <1>i, <1>5 DEF ThreadType
<1> HIDE DEF t
<1>9. /\ thread' \in [Unit -> ThreadType] /\ thread'[u] = t
      /\ \A w \in Unit : w # u => thread'[w] = thread[w]
  BY <1>i, <1>7, <1>8, ThreadUpdate
<1>10. held' \in [Unit -> 0..MaxHeld]
  BY <1>i, <1>6, <1>7 DEF OtherTypes
<1>11. UnitTypes' /\ OtherTypes' /\ PacketTypes' /\ IrqInv'
  BY <1>i, <1>2, <1>4, <1>9, <1>10 DEF UnitTypes, OtherTypes, PacketTypes, IrqInv, irqVars
<1>12. LocksInv'
  BY <1>i, <1>8, <1>9 DEF LocksInv
<1>d. \A w \in Unit : DeathSent(w)' <=> DeathSent(w)
  BY <1>2 DEF DeathSent, CpuRuns
<1>13. Taken(u)' = Taken(u) /\ Done(u)' = Done(u)
  BY <1>2 DEF Taken, Done
<1>14. PipeInv(u)'
  BY <1>i, <1>2, <1>13, <1>d DEF UnitInv, PipeInv
<1>15. HandInv(u)'
  BY <1>i, <1>2, <1>8, <1>9, <1>13 DEF UnitInv, HandInv, Works
<1>16. ResultInv(u)'
  BY <1>i, <1>2, <1>8, <1>9, <1>13 DEF UnitInv, ResultInv
<1>17. CountInv(u)'
  <2>1. /\ Works(thread'[u]) /\ Works(thread[u])
        /\ ~ToGiveBack(thread'[u]) /\ ~ToGiveBack(thread[u])
    BY <1>2, <1>8, <1>9 DEF Works, ToGiveBack
  <2>2. Len(back_pipe'[u]) + One(ToGiveBack(thread'[u])) <= Len(back_pipe[u]) + One(ToGiveBack(thread[u]))
    BY <1>i, <1>2, <2>1, UnitFacts DEF One
  <2>3. task' = task /\ unit_pipe' = unit_pipe
    BY <1>2
  <2> QED
    BY <1>i, <1>11, <1>13, <1>d, <2>1, <2>2, <2>3, CountKept
<1>18. TaskInv(u)' /\ PlaceInv(u)' /\ DummyInv(u)'
  BY <1>i, <1>2 DEF UnitInv, TaskInv, PlaceInv, DummyInv
<1>19. ASSUME NEW w \in Unit, w # u PROVE SameUnit(w)
  BY <1>2, <1>d, <1>9, <1>19 DEF SameUnit
<1>20. UnitInv(u)'
  BY <1>14, <1>15, <1>16, <1>17, <1>18 DEF UnitInv
<1> QED
  BY <1>11, <1>12, <1>19, <1>20, OneUnit

(* The packet is done: from here on the handler may reply it.               *)
LEMMA MarksKeep ==
  ASSUME FsInv, NEW u \in Unit, ThreadMarks(u)
  PROVE  FsInv'
<1> DEFINE p == thread[u].pck
           t == [thread[u] EXCEPT !.pc = "count", !.pck = Null]
<1>i. UnitTypes /\ UnitInv(u) /\ OtherTypes /\ LocksInv /\ PacketTypes /\ IrqInv
      /\ thread[u] \in ThreadType /\ CountInv(u)
  BY UnitFacts DEF FsInv, UnitInv
<1>1. /\ thread[u].pc = "mark" /\ status' = [status EXCEPT ![p] = "done"]
      /\ thread' = [thread EXCEPT ![u] = t]
      /\ UNCHANGED <<waiting, result, port, task, extant, unit, unit_pipe, back_pipe, held,
                     irqVars, emu>>
  <2>1. /\ thread[u].pc = "mark" /\ status' = [status EXCEPT ![p] = "done"]
        /\ thread' = [thread EXCEPT ![u].pc = "count", ![u].pck = Null]
        /\ UNCHANGED <<waiting, result, port, task, extant, unit, unit_pipe, back_pipe, held,
                       irqVars, emu>>
    BY DEF ThreadMarks, ThreadAt, amigaVars, resetVars
  <2>2. thread' = [thread EXCEPT ![u] = t]
    BY <1>i, <2>1 DEF UnitTypes
  <2> QED
    BY <2>1, <2>2
<1>4. p \in Taken(u) /\ p \in Packet /\ Volume[p] = u /\ status[p] # "done" /\ p \in result
      /\ \A i \in 1..Len(unit_pipe[u]) : unit_pipe[u][i] # p
  <2>1. p \in Taken(u) /\ status[p] # "done" /\ p \in result
        /\ \A i \in 1..Len(unit_pipe[u]) : unit_pipe[u][i] # p
    BY <1>i, <1>1 DEF UnitInv, HandInv, ResultInv, Works
  <2> QED
    BY <1>i, <2>1, TakenFacts DEF UnitInv
<1> HIDE DEF p
<1>8. t \in ThreadType /\ t.pc = "count" /\ t.locks = thread[u].locks
  BY <1>i DEF ThreadType
<1> HIDE DEF t
<1>9. /\ thread' \in [Unit -> ThreadType] /\ thread'[u] = t
      /\ \A w \in Unit : w # u => thread'[w] = thread[w]
  BY <1>i, <1>1, <1>8, ThreadUpdate
<1>10. /\ PacketTypes' /\ status'[p] = "done" /\ \A q \in Packet : q # p => status'[q] = status[q]
  BY <1>i, <1>1, <1>4 DEF PacketTypes
<1>11. UnitTypes' /\ OtherTypes' /\ IrqInv'
  BY <1>i, <1>1, <1>9 DEF UnitTypes, OtherTypes, IrqInv, irqVars
<1>12. LocksInv'
  BY <1>i, <1>8, <1>9 DEF LocksInv
<1>d. \A w \in Unit : DeathSent(w)' <=> DeathSent(w)
  BY <1>1 DEF DeathSent, CpuRuns
<1>13. Taken(u)' = Taken(u) /\ \A q \in Taken(u) : q \in Packet
  <2>1. \A q \in Taken(u) : q \in Packet
    BY <1>i, TakenFacts DEF UnitInv
  <2> QED
    BY <1>1, <2>1 DEF Taken
<1>14. Done(u)' = Done(u) \cup {p} /\ p \notin Done(u)
  BY <1>4, <1>10, <1>13 DEF Done
<1>15. PipeInv(u)'
  BY <1>i, <1>1, <1>4, <1>10, <1>13, <1>d DEF UnitInv, PipeInv
<1>16. HandInv(u)' /\ ~Works(thread'[u]) /\ ToGiveBack(thread'[u])
  BY <1>8, <1>9 DEF HandInv, Works, ToGiveBack
<1>17. ResultInv(u)'
  <2>1. Done(u) \subseteq result /\ result' = result
    BY <1>i, <1>1 DEF UnitInv, ResultInv
  <2>2. thread'[u].pc # "mark"
    BY <1>8, <1>9
  <2> QED
    BY <1>4, <1>14, <2>1, <2>2 DEF ResultInv
<1>18. CountInv(u)'
  <2>1. /\ task' = task /\ back_pipe' = back_pipe /\ unit_pipe' = unit_pipe
        /\ One(DeathSent(u))' = One(DeathSent(u))
    BY <1>1, <1>d DEF One
  <2>2. /\ IsFiniteSet(Done(u)) /\ IsFiniteSet(Done(u)') /\ Cardinality(Done(u)) \in Nat
        /\ Cardinality(Done(u)') = Cardinality(Done(u)) + 1
    BY <1>i, <1>14, FS_AddElement, FS_CardinalityType DEF CountInv
  <2>3. /\ One(Works(thread[u])) = 1 /\ One(Works(thread'[u])) = 0
        /\ One(ToGiveBack(thread[u])) = 0 /\ One(ToGiveBack(thread'[u])) = 1
    BY <1>1, <1>16 DEF One, Works, ToGiveBack
  <2> DEFINE l == Len(unit_pipe[u])
             b == Len(back_pipe[u])
             c == Cardinality(Done(u))
             d == Started(task[u])
             e == One(DeathSent(u))
             k == IF task[u].pc = "scan" THEN Started(task[u]) ELSE 0
  <2>4. l \in Nat /\ b \in Nat /\ d \in Nat /\ c \in Nat /\ e \in {0, 1} /\ k \in Nat /\ MaxStarted \in Nat
    <3>1. l \in Nat /\ b \in Nat /\ c \in Nat /\ e \in {0, 1} /\ MaxStarted \in Nat
      BY <1>i, <2>2, UnitFacts, Names DEF One
    <3>2. d \in Nat
      BY <1>i, UnitFacts, Names DEF Started, One
    <3> QED
      BY <3>1, <3>2
  <2>5. l + 1 + c <= d + e /\ 1 + c <= d /\ b + 0 + k <= 1 + MaxStarted + c
    BY <1>i, <2>3 DEF CountInv
  <2> HIDE DEF l, b, c, d, e, k
  <2>7. l + 0 + (c + 1) <= d + e /\ b + 1 + k <= 1 + MaxStarted + (c + 1)
    BY <2>4, <2>5
  <2>8. 0 + (c + 1) <= d
    BY <2>4, <2>5
  <2> QED
    BY <2>1, <2>2, <2>3, <2>7, <2>8 DEF CountInv, l, b, c, d, e, k
<1>19. TaskInv(u)' /\ PlaceInv(u)' /\ DummyInv(u)'
  <2>1. task[u].pc # "boot"
    BY <1>i, <1>1 DEF UnitInv, TaskInv
  <2> QED
    BY <1>i, <1>1, <2>1 DEF UnitInv, TaskInv, PlaceInv, DummyInv
<1>20. ASSUME NEW w \in Unit, w # u PROVE SameUnit(w)
  BY <1>1, <1>4, <1>d, <1>9, <1>10, <1>20 DEF SameUnit
<1>21. UnitInv(u)'
  BY <1>15, <1>16, <1>17, <1>18, <1>19 DEF UnitInv
<1> QED
  BY <1>10, <1>11, <1>12, <1>20, <1>21, OneUnit
(* A step of the thread.                                                     *)
LEMMA ThreadKeeps ==
  ASSUME FsInv, EndInv, NEW u \in Unit, Thread(u)
  PROVE  FsInv'
<1>1. CASE ThreadReads(u) \/ ThreadDiscards(u) \/ ThreadDies(u)
  BY <1>1, ReadsKeep
<1>2. CASE \/ ThreadNotifies(u) \/ ThreadCounts(u) \/ ThreadRequests(u) \/ ThreadGivesBack(u)
           \/ ThreadClears(u)
  BY <1>2, QuietThreadsKeep
<1> QED
  BY <1>1, <1>2, HandlesKeep, MarksKeep DEF Thread

-----------------------------------------------------------------------------
(* The clients, the interrupt and the emulator thread.                       *)
(* A client sends a packet that is nowhere: it goes to its unit's port.      *)
LEMMA SendKeeps ==
  ASSUME FsInv, NEW p \in Packet, Send(p)
  PROVE  FsInv'
<1> DEFINE u == Volume[p]
           s == Append(port[u], p)
<1>u. u \in Unit /\ p # Dummy /\ p # Null
  BY Names
<1>i. UnitTypes /\ UnitInv(u) /\ OtherTypes /\ LocksInv /\ PacketTypes /\ IrqInv
  BY <1>u DEF FsInv
<1>1. /\ unit[u].self = "live" /\ p \notin waiting
      /\ waiting' = waiting \cup {p} /\ result' = result \ {p}
      /\ port' = [port EXCEPT ![u] = s]
      /\ UNCHANGED <<status, task, extant, unit, unit_pipe, back_pipe, thread, held, irqVars, emu>>
  BY DEF Send, hostVars, resetVars
<1>2. /\ Occurrences(p, port[u]) = 0 /\ Occurrences(p, task[u].chain) = 0 /\ task[u].pck # p
      /\ p \notin Chained(task[u])
  BY <1>u, <1>i, <1>1, WhereItIs DEF UnitInv
<1>3. p \notin Taken(u)
  BY <1>2 DEF Taken, TakenOf
<1>4. port[u] \in Seq(Packet \cup {Dummy}) /\ s \in Seq(Packet \cup {Dummy})
  BY <1>u, <1>i, UnitFacts
<1> HIDE DEF s
<1>5. /\ port' \in [Unit -> Seq(Packet \cup {Dummy})] /\ port'[u] = s
      /\ \A w \in Unit : w # u => port'[w] = port[w]
  BY <1>u, <1>i, <1>1, <1>4 DEF UnitTypes
<1>6. PacketTypes' /\ UnitTypes' /\ OtherTypes' /\ LocksInv' /\ IrqInv'
  BY <1>i, <1>1, <1>5 DEF PacketTypes, UnitTypes, OtherTypes, LocksInv, IrqInv, irqVars
<1>d. \A w \in Unit : DeathSent(w)' <=> DeathSent(w)
  BY <1>1 DEF DeathSent, CpuRuns
<1>7. Taken(u)' = Taken(u)
  BY <1>1 DEF Taken
<1>8. PipeInv(u)' /\ HandInv(u)' /\ ResultInv(u)' /\ Done(u)' = Done(u)
  <2>1. unit_pipe'[u] = unit_pipe[u] /\ thread'[u] = thread[u]
    BY <1>1
  <2>2. \A q \in Taken(u) : status'[q] = status[q] /\ (q \in result => q \in result')
    BY <1>1, <1>3
  <2> QED
    BY <1>u, <1>i, <1>d, <1>7, <2>1, <2>2, PipesKept
<1>9. CountInv(u)'
  <2>1. /\ task' = task /\ unit_pipe' = unit_pipe /\ thread' = thread /\ back_pipe' = back_pipe
    BY <1>1
  <2>2. Len(back_pipe[u]) + One(ToGiveBack(thread[u])) <= Len(back_pipe[u]) + One(ToGiveBack(thread[u]))
    BY <1>u, <1>i, UnitFacts DEF One
  <2> QED
    BY <1>u, <1>i, <1>6, <1>8, <1>d, <2>1, <2>2, CountKept
<1>10. \A q \in Packet : Occurrences(q, s) = Occurrences(q, port[u]) + One(q = p)
  BY <1>4, OccursAppend DEF s, One
<1>11. PlaceInv(u)'
  <2> SUFFICES ASSUME NEW q \in Packet
               PROVE  Occurrences(q, port'[u]) + Occurrences(q, task'[u].chain) + One(task'[u].pck = q)
                        = One(q \in waiting' /\ u = Volume[q])
    BY <1>1 DEF PlaceInv
  <2>1. CASE q = p
    BY <1>1, <1>2, <1>5, <1>10, <2>1 DEF One
  <2>2. CASE q # p
    <3>1. Occurrences(q, s) = Occurrences(q, port[u])
      <4>1. Occurrences(q, port[u]) \in Nat
        BY <1>4, PlacesFinite
      <4> QED
        BY <1>10, <2>2, <4>1 DEF One
    <3>2. Occurrences(q, port[u]) + Occurrences(q, task[u].chain) + One(task[u].pck = q)
            = One(q \in waiting /\ u = Volume[q])
      BY <1>i DEF UnitInv, PlaceInv
    <3>3. One(q \in waiting' /\ u = Volume[q]) = One(q \in waiting /\ u = Volume[q])
      BY <1>1, <2>2 DEF One
    <3>4. task' = task /\ port'[u] = s
      BY <1>1, <1>5
    <3> QED
      BY ONLY <3>1, <3>2, <3>3, <3>4
  <2> QED
    BY <2>1, <2>2
<1>12. DummyInv(u)'
  <2>1. Occurrences(Dummy, s) = Occurrences(Dummy, port[u])
    <3>1. Occurrences(Dummy, port[u]) \in Nat
      BY <1>4, PlacesFinite
    <3>2. Occurrences(Dummy, s) = Occurrences(Dummy, port[u]) + One(Dummy = p)
      BY <1>4, OccursAppend DEF s, One
    <3> QED
      BY <1>u, <3>1, <3>2 DEF One
  <2>2. task' = task /\ unit' = unit /\ port'[u] = s
    BY <1>1, <1>5
  <2>3. DummyInv(u)
    BY <1>i DEF UnitInv
  <2> QED
    BY ONLY <2>1, <2>2, <2>3 DEF DummyInv
<1>13. TaskInv(u)'
  <2>1. task[u].pc # "boot"
    BY <1>i, <1>1 DEF UnitInv, TaskInv, NoUnit
  <2> QED
    BY <1>i, <1>1, <2>1 DEF UnitInv, TaskInv
<1>14. ASSUME NEW w \in Unit, w # u PROVE SameUnit(w)
  <2>1. \A q \in Packet : Volume[q] = w => /\ q \in waiting' <=> q \in waiting
                                           /\ status'[q] = status[q]
                                           /\ q \in result => q \in result'
    BY <1>1, <1>14
  <2> QED
    BY <1>1, <1>5, <1>d, <1>14, <2>1 DEF SameUnit
<1>15. UnitInv(u)'
  BY <1>8, <1>9, <1>11, <1>12, <1>13 DEF UnitInv
<1> HIDE DEF u
<1> QED
  BY <1>u, <1>6, <1>14, <1>15, OneUnit
(* The steps of the interrupt, of the 68k's start and of the emulator thread *)
(* that change nothing of a unit or of a packet.                             *)
LEMMA NothingMoves ==
  ASSUME FsInv, UNCHANGED <<waiting, result, status, port, task, unit, unit_pipe, back_pipe, thread>>,
         \A w \in Unit : DeathSent(w)' <=> DeathSent(w), OtherTypes', IrqInv'
  PROVE  FsInv'
<1>1. ASSUME NEW w \in Unit PROVE SameUnit(w)
  BY DEF SameUnit
<1>2. \A w \in Unit : UnitInv(w)'
  BY <1>1, SameInv
<1>3. PacketTypes' /\ UnitTypes' /\ LocksInv'
  BY DEF FsInv, PacketTypes, UnitTypes, LocksInv
<1> QED
  BY <1>2, <1>3 DEF FsInv

(* filesys_diagentry, and the interrupt but for the messages it puts.        *)
LEMMA InterruptsKeep ==
  ASSUME FsInv, \/ filesys_diagentry \/ InterruptBegins \/ InterruptDrains \/ InterruptSkips
                \/ InterruptEnds
  PROVE  FsInv'
<1>i. OtherTypes /\ IrqInv
  BY DEF FsInv
<1>1. /\ UNCHANGED <<waiting, result, status, port, task, unit, unit_pipe, back_pipe, thread>>
      /\ UNCHANGED <<emu, held, extant>>
  BY DEF filesys_diagentry, InterruptBegins, InterruptDrains, InterruptSkips, InterruptEnds,
         packetVars, amigaVars, hostVars, resetVars
<1>2. \A w \in Unit : DeathSent(w)' <=> DeathSent(w)
  BY <1>1 DEF DeathSent, CpuRuns
<1>3. amigaUp' \in BOOLEAN /\ uae_int_requested' \in 0..1 /\ irq' \in {"off", "work"}
  <2>1. CASE filesys_diagentry
    BY <1>i, <2>1 DEF OtherTypes, filesys_diagentry
  <2>2. CASE InterruptBegins
    BY <1>i, <2>2 DEF OtherTypes, InterruptBegins
  <2>3. CASE InterruptDrains \/ InterruptSkips \/ InterruptEnds
    BY <1>i, <2>3 DEF OtherTypes, InterruptDrains, InterruptSkips, InterruptEnds
  <2> QED
    BY <2>1, <2>2, <2>3
<1>4. unit_no' \in 1..Units + 1
  <2>1. Units \in Nat \ {0}
    BY Names
  <2>2. CASE InterruptSkips
    <3>1. unit_no' = unit_no + 1 /\ unit_no \in 1..Units
      BY <2>2 DEF InterruptSkips, Unit
    <3> QED
      BY <2>1, <3>1
  <2>3. CASE InterruptBegins
    <3>1. unit_no' = 1
      BY <2>3 DEF InterruptBegins
    <3> QED
      BY <2>1, <3>1
  <2>4. CASE filesys_diagentry \/ InterruptDrains \/ InterruptEnds
    BY <1>i, <2>4 DEF OtherTypes, filesys_diagentry, InterruptDrains, InterruptEnds
  <2> QED
    BY <2>2, <2>3, <2>4
<1>5. native' \in 0..NativeRecords
  <2>1. NativeRecords \in Nat /\ native \in 0..NativeRecords
    BY <1>i, Names DEF OtherTypes
  <2>2. native' = native \/ (native > 0 /\ native' = native - 1)
    BY DEF filesys_diagentry, InterruptBegins, InterruptDrains, InterruptSkips, InterruptEnds
  <2> QED
    BY <2>1, <2>2
<1>6. singlethread_int_sem' \in 0..1 /\ IrqInv'
  <2>1. CASE InterruptEnds
    <3>1. irq = "work" /\ irq' = "off" /\ singlethread_int_sem' = singlethread_int_sem + 1
      BY <2>1 DEF InterruptEnds
    <3>2. singlethread_int_sem = 0
      BY <1>i, <3>1 DEF IrqInv
    <3> QED
      BY <3>1, <3>2 DEF IrqInv
  <2>2. CASE filesys_diagentry \/ InterruptBegins
    BY <1>i, <2>2 DEF IrqInv, filesys_diagentry, InterruptBegins
  <2>3. CASE InterruptDrains \/ InterruptSkips
    BY <1>i, <2>3 DEF IrqInv, OtherTypes, InterruptDrains, InterruptSkips
  <2> QED
    BY <2>1, <2>2, <2>3
<1>7. OtherTypes'
  BY <1>i, <1>1, <1>3, <1>4, <1>5, <1>6 DEF OtherTypes
<1> QED
  BY <1>1, <1>2, <1>6, <1>7, NothingMoves

(* The interrupt puts a unit's dummy message, which was not out, on its port.*)
LEMMA PutsKeep ==
  ASSUME FsInv, InterruptPuts, NEW u \in Unit, u = unit_no
  PROVE  FsInv'
<1> DEFINE s == Append(port[u], Dummy)
           n == [unit[u] EXCEPT !.acked = unit[u].sent]
<1>1. /\ unit[u].self # "none" /\ unit[u].acked = unit[u].complete
      /\ unit[u].acked # unit[u].sent
      /\ unit' = [unit EXCEPT ![u].acked = unit[u].sent]
      /\ port' = [port EXCEPT ![u] = s] /\ unit_no' = u + 1
      /\ UNCHANGED <<waiting, result, status, task, extant, unit_pipe, back_pipe, thread, held>>
      /\ UNCHANGED <<amigaUp, uae_int_requested, irq, singlethread_int_sem, native, emu>>
  BY DEF InterruptPuts, NeedsMessage, packetVars, resetVars
<1>i. UnitTypes /\ UnitInv(u) /\ OtherTypes /\ LocksInv /\ PacketTypes /\ IrqInv
      /\ unit[u] \in UnitType
  BY <1>1, UnitFacts DEF FsInv
<1>2. Units \in Nat \ {0} /\ unit_no' \in 1..Units + 1
  <2>1. Units \in Nat \ {0} /\ u \in 1..Units
    BY <1>1, Names DEF Unit
  <2> QED
    BY <1>1, <2>1
<1>3. n \in UnitType /\ n.acked # n.complete
  BY <1>1, <1>i DEF UnitType
<1>4. port[u] \in Seq(Packet \cup {Dummy}) /\ s \in Seq(Packet \cup {Dummy})
  BY <1>1, <1>i, UnitFacts
<1>5. unit' = [unit EXCEPT ![u] = n]
  BY <1>1, <1>i DEF UnitTypes
<1> HIDE DEF s, n
<1>6. /\ port' \in [Unit -> Seq(Packet \cup {Dummy})] /\ port'[u] = s
      /\ \A w \in Unit : w # u => port'[w] = port[w]
  BY <1>1, <1>i, <1>4 DEF UnitTypes
<1>7. /\ unit' \in [Unit -> UnitType] /\ unit'[u] = n
      /\ \A w \in Unit : w # u => unit'[w] = unit[w]
  BY <1>1, <1>i, <1>3, <1>5 DEF UnitTypes
<1>8. PacketTypes' /\ UnitTypes' /\ OtherTypes' /\ LocksInv' /\ IrqInv'
  <2>1. PacketTypes' /\ UnitTypes'
    BY <1>1, <1>i, <1>6, <1>7 DEF PacketTypes, UnitTypes
  <2>2. LocksInv' /\ IrqInv'
    BY <1>1, <1>i DEF LocksInv, IrqInv
  <2>3. OtherTypes'
    BY <1>1, <1>2, <1>i DEF OtherTypes
  <2> QED
    BY <2>1, <2>2, <2>3
<1>d. \A w \in Unit : DeathSent(w)' <=> DeathSent(w)
  BY <1>1 DEF DeathSent, CpuRuns
<1>9. PipeInv(u)' /\ HandInv(u)' /\ ResultInv(u)' /\ CountInv(u)'
  <2>1. task' = task /\ status' = status /\ unit_pipe' = unit_pipe /\ back_pipe' = back_pipe
        /\ thread' = thread /\ result' = result
    BY <1>1
  <2>2. Taken(u)' = Taken(u) /\ Done(u)' = Done(u) /\ One(DeathSent(u))' = One(DeathSent(u))
    BY <1>1, <1>d, <2>1 DEF Taken, Done, One
  <2>3. PipeInv(u)' /\ HandInv(u)' /\ ResultInv(u)'
    BY <1>1, <1>i, <1>d, <2>1, <2>2 DEF UnitInv, PipeInv, HandInv, ResultInv
  <2>4. CountInv(u)
    BY <1>i DEF UnitInv
  <2>5. CountInv(u)'
    BY ONLY <2>1, <2>2, <2>4 DEF CountInv
  <2> QED
    BY <2>3, <2>5
<1>10. \A q \in Packet : Occurrences(q, s) = Occurrences(q, port[u])
  <2> SUFFICES ASSUME NEW q \in Packet PROVE Occurrences(q, s) = Occurrences(q, port[u])
    OBVIOUS
  <2>1. Occurrences(q, port[u]) \in Nat /\ q # Dummy
    BY <1>4, PlacesFinite, Names
  <2>2. Occurrences(q, s) = Occurrences(q, port[u]) + One(Dummy = q)
    BY <1>4, OccursAppend DEF s
  <2> QED
    BY <2>1, <2>2 DEF One
<1>11. PlaceInv(u)'
  BY <1>1, <1>i, <1>6, <1>10 DEF UnitInv, PlaceInv
<1>12. DummyInv(u)'
  <2>1. Occurrences(Dummy, s) = Occurrences(Dummy, port[u]) + 1 /\ Occurrences(Dummy, port[u]) \in Nat
    <3>1. Occurrences(Dummy, s) = Occurrences(Dummy, port[u]) + One(Dummy = Dummy)
      BY <1>4, OccursAppend DEF s
    <3> QED
      BY <1>4, <3>1, PlacesFinite DEF One
  <2>2. Occurrences(Dummy, port[u]) + One(task[u].pc = "release") = 0
    BY <1>1, <1>i DEF UnitInv, DummyInv, One
  <2>3. Occurrences(Dummy, s) + One(task[u].pc = "release") = 1
    <3>1. One(task[u].pc = "release") \in {0, 1}
      BY DEF One
    <3> QED
      BY <2>1, <2>2, <3>1
  <2>4. task' = task /\ port'[u] = s /\ unit'[u] = n
    BY <1>1, <1>6, <1>7
  <2> QED
    BY <1>3, <2>3, <2>4 DEF DummyInv, One
<1>13. TaskInv(u)'
  <2>1. task[u].pc # "boot"
    BY <1>1, <1>i DEF UnitInv, TaskInv, NoUnit
  <2> QED
    BY <1>1, <1>i, <2>1 DEF UnitInv, TaskInv
<1>14. ASSUME NEW w \in Unit, w # u PROVE SameUnit(w)
  BY <1>1, <1>6, <1>7, <1>d, <1>14 DEF SameUnit
<1>15. UnitInv(u)'
  BY <1>9, <1>11, <1>12, <1>13 DEF UnitInv
<1> QED
  BY <1>1, <1>8, <1>14, <1>15, OneUnit
(* The steps of a reset that send nothing: what was sent to go stays so.     *)
LEMMA ResetsKeep ==
  ASSUME FsInv, EndInv, ResetBegins \/ ResetFlags \/ ResetNextUnit
  PROVE  FsInv'
<1>i. OtherTypes /\ IrqInv
  BY DEF FsInv
<1>n. Units \in Nat \ {0} /\ \A w \in Unit : w \in Nat /\ ~(w < 1)
  BY Names DEF Unit
<1>1. UNCHANGED <<waiting, result, status, port, task, unit, unit_pipe, back_pipe, thread, held,
                  extant, irqVars>>
  BY DEF ResetBegins, ResetFlags, ResetNextUnit, packetVars, amigaVars, hostVars
<1>2. \A w \in Unit : DeathSent(w)' <=> DeathSent(w)
  <2>1. CASE ResetBegins
    <3>1. emu' = <<"flag", 1>> /\ CpuRuns
      BY <2>1 DEF ResetBegins
    <3> QED
      BY <1>n, <3>1 DEF DeathSent, CpuRuns
  <2>2. CASE ResetFlags
    <3>1. emu[1] = "flag" /\ emu' = <<"death", emu[2]>>
      BY <2>2 DEF ResetFlags
    <3> QED
      BY <3>1 DEF DeathSent, CpuRuns
  <2>3. CASE ResetNextUnit
    <3> DEFINE e == emu[2]
    <3>1. emu[1] = "sync" /\ emu' = <<"flag", e + 1>> /\ ~CpuRuns
      BY <2>3 DEF ResetNextUnit, CpuRuns
    <3>2. e \in Nat
      BY <1>n, <3>1 DEF EndInv
    <3>3. ~CpuRuns' /\ emu'[1] = "flag" /\ emu'[2] = e + 1
      BY <3>1 DEF CpuRuns
    <3>4. \A w \in Unit : w < e + 1 <=> w < e \/ w = e
      BY <1>n, <3>2
    <3> QED
      BY <3>1, <3>3, <3>4 DEF DeathSent
  <2> QED
    BY <2>1, <2>2, <2>3
<1>3. OtherTypes' /\ IrqInv'
  BY <1>1, <1>i DEF OtherTypes, IrqInv, irqVars
<1> QED
  BY <1>1, <1>2, <1>3, NothingMoves

(* The death message: one word more in the pipe, and none but of packets.    *)
LEMMA DeathKeeps ==
  ASSUME FsInv, EndInv, ResetSendsDeath, NEW u \in Unit, u = emu[2]
  PROVE  FsInv'
<1>1. PICK x \in {Null, Garbage} : unit_pipe' = [unit_pipe EXCEPT ![u] = Append(unit_pipe[u], x)]
  BY DEF ResetSendsDeath
<1>2. /\ emu[1] = "death" /\ emu' = <<"sync", u>> /\ ~CpuRuns /\ ~CpuRuns'
      /\ UNCHANGED <<waiting, result, status, port, task, extant, unit, back_pipe, thread, held, irqVars>>
  BY DEF ResetSendsDeath, CpuRuns, packetVars, amigaVars
<1>i. UnitTypes /\ UnitInv(u) /\ OtherTypes /\ LocksInv /\ PacketTypes /\ IrqInv
      /\ CountInv(u) /\ PipeInv(u)
  BY DEF FsInv, UnitInv
<1> DEFINE q == Append(unit_pipe[u], x)
           P == Packet \cup {Null, Garbage}
<1>3. /\ q \in Seq(P) /\ Len(q) = Len(unit_pipe[u]) + 1 /\ Len(unit_pipe[u]) \in Nat
      /\ q[Len(unit_pipe[u]) + 1] = x /\ x \notin Packet
      /\ \A i \in 1..Len(unit_pipe[u]) : q[i] = unit_pipe[u][i]
      /\ \A i \in 1..Len(unit_pipe[u]) + 1 : i \in 1..Len(unit_pipe[u]) \/ i = Len(unit_pipe[u]) + 1
  <2>1. unit_pipe[u] \in Seq(P) /\ x \in P
    BY <1>i, UnitFacts
  <2>2. x \notin Packet
    BY Names
  <2> HIDE DEF P
  <2> QED
    BY <2>1, <2>2, AppendFacts
<1> HIDE DEF q
<1>4. /\ unit_pipe' \in [Unit -> Seq(P)] /\ unit_pipe'[u] = q
      /\ \A w \in Unit : w # u => unit_pipe'[w] = unit_pipe[w]
  BY <1>1, <1>3, <1>i DEF UnitTypes, q
<1>5. /\ DeathSent(u)' /\ ~DeathSent(u)
      /\ \A w \in Unit : w # u => (DeathSent(w)' <=> DeathSent(w))
  <2>1. emu'[1] = "sync" /\ emu'[2] = u
    BY <1>2
  <2>2. ~(u < u)
    BY DEF Unit
  <2> QED
    BY <1>2, <2>1, <2>2 DEF DeathSent
<1>6. UnitTypes' /\ PacketTypes' /\ OtherTypes' /\ LocksInv' /\ IrqInv'
  BY <1>2, <1>4, <1>i DEF UnitTypes, PacketTypes, OtherTypes, LocksInv, IrqInv, irqVars
<1>7. Taken(u)' = Taken(u) /\ Done(u)' = Done(u)
  BY <1>2 DEF Taken, Done
<1>8. PipeInv(u)'
  <2>1. \A i \in 1..Len(q) :
          IF q[i] \in Packet THEN q[i] \in Taken(u)' /\ status'[q[i]] # "done" ELSE DeathSent(u)'
    BY SMTT(30), <1>i, <1>2, <1>3, <1>5, <1>7 DEF PipeInv
  <2>2. \A i, j \in 1..Len(q) : q[i] \in Packet /\ q[i] = q[j] => i = j
    BY <1>i, <1>3 DEF PipeInv
  <2> QED
    BY <1>4, <2>1, <2>2 DEF PipeInv
<1>9. HandInv(u)'
  <2> SUFFICES ASSUME Works(thread[u]) PROVE HandInv(u)'
    BY <1>2 DEF HandInv
  <2> DEFINE p == thread[u].pck
  <2>1. p \in Taken(u) /\ status[p] # "done" /\ \A i \in 1..Len(unit_pipe[u]) : unit_pipe[u][i] # p
    BY <1>i DEF UnitInv, HandInv
  <2>2. p # x
    BY <1>i, <1>3, <2>1, TakenFacts DEF UnitInv
  <2>3. \A i \in 1..Len(q) : q[i] # p
    BY <1>3, <2>1, <2>2
  <2> QED
    BY <1>2, <1>4, <1>7, <2>1, <2>3 DEF HandInv
<1>10. ResultInv(u)'
  BY <1>i, <1>2, <1>7 DEF UnitInv, ResultInv
<1>11. CountInv(u)'
  <2>1. /\ task' = task /\ back_pipe' = back_pipe /\ thread' = thread
        /\ Cardinality(Done(u))' = Cardinality(Done(u)) /\ IsFiniteSet(Done(u))'
    BY <1>i, <1>2, <1>7 DEF CountInv
  <2>2. One(DeathSent(u)) = 0 /\ One(DeathSent(u)') = 1
    BY <1>5 DEF One
  <2> DEFINE l == Len(unit_pipe[u])
             w == One(Works(thread[u]))
             c == Cardinality(Done(u))
             d == Started(task[u])
  <2>3. l \in Nat /\ w \in Nat /\ c \in Nat /\ l + w + c <= d + 0
    BY <1>i, <1>3, <2>2, FS_CardinalityType DEF CountInv, One
  <2>4. d \in Nat
    BY <1>i, UnitFacts, Names DEF Started, One
  <2>6. unit_pipe'[u] = q /\ Len(q) = l + 1
    BY <1>3, <1>4
  <2> HIDE DEF l, w, c, d
  <2>5. l + 1 + w + c <= d + 1
    BY <2>3, <2>4
  <2>7. Len(unit_pipe'[u]) + w + c <= d + One(DeathSent(u)')
    BY <2>2, <2>5, <2>6
  <2> QED
    BY <1>i, <2>1, <2>7 DEF CountInv, w, c, d
<1>12. PlaceInv(u)' /\ DummyInv(u)' /\ TaskInv(u)'
  BY <1>i, <1>2 DEF UnitInv, PlaceInv, DummyInv, TaskInv
<1>13. ASSUME NEW w \in Unit, w # u PROVE SameUnit(w)
  BY <1>2, <1>4, <1>5, <1>13 DEF SameUnit
<1>14. UnitInv(u)'
  BY <1>8, <1>9, <1>10, <1>11, <1>12 DEF UnitInv
<1> QED
  BY <1>6, <1>13, <1>14, OneUnit

(* What a machine has when it starts: nothing.                               *)
StartsAfresh ==
  /\ port = ForAll(<<>>) /\ task = ForAll(Booting) /\ unit = ForAll(NoUnit)
  /\ unit_pipe = ForAll(<<>>) /\ back_pipe = ForAll(<<>>) /\ thread = ForAll(Idle)
  /\ held = ForAll(0) /\ extant = ForAll(0)
  /\ waiting = {} /\ result = {} /\ status = [p \in Packet |-> "0"]
  /\ amigaUp = FALSE /\ irq = "off" /\ CpuRuns
  /\ unit_no \in 1..Units + 1 /\ uae_int_requested \in 0..1 /\ singlethread_int_sem \in 0..1
  /\ native \in 0..NativeRecords

(* A machine that starts afresh satisfies the invariant, ...                *)
LEMMA AfreshKeeps == StartsAfresh => FsInv
<1> SUFFICES ASSUME StartsAfresh PROVE FsInv
  OBVIOUS
<1>n. /\ MaxStarted \in Nat /\ CmdWrap \in Nat \ {0, 1} /\ MaxHeld \in Nat /\ NotifyMax \in Nat
  BY Names, FilesysAssumption DEF FilesysAssumption
<1>0. Booting \in TaskType /\ NoUnit \in UnitType /\ Idle \in ThreadType
  BY <1>n DEF Booting, NoUnit, Idle, TaskType, UnitType, ThreadType
<1>1. PacketTypes
  BY DEF StartsAfresh, PacketTypes
<1>2. UnitTypes
  BY <1>0 DEF StartsAfresh, UnitTypes, ForAll
<1>3. OtherTypes /\ IrqInv
  <2>1. held \in [Unit -> 0..MaxHeld] /\ extant \in [Unit -> Int]
    BY <1>n DEF StartsAfresh, ForAll
  <2> QED
    BY <2>1 DEF StartsAfresh, OtherTypes, IrqInv
<1>4. LocksInv
  BY DEF StartsAfresh, LocksInv, ForAll, Idle
<1>5. ASSUME NEW u \in Unit PROVE UnitInv(u)
  <2>1. /\ port[u] = <<>> /\ task[u] = Booting /\ unit[u] = NoUnit /\ unit_pipe[u] = <<>>
        /\ back_pipe[u] = <<>> /\ thread[u] = Idle /\ waiting = {} /\ result = {}
    BY DEF StartsAfresh, ForAll
  <2>2. Taken(u) = {} /\ Done(u) = {} /\ ~DeathSent(u)
    BY <2>1 DEF Taken, TakenOf, Chained, Done, Booting, DeathSent, StartsAfresh
  <2>3. \A S, m : Occurrences(m, <<>>) = 0
    BY FS_EmptySet DEF Occurrences
  <2>4. TaskInv(u)
    BY <2>1 DEF TaskInv, Booting, Idle, Null
  <2>5. PipeInv(u) /\ HandInv(u) /\ ResultInv(u)
    BY <2>1, <2>2 DEF PipeInv, HandInv, ResultInv, Idle, Works
  <2>6. CountInv(u)
    BY <1>n, <2>1, <2>2, FS_EmptySet DEF CountInv, One, Works, ToGiveBack, Started, Idle, Booting
  <2>7. PlaceInv(u) /\ DummyInv(u)
    BY <2>1, <2>3, Names DEF PlaceInv, DummyInv, One, Booting, NoUnit
  <2> QED
    BY <2>4, <2>5, <2>6, <2>7 DEF UnitInv
<1> QED
  BY <1>1, <1>2, <1>3, <1>4, <1>5 DEF FsInv
-----------------------------------------------------------------------------
(* The 68k's RESET has not been executed, and is not unless it may be: what  *)
(* follows holds as long as the machine is only restarted by uae_reset, for  *)
(* of a reboot filesys.c is not told.                                        *)
Clean == "reboot" \notin Restarts \/ restarts = 0

Inv == EndInv /\ (Clean => FsInv)

(* ... also after a reset.                                                  *)
LEMMA AfreshKeepsNext == StartsAfresh' => FsInv'
BY AfreshKeeps, PTL

(* Every step but the 68k's RESET keeps the invariant.                       *)
LEMMA FsStep ==
  ASSUME FsInv, EndInv, [Next]_vars, ~Reboot
  PROVE  FsInv'
<1>1. CASE ResetEnds
  <2>1. StartsAfresh'
    <3>1. OtherTypes
      BY DEF FsInv
    <3> QED
      BY <1>1, <3>1 DEF ResetEnds, AmigaRestarts, StartsAfresh, CpuRuns, OtherTypes, ForAll, Unit
  <2> QED
    BY <2>1, AfreshKeepsNext
<1>2. CASE ResetSendsDeath
  <2>1. emu[2] \in Unit
    BY <1>2 DEF ResetSendsDeath, EndInv, CpuRuns
  <2> QED
    BY <1>2, <2>1, DeathKeeps
<1>3. CASE InterruptPuts
  <2>1. unit_no \in Unit
    BY <1>3 DEF InterruptPuts
  <2> QED
    BY <1>3, <2>1, PutsKeep
<1>4. CASE filesys_diagentry \/ Interrupt
  BY <1>3, <1>4, InterruptsKeep DEF Interrupt
<1>5. CASE ResetBegins \/ ResetStep
  BY <1>1, <1>2, <1>5, ResetsKeep DEF ResetStep
<1>6. CASE \E p \in Packet : Send(p)
  BY <1>6, SendKeeps
<1>7. CASE \E u \in Unit : Task(u) \/ Thread(u)
  BY <1>7, TaskKeeps, ThreadKeeps
<1>8. CASE UNCHANGED vars
  <2>1. /\ UNCHANGED <<waiting, result, status, port, task, unit, unit_pipe, back_pipe, thread>>
        /\ UNCHANGED <<emu, held, extant, irqVars>>
    BY <1>8 DEF vars, packetVars, amigaVars, hostVars, resetVars
  <2>2. \A w \in Unit : DeathSent(w)' <=> DeathSent(w)
    BY <2>1 DEF DeathSent, CpuRuns
  <2>3. OtherTypes' /\ IrqInv'
    BY <2>1 DEF FsInv, OtherTypes, IrqInv, irqVars
  <2> QED
    BY <2>1, <2>2, <2>3, NothingMoves
<1> QED
  BY <1>4, <1>5, <1>6, <1>7, <1>8 DEF Next

(* The machine starts with nothing under way.                                *)
LEMMA FsStarts == Init => Inv
<1> SUFFICES ASSUME Init PROVE Inv
  OBVIOUS
<1>1. StartsAfresh
  BY Names DEF Init, StartsAfresh, CpuRuns
<1> QED
  BY <1>1, AfreshKeeps, EndStarts DEF Inv

(* Restarts are counted and never forgotten.                                 *)
LEMMA RestartsCounted ==
  ASSUME EndInv, [Next]_vars
  PROVE  /\ restarts \in Nat /\ restarts' \in {restarts, restarts + 1}
         /\ Reboot => "reboot" \in Restarts /\ restarts' = restarts + 1
<1>1. restarts \in Nat
  BY DEF EndInv
<1>2. Reboot => "reboot" \in Restarts /\ restarts' = restarts + 1
  BY DEF Reboot
<1>3. ASSUME NEW u \in Unit, Task(u) \/ Thread(u) PROVE restarts' = restarts
  <2>1. CASE Task(u)
    BY <2>1 DEF Task, startup_handler, GetMsg, ReleaseDummy, CollectLocks, LocksCollected, Scan,
                ScanEnds, FSML_FromDOS, QueueCommand, RejectCommand, StartCommand, Enqueue, resetVars
  <2>2. CASE Thread(u)
    BY <2>2 DEF Thread, ThreadReads, ThreadDiscards, ThreadDies, ThreadNotifies, ThreadHandles,
                ThreadMarks, ThreadCounts, ThreadRequests, ThreadGivesBack, ThreadClears, resetVars
  <2> QED
    BY <1>3, <2>1, <2>2
<1>4. filesys_diagentry \/ Interrupt \/ (\E p \in Packet : Send(p)) \/ UNCHANGED vars
        => restarts' = restarts
  BY DEF filesys_diagentry, Interrupt, Send, InterruptBegins, InterruptDrains,
         InterruptSkips, InterruptPuts, InterruptEnds, resetVars, vars
<1>5. ResetStep => restarts' = restarts
  BY DEF ResetStep, ResetFlags, ResetSendsDeath, ResetNextUnit, ResetEnds
<1>6. ResetBegins => restarts' = restarts + 1
  BY DEF ResetBegins
<1>7. restarts' \in {restarts, restarts + 1}
  BY <1>2, <1>3, <1>4, <1>5, <1>6 DEF Next
<1> QED
  BY <1>1, <1>2, <1>7

(* A step after which the machine was not rebooted began in such a state.    *)
LEMMA StaysClean ==
  ASSUME EndInv, [Next]_vars, Clean'
  PROVE  Clean /\ ~Reboot /\ (restarts' = 0 => restarts = 0)
<1>1. restarts' = 0 => restarts = 0 /\ ~Reboot
  BY RestartsCounted
<1> QED
  BY <1>1, RestartsCounted DEF Clean

(* Inv is inductive.                                                        *)
LEMMA InvStep ==
  ASSUME Inv, [Next]_vars
  PROVE  Inv'
<1>1. EndInv'
  BY EndStep DEF Inv
<1>2. ASSUME Clean' PROVE FsInv'
  BY <1>2, StaysClean, FsStep DEF Inv
<1> QED
  BY <1>1, <1>2 DEF Inv

(* The invariant says what PacketsInPlace says: One unfolds to its sums, and *)
(* the commands started are at most MaxStarted.                              *)
LEMMA InvPlaces ==
  ASSUME FsInv
  PROVE  PacketsInPlace
<1>1. PacketInOnePlace
  <2>1. ASSUME NEW p \in Packet, NEW u \in Unit
        PROVE  Occurrences(p, port[u]) + Occurrences(p, task[u].chain) + One(task[u].pck = p)
                 = One(p \in waiting /\ u = Volume[p])
    BY DEF FsInv, UnitInv, PlaceInv
  <2> QED
    BY ONLY <2>1 DEF PacketInOnePlace, One
<1>2. ThreadWorksForClient
  <2> SUFFICES ASSUME NEW u \in Unit, Works(thread[u]) PROVE thread[u].pck \in waiting
    BY DEF ThreadWorksForClient, Works
  <2>1. thread[u].pck \in Taken(u) /\ UnitTypes /\ PlaceInv(u) /\ TaskInv(u)
    BY DEF FsInv, UnitInv, HandInv
  <2> QED
    BY <2>1, TakenFacts
<1>3. PipesNeverFill
  <2> SUFFICES ASSUME NEW u \in Unit
               PROVE  Len(unit_pipe[u]) <= MaxStarted + 1 /\ Len(back_pipe[u]) <= 2 * MaxStarted + 1
    BY DEF PipesNeverFill
  <2>i. UnitTypes /\ CountInv(u) /\ TaskInv(u)
    BY DEF FsInv, UnitInv
  <2> DEFINE l == Len(unit_pipe[u])
             b == Len(back_pipe[u])
             w == One(Works(thread[u]))
             g == One(ToGiveBack(thread[u]))
             c == Cardinality(Done(u))
             d == Started(task[u])
             e == One(DeathSent(u))
             k == IF task[u].pc = "scan" THEN Started(task[u]) ELSE 0
  <2>1. l \in Nat /\ b \in Nat /\ MaxStarted \in Nat
    BY <2>i, UnitFacts, Names
  <2>2. c \in Nat /\ w \in {0, 1} /\ g \in {0, 1} /\ e \in {0, 1}
    BY <2>i, FS_CardinalityType DEF CountInv, One
  <2>3. d \in Nat /\ k \in Nat /\ d <= MaxStarted
    <3>1. task[u].d5 \in Nat /\ task[u].d5 <= MaxStarted /\ (task[u].pc = "enqueue" => task[u].d5 < MaxStarted)
      BY <2>i, <2>1, UnitFacts DEF TaskInv
    <3>2. d \in Nat /\ d <= MaxStarted
      BY <2>1, <3>1 DEF Started, One
    <3> QED
      BY <3>2
  <2>4. l + w + c <= d + e /\ w + c <= d /\ b + g + k <= 1 + MaxStarted + c
    BY <2>i DEF CountInv
  <2> HIDE DEF l, b, w, g, c, d, e, k
  <2>5. l <= MaxStarted + 1
    BY <2>1, <2>2, <2>3, <2>4
  <2>6. b <= 2 * MaxStarted + 1
    BY <2>1, <2>2, <2>3, <2>4
  <2> QED
    BY <2>5, <2>6 DEF l, b
<1>4. DummyQueuedOnce
  <2>1. ASSUME NEW u \in Unit
        PROVE  Occurrences(Dummy, port[u]) + One(task[u].pc = "release")
                 = One(unit[u].acked # unit[u].complete)
    BY DEF FsInv, UnitInv, DummyInv
  <2> QED
    BY ONLY <2>1 DEF DummyQueuedOnce, One
<1> QED
  BY <1>1, <1>2, <1>3, <1>4 DEF PacketsInPlace

(* Type correctness, for a machine that only uae_reset restarts.             *)
THEOREM FsTypes ==
  ASSUME "reboot" \notin Restarts
  PROVE  Spec => []TypeOK
<1>1. Inv => TypeOK
  BY TypesNamed DEF Inv, Clean, FsInv, EndInv, EndTypes, EmuType, DownType
<1>2. Inv /\ [Next]_vars => Inv'
  BY InvStep
<1> QED
  BY <1>1, <1>2, FsStarts, PTL DEF Spec

(* A packet is in exactly one place of the Amiga side while its client waits *)
(* and in none otherwise; the thread works on a packet only while it is      *)
(* waited for; the pipes never fill, so neither the 68k nor the emulator     *)
(* thread blocks on them; a unit's one dummy message is never put on a list  *)
(* twice. For any number of units, clients and resets.                       *)
THEOREM PacketsStayInPlace ==
  ASSUME "reboot" \notin Restarts
  PROVE  Spec => []PacketsInPlace
<1>1. Inv => PacketsInPlace
  BY InvPlaces DEF Inv, Clean
<1>2. Inv /\ [Next]_vars => Inv'
  BY InvStep
<1> QED
  BY <1>1, <1>2, FsStarts, PTL DEF Spec

(* A packet that filesys_handler accepts is replied with its results filled  *)
(* in, whatever the order in which thread, interrupt and handler run.        *)
THEOREM RepliesAnswered == Spec => RepliesAreAnswers
<1>1. Inv /\ [Next]_vars =>
        [\A p \in Packet : (restarts' = 0 /\ p \in waiting /\ p \notin waiting') =>
           p \in result \/ p \in BadPacket]_vars
  <2> SUFFICES ASSUME Inv, Next, NEW p \in Packet, restarts' = 0, p \in waiting, p \notin waiting'
               PROVE  p \in result \/ p \in BadPacket
    OBVIOUS
  <2>1. FsInv /\ EndInv /\ ~Reboot /\ restarts = 0
    BY StaysClean DEF Inv, Clean
  <2>2. ~ResetEnds
    <3>1. ASSUME ResetEnds PROVE FALSE
      <4>1. ~CpuRuns
        BY <3>1 DEF ResetEnds, CpuRuns
      <4> QED
        BY <2>1, <4>1 DEF EndInv
    <3> QED
      BY <3>1
  <2>3. PICK u \in Unit : Scan(u) \/ (TaskAt(u, "fromDOS") /\ RejectCommand(u))
    <3>1. CASE \E u \in Unit : Task(u)
      <4>1. PICK u \in Unit : Task(u)
        BY <3>1
      <4>2. ~Scan(u) => FSML_FromDOS(u)
        BY <4>1 DEF Task, startup_handler, GetMsg, ReleaseDummy, CollectLocks, LocksCollected,
                    ScanEnds, Enqueue, packetVars
      <4> QED
        BY <4>2 DEF FSML_FromDOS, QueueCommand, StartCommand
    <3>2. CASE \E u \in Unit : Thread(u)
      BY <3>2 DEF Thread, ThreadReads, ThreadDiscards, ThreadDies, ThreadNotifies, ThreadHandles,
              ThreadMarks, ThreadCounts, ThreadRequests, ThreadGivesBack, ThreadClears, packetVars
    <3>3. CASE filesys_diagentry \/ Interrupt \/ ResetBegins \/ ResetFlags \/ ResetSendsDeath
               \/ ResetNextUnit \/ \E q \in Packet : Send(q)
      BY <3>3 DEF filesys_diagentry, Interrupt, Send, InterruptBegins, InterruptDrains,
              InterruptSkips, InterruptPuts, InterruptEnds, ResetBegins, ResetFlags,
              ResetSendsDeath, ResetNextUnit, packetVars
    <3> QED
      BY <2>1, <2>2, <3>1, <3>2, <3>3 DEF Next, ResetStep
  <2>4. UnitInv(u)
    BY <2>1 DEF FsInv
  <2>5. CASE Scan(u)
    <3> DEFINE c == task[u].chain[task[u].scan]
    <3>1. /\ task[u].pc = "scan" /\ task[u].scan <= Len(task[u].chain)
          /\ status[c] = "done" /\ waiting' = waiting \ {c}
      BY <2>5 DEF Scan, TaskAt
    <3>2. task[u].chain \in Seq(Packet) /\ task[u].scan \in Nat /\ task[u].scan >= 1
      BY <2>1, <2>4, <3>1, UnitFacts DEF FsInv, UnitInv, TaskInv
    <3>3. task[u].scan \in DOMAIN task[u].chain
      BY <3>1, <3>2
    <3>4. c \in Done(u)
      BY <3>1, <3>3 DEF Done, Taken, TakenOf, Chained
    <3> HIDE DEF c
    <3>5. c \in result
      BY <2>4, <3>4 DEF UnitInv, ResultInv
    <3> QED
      BY <3>1, <3>5
  <2>6. CASE RejectCommand(u)
    BY <2>6 DEF RejectCommand
  <2> QED
    BY <2>3, <2>5, <2>6
<1>2. Inv /\ [Next]_vars => Inv'
  BY InvStep
<1> QED
  BY <1>1, <1>2, FsStarts, PTL DEF Spec, RepliesAreAnswers

=============================================================================
