---------------------------- MODULE TrapsProofs -----------------------------
(* Proofs about Traps, for any tasks, any number of trap contexts and any    *)
(* number of resets: its types, that the 68k state has one user at a time,   *)
(* that the contexts named on 68k stacks are alive, and that a call and its  *)
(* result, and a trap's end, concern the trap that they should.              *)
EXTENDS Traps, FiniteSets, FiniteSetTheorems, SequenceTheorems, TLAPS

-----------------------------------------------------------------------------
(* The inductive invariant. The 68k state is passed around like a token: it  *)
(* is with the interpreter, or with one context that is in hand; every other *)
(* context sleeps with both its semaphores at 0.                             *)
InHand == emu \in {"handoff", "join"} \/ (emu = "run" /\ regs.at \in {"callTrap", "exitTrap"})
Hand == IF emu = "run" THEN current ELSE emuCtx
IsHand(c) == InHand /\ c = Hand

Asleep(c) == ctx[c].switch_to_emu = 0 /\ ctx[c].switch_to_trap = 0
AsksEmu(c) == ctx[c].switch_to_emu = 1 /\ ctx[c].switch_to_trap = 0
AsksTrap(c) == ctx[c].switch_to_emu = 0 /\ ctx[c].switch_to_trap = 1

Works(c) ==            \* the states of a context that has been switched to
  \/ ctx[c].pc \in {"handler", "callLock", "exitLock", "callDone"} /\ Asleep(c)
  \/ ctx[c].pc \in {"start", "callWait"} /\ AsksTrap(c)
  \/ ctx[c].pc = "callWait" /\ AsksEmu(c) /\ ctx[c].regs.at = "callTrap"
  \/ ctx[c].pc \in {"finishing", "exited"} /\ AsksEmu(c) /\ ctx[c].regs.at = "exitTrap"

HandInv ==
  InHand =>
    /\ Hand \in Ctx /\ Alive(Hand)
    /\ emu = "handoff" => Works(Hand) /\ ctx[Hand].regs.task = Self
    /\ emu # "handoff" => Asleep(Hand)
    /\ emu = "run" /\ regs.at = "callTrap" => ctx[Hand].pc = "callWait"
    /\ (emu = "run" /\ regs.at = "exitTrap") \/ emu = "join" => ctx[Hand].pc \in {"finishing", "exited"}

SleepInv ==
  \A c \in Ctx : Alive(c) /\ ~IsHand(c) => ctx[c].pc \in {"callWait", "finishing", "exited"} /\ Asleep(c)

(* Registers on their way to a trap run with interrupts disabled, and hold   *)
(* trap_mutex.                                                               *)
Masked(r) == r.at \in {"callTrap", "exitTrap"} => r.mask = 7

MutexInv ==
  /\ Masked(regs) /\ \A c \in Ctx : Alive(c) => Masked(ctx[c].regs)
  /\ emu \in {"run", "join"} /\ InHand => mutex = 0
  /\ emu = "handoff" /\ ctx[Hand].pc \in {"callWait", "callDone", "finishing", "exited"} => mutex = 0
  /\ emu = "handoff" /\ AsksEmu(Hand) => current = Hand
  /\ emu = "join" => current = Hand
  /\ emu = "returnLock" => regs.at = "returnTrap"

(* What a context has been told: functions and results are known by it.      *)
ValueInv ==
  \A c \in Ctx : Alive(c) =>
    /\ ctx[c].saved_regs.at \in {"code", "func"}
    /\ ctx[c].pc = "callWait" => ctx[c].func_addr = c
    /\ ctx[c].pc = "callDone" \/ (ctx[c].pc = "callWait" /\ ctx[c].switch_to_trap = 1) => ctx[c].call_retval = c
    /\ ctx[c].pc \in {"exitLock", "finishing", "exited"} => ctx[c].trap_retval = c

(* The registers that belong on top of a stack, and under each frame: those  *)
(* of a function run for a context lie on the frame of its call.             *)
Top(t) == IF t # Self THEN parked[t] ELSE IF InHand THEN ctx[Hand].saved_regs ELSE regs
Below(f) == IF f.kind = "irq" THEN f.regs ELSE ctx[f.ctx].saved_regs
Fits(r, t, s, i) ==
  /\ r.task = t /\ r.at \in {"code", "func", "returnTrap"}
  /\ r.at = "func" => i <= Len(s) /\ s[i].kind = "call" /\ s[i].ctx = r.fn
  /\ r.at = "returnTrap" => i <= Len(s) /\ s[i].kind = "call" /\ s[i].ctx = r.d0

StackInv ==
  \A t \in Task : /\ Fits(Top(t), t, stack[t], 1)
                  /\ \A i \in 1..Len(stack[t]) : Fits(Below(stack[t][i]), t, stack[t], i + 1)

CallAt(s, i) == i \in 1..Len(s) /\ s[i].kind = "call"
FramesInv ==
  /\ \A t \in Task, i \in Nat : CallAt(stack[t], i) =>
       Alive(stack[t][i].ctx) /\ ctx[stack[t][i].ctx].pc = "callWait" /\ ~IsHand(stack[t][i].ctx)
  /\ \A t, u \in Task, i, j \in Nat :
       CallAt(stack[t], i) /\ CallAt(stack[u], j) /\ stack[t][i].ctx = stack[u][j].ctx => t = u /\ i = j

(* The traps a task is in: the one in hand, and those of the calls on its    *)
(* stack in their order.                                                     *)
Rank(s, i) == Cardinality({j \in 1..i : s[j].kind = "call"})
Inside(e, s, h) ==
  /\ Len(e) = Rank(s, Len(s)) + h
  /\ \A i \in Nat : CallAt(s, i) => e[Rank(s, i) + h] = s[i].ctx
HandOf(t) == IF InHand /\ t = Self THEN 1 ELSE 0
EnteredInv ==
  /\ \A t \in Task : Inside(entered[t], stack[t], HandOf(t))
  /\ InHand => entered[Self][1] = Hand

KeepsAlive == \A b \in Ctx : Alive(b) => Alive(b)'

TrapsInv == TypeOK /\ HandInv /\ SleepInv /\ MutexInv /\ ValueInv /\ StackInv /\ FramesInv /\ EnteredInv
-----------------------------------------------------------------------------
(* Ranks, and stacks with a frame more or less.                              *)
LEMMA RankType == ASSUME NEW s, NEW i \in Nat PROVE Rank(s, i) \in Nat /\ Rank(s, 0) = 0
<1>1. IsFiniteSet(1..i)
  BY FS_Interval
<1>2. IsFiniteSet({j \in 1..i : s[j].kind = "call"})
  BY <1>1, FS_Subset
<1>3. {j \in 1..0 : s[j].kind = "call"} = {}
  OBVIOUS
<1> QED
  BY <1>2, <1>3, FS_CardinalityType, FS_EmptySet DEF Rank

(* A stack with a frame more, ...                                            *)
LEMMA PushIs ==
  ASSUME NEW S, NEW s \in Seq(S), NEW f \in S
  PROVE  /\ <<f>> \o s \in Seq(S) /\ Len(<<f>> \o s) = Len(s) + 1 /\ Len(s) \in Nat
         /\ (<<f>> \o s)[1] = f /\ \A i \in 1..Len(s) : (<<f>> \o s)[i + 1] = s[i]
<1>1. <<f>> \in Seq(S) /\ Len(<<f>>) = 1 /\ <<f>>[1] = f
  OBVIOUS
<1>2. /\ <<f>> \o s \in Seq(S) /\ Len(<<f>> \o s) = 1 + Len(s)
      /\ \A i \in 1 .. 1 + Len(s) : (<<f>> \o s)[i] = IF i <= 1 THEN <<f>>[i] ELSE s[i - 1]
  BY <1>1, ConcatProperties
<1>3. Len(s) \in Nat
  OBVIOUS
<1>4. (<<f>> \o s)[1] = f
  BY <1>1, <1>2, <1>3
<1>5. ASSUME NEW i \in 1..Len(s) PROVE (<<f>> \o s)[i + 1] = s[i]
  <2>1. i + 1 \in 1 .. 1 + Len(s) /\ ~(i + 1 <= 1) /\ (i + 1) - 1 = i
    BY <1>3
  <2> QED
    BY <1>2, <2>1
<1> QED
  BY <1>2, <1>3, <1>4, <1>5

(* ... and with one less.                                                    *)
LEMMA PopIs ==
  ASSUME NEW S, NEW s \in Seq(S), s # <<>>
  PROVE  /\ Tail(s) \in Seq(S) /\ Len(s) = Len(Tail(s)) + 1 /\ Len(Tail(s)) \in Nat /\ Head(s) = s[1] /\ Head(s) \in S
         /\ \A i \in 1..Len(Tail(s)) : Tail(s)[i] = s[i + 1]
<1>1. Tail(s) \in Seq(S) /\ Len(Tail(s)) = Len(s) - 1 /\ Head(s) \in S /\ Len(s) \in Nat
  BY HeadTailProperties
<1>2. Len(Tail(s)) \in Nat
  BY <1>1
<1> QED
  BY <1>1, <1>2

(* A frame more on top raises the rank of those below it if it is a call's.  *)
LEMMA RankPush ==
  ASSUME NEW s, NEW r, NEW i \in Nat, \A j \in 1..i : r[j + 1] = s[j]
  PROVE  Rank(r, i + 1) = Rank(s, i) + IF r[1].kind = "call" THEN 1 ELSE 0
<1> DEFINE A == {j \in 1..i : s[j].kind = "call"}
           B == {j \in 1..(i + 1) : r[j].kind = "call"}
           C == B \ {1}
           f == [j \in A |-> j + 1]
<1>1. IsFiniteSet(A) /\ IsFiniteSet(B)
  <2>1. IsFiniteSet(1..i) /\ IsFiniteSet(1..(i + 1))
    BY FS_Interval
  <2>2. A \in SUBSET (1..i) /\ B \in SUBSET (1..(i + 1))
    OBVIOUS
  <2> QED
    BY <2>1, <2>2, FS_Subset
<1>2. f \in Bijection(A, C)
  <2>1. ASSUME NEW j \in A PROVE f[j] \in C
    <3>1. j \in 1..i /\ j + 1 \in 1..(i + 1) /\ j + 1 # 1
      OBVIOUS
    <3> QED
      BY <3>1
  <2>2. f \in [A -> C]
    BY <2>1
  <2>3. ASSUME NEW j \in A, NEW k \in A, f[j] = f[k] PROVE j = k
    BY <2>3
  <2>4. ASSUME NEW k \in C PROVE \E j \in A : f[j] = k
    <3>1. k - 1 \in 1..i /\ (k - 1) + 1 = k
      OBVIOUS
    <3>2. k - 1 \in A
      BY <3>1
    <3> QED
      BY <3>1, <3>2
  <2>5. f \in Surjection(A, C)
    BY <2>2, <2>4 DEF Surjection
  <2>6. f \in Injection(A, C)
    <3>1. \A j, k \in A : f[j] = f[k] => j = k
      BY <2>3
    <3> HIDE DEF f, A, C
    <3> QED
      BY <2>2, <3>1 DEF Injection, IsInjective
  <2> QED
    BY <2>5, <2>6 DEF Bijection
<1>3. Cardinality(C) = Cardinality(A)
  BY <1>1, <1>2, FS_Bijection DEF ExistsBijection
<1>4. 1 \in B <=> r[1].kind = "call"
  OBVIOUS
<1>5. Cardinality(C) = IF 1 \in B THEN Cardinality(B) - 1 ELSE Cardinality(B)
  BY <1>1, FS_RemoveElement
<1>6. Cardinality(A) \in Nat /\ Cardinality(B) \in Nat
  BY <1>1, FS_CardinalityType
<1>7. Rank(r, i + 1) = Cardinality(B) /\ Rank(s, i) = Cardinality(A)
  BY DEF Rank
<1> HIDE DEF A, B, C
<1>8. CASE r[1].kind = "call"
  <2>1. Cardinality(C) = Cardinality(B) - 1
    BY <1>4, <1>5, <1>8
  <2>2. Cardinality(B) = Cardinality(A) + 1
    BY <1>3, <1>6, <2>1
  <2> QED
    BY <1>7, <1>8, <2>2
<1>9. CASE r[1].kind # "call"
  <2>1. Cardinality(B) = Cardinality(A) + 0
    BY <1>3, <1>4, <1>5, <1>6, <1>9
  <2> QED
    BY <1>7, <1>9, <2>1
<1> QED
  BY <1>8, <1>9

(* The calls below a frame of a stack are between one and all of them.       *)
LEMMA RankBounds ==
  ASSUME NEW S, NEW s \in Seq(S), NEW i \in Nat, CallAt(s, i)
  PROVE  Rank(s, i) \in 1..Rank(s, Len(s))
<1> DEFINE A == {j \in 1..i : s[j].kind = "call"}
           B == {j \in 1..Len(s) : s[j].kind = "call"}
<1>1. Len(s) \in Nat /\ i \in 1..Len(s) /\ s[i].kind = "call"
  BY DEF CallAt
<1>2. IsFiniteSet(B)
  <2>1. IsFiniteSet(1..Len(s))
    BY <1>1, FS_Interval
  <2> QED
    BY <2>1, FS_Subset
<1>3. A \in SUBSET B /\ i \in A
  BY <1>1
<1>4. IsFiniteSet(A) /\ Cardinality(A) <= Cardinality(B)
  BY <1>2, <1>3, FS_Subset
<1>5. Cardinality(A) \in Nat /\ Cardinality(B) \in Nat /\ Cardinality(A) # 0
  BY <1>2, <1>3, <1>4, FS_CardinalityType, FS_EmptySet
<1>6. Rank(s, i) = Cardinality(A) /\ Rank(s, Len(s)) = Cardinality(B)
  BY DEF Rank
<1> HIDE DEF A, B
<1> QED
  BY <1>4, <1>5, <1>6

(* Registers that fit a place of a stack fit it when a frame is put on top,  *)
(* ...                                                                       *)
LEMMA FitsPushed ==
  ASSUME NEW S, NEW s \in Seq(S), NEW f \in S, NEW r, NEW t, NEW i \in Nat \ {0}, Fits(r, t, s, i)
  PROVE  Fits(r, t, <<f>> \o s, i + 1)
<1>1. Len(<<f>> \o s) = Len(s) + 1 /\ Len(s) \in Nat /\ \A j \in 1..Len(s) : (<<f>> \o s)[j + 1] = s[j]
  BY PushIs
<1>2. i <= Len(s) => i + 1 <= Len(<<f>> \o s) /\ (<<f>> \o s)[i + 1] = s[i]
  BY <1>1
<1> DEFINE p == <<f>> \o s
<1> HIDE DEF p
<1>3. i <= Len(s) => i + 1 <= Len(p) /\ p[i + 1] = s[i]
  BY <1>2 DEF p
<1>4. Fits(r, t, p, i + 1)
  BY <1>3 DEF Fits
<1> QED
  BY <1>4 DEF p

(* ... and when one is taken off.                                            *)
LEMMA FitsPopped ==
  ASSUME NEW S, NEW s \in Seq(S), s # <<>>, NEW r, NEW t, NEW i \in Nat \ {0}, Fits(r, t, s, i + 1)
  PROVE  Fits(r, t, Tail(s), i)
<1> DEFINE p == Tail(s)
<1>1. Len(s) = Len(p) + 1 /\ Len(p) \in Nat /\ \A j \in 1..Len(p) : p[j] = s[j + 1]
  BY PopIs
<1> HIDE DEF p
<1>2. i + 1 <= Len(s) => i <= Len(p) /\ s[i + 1] = p[i]
  BY <1>1
<1>3. Fits(r, t, p, i)
  BY <1>2 DEF Fits
<1> QED
  BY <1>3 DEF p

(* An interrupt's frame leaves the ranks alone.                              *)
LEMMA InsideIrq ==
  ASSUME NEW S, NEW s \in Seq(S), NEW f \in S, NEW e, f.kind = "irq"
  PROVE  Inside(e, <<f>> \o s, 0) <=> Inside(e, s, 0)
<1> DEFINE p == <<f>> \o s
<1>1. p \in Seq(S) /\ Len(p) = Len(s) + 1 /\ Len(s) \in Nat /\ p[1] = f /\ \A j \in 1..Len(s) : p[j + 1] = s[j]
  BY PushIs
<1> HIDE DEF p
<1>2. ASSUME NEW i \in 0..Len(s) PROVE Rank(p, i + 1) = Rank(s, i) /\ Rank(s, i) \in Nat
  <2>1. i \in Nat /\ \A j \in 1..i : p[j + 1] = s[j]
    BY <1>1
  <2>2. Rank(p, i + 1) = Rank(s, i) + 0
    BY <1>1, <2>1, RankPush
  <2>3. Rank(s, i) \in Nat
    BY <2>1, RankType
  <2> QED
    BY <2>2, <2>3
<1>3. \A i \in Nat : CallAt(s, i) <=> CallAt(p, i + 1)
  BY <1>1 DEF CallAt
<1>4. \A i \in Nat : CallAt(p, i) => i \in Nat \ {0, 1}
  BY <1>1 DEF CallAt
<1>5. Rank(p, Len(p)) = Rank(s, Len(s))
  BY <1>1, <1>2
<1>6. \A i \in Nat : CallAt(s, i) => i \in 0..Len(s) /\ i \in 1..Len(s) /\ Rank(s, i) \in Nat
  BY <1>1, <1>2 DEF CallAt
<1>7. ASSUME Inside(e, s, 0) PROVE Inside(e, p, 0)
  <2>1. ASSUME NEW i \in Nat, CallAt(p, i) PROVE e[Rank(p, i) + 0] = p[i].ctx
    <3> DEFINE k == i - 1
    <3>1. k \in Nat /\ i = k + 1
      BY <1>4, <2>1
    <3> HIDE DEF k
    <3>2. CallAt(s, k) /\ k \in 0..Len(s) /\ k \in 1..Len(s)
      BY <1>3, <1>6, <2>1, <3>1
    <3>3. e[Rank(s, k) + 0] = s[k].ctx
      BY <1>7, <3>1, <3>2 DEF Inside
    <3> QED
      BY <1>1, <1>2, <3>1, <3>2, <3>3
  <2> QED
    BY <1>5, <1>7, <2>1 DEF Inside
<1>8. ASSUME Inside(e, p, 0) PROVE Inside(e, s, 0)
  <2>1. ASSUME NEW i \in Nat, CallAt(s, i) PROVE e[Rank(s, i) + 0] = s[i].ctx
    <3>1. CallAt(p, i + 1) /\ i \in 0..Len(s) /\ i \in 1..Len(s) /\ i + 1 \in Nat
      BY <1>3, <1>6, <2>1
    <3>2. e[Rank(p, i + 1) + 0] = p[i + 1].ctx
      BY <1>8, <3>1 DEF Inside
    <3> QED
      BY <1>1, <1>2, <3>1, <3>2
  <2> QED
    BY <1>5, <1>8, <2>1 DEF Inside
<1>9. Inside(e, p, 0) <=> Inside(e, s, 0)
  BY <1>7, <1>8
<1> QED
  BY <1>9 DEF p

(* A call puts the trap in hand on the stack, a return takes it from there.  *)
LEMMA InsideCall ==
  ASSUME NEW S, NEW s \in Seq(S), NEW f \in S, NEW e, f.kind = "call"
  PROVE  Inside(e, <<f>> \o s, 0) <=> Inside(e, s, 1) /\ e[1] = f.ctx
<1> DEFINE p == <<f>> \o s
<1>1. p \in Seq(S) /\ Len(p) = Len(s) + 1 /\ Len(s) \in Nat /\ p[1] = f /\ \A j \in 1..Len(s) : p[j + 1] = s[j]
  BY PushIs
<1> HIDE DEF p
<1>2. ASSUME NEW i \in 0..Len(s) PROVE Rank(p, i + 1) = Rank(s, i) + 1 /\ Rank(s, i) \in Nat
  <2>1. i \in Nat /\ \A j \in 1..i : p[j + 1] = s[j]
    BY <1>1
  <2>2. Rank(p, i + 1) = Rank(s, i) + 1
    BY <1>1, <2>1, RankPush
  <2>3. Rank(s, i) \in Nat
    BY <2>1, RankType
  <2> QED
    BY <2>2, <2>3
<1>3. \A i \in Nat : CallAt(s, i) <=> (CallAt(p, i + 1) /\ i # 0)
  BY <1>1 DEF CallAt
<1>4. CallAt(p, 1) /\ Rank(p, 1) = 1
  <2>1. Rank(p, 0 + 1) = Rank(s, 0) + 1
    BY <1>1, <1>2
  <2> QED
    BY <1>1, <2>1, RankType DEF CallAt
<1>5. Rank(p, Len(p)) + 0 = Rank(s, Len(s)) + 1
  BY <1>1, <1>2
<1>6. \A i \in Nat : CallAt(s, i) => i \in 0..Len(s) /\ i \in 1..Len(s) /\ Rank(s, i) \in Nat
  BY <1>1, <1>2 DEF CallAt
<1>7. ASSUME Inside(e, s, 1), e[1] = f.ctx PROVE Inside(e, p, 0)
  <2>1. ASSUME NEW i \in Nat, CallAt(p, i) PROVE e[Rank(p, i) + 0] = p[i].ctx
    <3>1. CASE i = 1
      BY <1>1, <1>4, <1>7, <3>1
    <3>2. CASE i # 1
      <4> DEFINE k == i - 1
      <4>1. k \in Nat /\ i = k + 1 /\ k # 0
        BY <2>1, <3>2 DEF CallAt
      <4> HIDE DEF k
      <4>2. CallAt(s, k) /\ k \in 0..Len(s) /\ k \in 1..Len(s)
        BY <1>3, <1>6, <2>1, <4>1
      <4>3. e[Rank(s, k) + 1] = s[k].ctx
        BY <1>7, <4>1, <4>2 DEF Inside
      <4> QED
        BY <1>1, <1>2, <4>1, <4>2, <4>3
    <3> QED
      BY <3>1, <3>2
  <2> QED
    BY <1>5, <1>7, <2>1 DEF Inside
<1>8. ASSUME Inside(e, p, 0) PROVE Inside(e, s, 1) /\ e[1] = f.ctx
  <2>1. ASSUME NEW i \in Nat, CallAt(s, i) PROVE e[Rank(s, i) + 1] = s[i].ctx
    <3>1. CallAt(p, i + 1) /\ i \in 0..Len(s) /\ i \in 1..Len(s) /\ i + 1 \in Nat
      BY <1>3, <1>6, <2>1
    <3>2. e[Rank(p, i + 1) + 0] = p[i + 1].ctx
      BY <1>8, <3>1 DEF Inside
    <3> QED
      BY <1>1, <1>2, <3>1, <3>2
  <2>2. e[Rank(p, 1) + 0] = p[1].ctx
    BY <1>4, <1>8 DEF Inside
  <2> QED
    BY <1>1, <1>4, <1>5, <1>8, <2>1, <2>2 DEF Inside
<1>9. Inside(e, p, 0) <=> Inside(e, s, 1) /\ e[1] = f.ctx
  BY <1>7, <1>8
<1> QED
  BY <1>9 DEF p

(* A trap is entered and left.                                               *)
LEMMA InsideEnter ==
  ASSUME NEW S, NEW s \in Seq(S), NEW e \in Seq(Ctx), NEW c \in Ctx, Inside(e, s, 0)
  PROVE  Inside(<<c>> \o e, s, 1) /\ (<<c>> \o e)[1] = c
<1> DEFINE p == <<c>> \o e
<1>1. Len(p) = Len(e) + 1 /\ Len(e) \in Nat /\ p[1] = c /\ \A j \in 1..Len(e) : p[j + 1] = e[j]
  BY PushIs
<1> HIDE DEF p
<1>2. Len(s) \in Nat /\ Rank(s, Len(s)) \in Nat /\ Len(e) = Rank(s, Len(s))
  <2>1. Len(s) \in Nat
    OBVIOUS
  <2>2. Rank(s, Len(s)) \in Nat
    BY <2>1, RankType
  <2> QED
    BY <2>1, <2>2 DEF Inside
<1>3. ASSUME NEW i \in Nat, CallAt(s, i) PROVE p[Rank(s, i) + 1] = s[i].ctx
  <2>1. Rank(s, i) \in 1..Len(e)
    BY <1>2, <1>3, RankBounds
  <2>2. e[Rank(s, i)] = s[i].ctx
    <3>1. e[Rank(s, i) + 0] = s[i].ctx
      BY <1>3 DEF Inside
    <3> QED
      BY <2>1, <3>1
  <2> QED
    BY <1>1, <2>1, <2>2
<1>4. Inside(p, s, 1)
  BY <1>1, <1>2, <1>3 DEF Inside
<1> QED
  BY <1>1, <1>4 DEF p

(* A trap that ends leaves the calls that are under way below it.            *)
LEMMA InsideExit ==
  ASSUME NEW S, NEW s \in Seq(S), NEW e \in Seq(Ctx), Inside(e, s, 1)
  PROVE  e # <<>> /\ Tail(e) \in Seq(Ctx) /\ Head(e) = e[1] /\ Inside(Tail(e), s, 0)
<1> DEFINE p == Tail(e)
<1>1. Len(s) \in Nat /\ Rank(s, Len(s)) \in Nat /\ Len(e) = Rank(s, Len(s)) + 1
  <2>1. Len(s) \in Nat
    OBVIOUS
  <2>2. Rank(s, Len(s)) \in Nat
    BY <2>1, RankType
  <2> QED
    BY <2>1, <2>2 DEF Inside
<1>2. e # <<>>
  BY <1>1
<1>3. p \in Seq(Ctx) /\ Len(e) = Len(p) + 1 /\ Len(p) \in Nat /\ Head(e) = e[1] /\ \A j \in 1..Len(p) : p[j] = e[j + 1]
  BY <1>2, PopIs
<1> HIDE DEF p
<1>4. ASSUME NEW i \in Nat, CallAt(s, i) PROVE p[Rank(s, i) + 0] = s[i].ctx
  <2>1. Rank(s, i) \in 1..Rank(s, Len(s))
    BY <1>4, RankBounds
  <2>2. e[Rank(s, i) + 1] = s[i].ctx
    BY <1>4 DEF Inside
  <2>3. Rank(s, i) \in 1..Len(p) /\ Rank(s, i) + 0 = Rank(s, i)
    BY <1>1, <1>3, <2>1
  <2> QED
    BY <1>3, <2>2, <2>3
<1>5. Inside(p, s, 0)
  BY <1>1, <1>3, <1>4 DEF Inside
<1> QED
  BY <1>2, <1>3, <1>5 DEF p
-----------------------------------------------------------------------------
(* A call frame has a context.                                               *)
LEMMA FrameIs ==
  ASSUME TypeOK, NEW t \in Task, NEW i \in Nat, CallAt(stack[t], i)
  PROVE  stack[t][i] \in Frame /\ stack[t][i].ctx \in Ctx /\ i \in 1..Len(stack[t])
<1>1. stack[t] \in Seq(Frame) /\ i \in 1..Len(stack[t])
  BY DEF TypeOK, CallAt
<1>2. stack[t][i] \in Frame
  BY <1>1
<1>3. stack[t][i] \in [kind : {"call"}, ctx : Ctx]
  BY <1>2 DEF CallAt, Frame
<1> QED
  BY <1>1, <1>2, <1>3

(* The fields of a context have their types.                                 *)
LEMMA CtxIs ==
  ASSUME TypeOK, NEW c \in Ctx, Alive(c)
  PROVE  /\ ctx[c] \in Context /\ ctx[c].regs \in Regs /\ ctx[c].saved_regs \in Regs
         /\ ctx[c].pc \in ThreadPC /\ ctx[c].has_retval \in BOOLEAN
         /\ ctx[c].func_addr \in Value /\ ctx[c].call_retval \in Value /\ ctx[c].trap_retval \in Value
         /\ ctx[c].switch_to_emu \in 0..1 /\ ctx[c].switch_to_trap \in 0..1
<1>1. ctx[c] \in Context
  BY DEF TypeOK, Alive
<1> QED
  BY <1>1 DEF Context

(* While no frame comes or goes, the registers that belong on the stacks and *)
(* under the frames may not change, nor the contexts that the frames name.   *)
LEMMA SameStacks ==
  ASSUME TypeOK, StackInv, stack' = stack,
         \A t \in Task : Fits(Top(t)', t, stack[t], 1),
         \A t \in Task, i \in Nat : CallAt(stack[t], i) => ctx'[stack[t][i].ctx].saved_regs = ctx[stack[t][i].ctx].saved_regs
  PROVE  StackInv'
<1> SUFFICES ASSUME NEW t \in Task, NEW i \in 1..Len(stack[t]) PROVE Fits(Below(stack[t][i])', t, stack[t], i + 1)
  BY DEF StackInv
<1>1. Fits(Below(stack[t][i]), t, stack[t], i + 1) /\ i \in Nat
  BY DEF StackInv
<1>2. CASE stack[t][i].kind = "irq"
  <2>1. Below(stack[t][i])' = Below(stack[t][i])
    BY <1>2 DEF Below
  <2> QED
    BY <1>1, <2>1
<1>3. CASE stack[t][i].kind # "irq"
  <2>1. stack[t][i] \in Frame
    BY DEF TypeOK
  <2>2. CallAt(stack[t], i)
    BY <1>3, <2>1 DEF Frame, CallAt
  <2>3. Below(stack[t][i])' = Below(stack[t][i])
    BY <1>1, <1>3, <2>2 DEF Below
  <2> QED
    BY <1>1, <2>3
<1> QED
  BY <1>2, <1>3

(* A step of the thread that is in hand.                                     *)
LEMMA HandoffStep ==
  ASSUME TrapsInv, emu = "handoff", NEW c \in Ctx, c = emuCtx,
         regs' = regs, parked' = parked, stack' = stack, emu' = emu, emuCtx' = emuCtx,
         entered' = entered, resets' = resets, mutex' \in 0..1, current' \in Value,
         ctx' \in [Ctx -> Context \cup {None}], Alive(c)', \A b \in Ctx : b # c => ctx'[b] = ctx[b],
         ctx'[c].saved_regs = ctx[c].saved_regs,
         Works(c)', ctx'[c].regs.task = Self, Masked(ctx'[c].regs),
         ctx'[c].pc \in {"callWait", "callDone", "finishing", "exited"} => mutex' = 0,
         AsksEmu(c)' => current' = c,
         ctx'[c].pc = "callWait" => ctx'[c].func_addr = c,
         ctx'[c].pc = "callDone" \/ (ctx'[c].pc = "callWait" /\ ctx'[c].switch_to_trap = 1) => ctx'[c].call_retval = c,
         ctx'[c].pc \in {"exitLock", "finishing", "exited"} => ctx'[c].trap_retval = c
  PROVE  TrapsInv' /\ KeepsAlive
<1>1. InHand /\ InHand' /\ Hand = c /\ Hand' = c /\ Self' = Self
  BY DEF InHand, Hand, Self
<1>2. \A b \in Ctx : (IsHand(b) <=> b = c) /\ (IsHand(b)' <=> b = c)
  BY <1>1 DEF IsHand
<1>3. Alive(c)
  BY <1>1 DEF TrapsInv, HandInv
<1>4. TypeOK'
  BY DEF TrapsInv, TypeOK
<1>5. HandInv'
  <2>1. Works(Hand)' /\ Alive(Hand)' /\ ctx'[Hand'].regs.task = Self'
    BY <1>1 DEF Works, Alive, Asleep, AsksEmu, AsksTrap
  <2> QED
    BY <1>1, <2>1 DEF HandInv
<1>6. SleepInv'
  <2> SUFFICES ASSUME NEW b \in Ctx, Alive(b)', ~IsHand(b)'
               PROVE  (ctx[b].pc \in {"callWait", "finishing", "exited"} /\ Asleep(b))'
    BY DEF SleepInv
  <2>1. b # c /\ ctx'[b] = ctx[b] /\ Alive(b) /\ ~IsHand(b)
    BY <1>2 DEF Alive
  <2> QED
    BY <2>1 DEF TrapsInv, SleepInv, Asleep
<1>7. MutexInv'
  <2>1. \A b \in Ctx : Alive(b)' => Masked(ctx'[b].regs)
    BY DEF TrapsInv, MutexInv, Alive
  <2>2. AsksEmu(Hand)' => current' = c
    BY <1>1 DEF AsksEmu
  <2> QED
    BY <1>1, <2>1, <2>2 DEF TrapsInv, MutexInv, Masked
<1>8. ValueInv'
  <2> SUFFICES ASSUME NEW b \in Ctx, Alive(b)'
               PROVE  (/\ ctx[b].saved_regs.at \in {"code", "func"}
                       /\ ctx[b].pc = "callWait" => ctx[b].func_addr = b
                       /\ ctx[b].pc = "callDone" \/ (ctx[b].pc = "callWait" /\ ctx[b].switch_to_trap = 1) => ctx[b].call_retval = b
                       /\ ctx[b].pc \in {"exitLock", "finishing", "exited"} => ctx[b].trap_retval = b)'
    BY DEF ValueInv
  <2>1. CASE b = c
    BY <1>3, <2>1 DEF TrapsInv, ValueInv
  <2>2. CASE b # c
    BY <2>2 DEF TrapsInv, ValueInv, Alive
  <2> QED
    BY <2>1, <2>2
<1>9. ASSUME NEW t \in Task, NEW i \in Nat, CallAt(stack[t], i)
      PROVE  stack[t][i].ctx \in Ctx /\ ctx'[stack[t][i].ctx] = ctx[stack[t][i].ctx]
  <2>1. stack[t][i].ctx \in Ctx
    BY <1>9, FrameIs DEF TrapsInv
  <2>2. stack[t][i].ctx # c
    BY <1>2, <1>9, <2>1 DEF TrapsInv, FramesInv
  <2> QED
    BY <2>1, <2>2
<1>10. StackInv'
  <2>1. ASSUME NEW t \in Task PROVE Top(t)' = Top(t)
    BY <1>1 DEF Top
  <2>2. ASSUME NEW t \in Task PROVE Fits(Top(t)', t, stack[t], 1)
    BY <2>1 DEF TrapsInv, StackInv
  <2> QED
    BY <1>9, <2>2, SameStacks DEF TrapsInv
<1>11. FramesInv'
  <2>1. \A t \in Task, i \in Nat : CallAt(stack'[t], i) <=> CallAt(stack[t], i)
    BY DEF CallAt
  <2>2. ASSUME NEW t \in Task, NEW i \in Nat, CallAt(stack[t], i)
        PROVE  (Alive(stack[t][i].ctx) /\ ctx[stack[t][i].ctx].pc = "callWait" /\ ~IsHand(stack[t][i].ctx))'
    <3>1. Alive(stack[t][i].ctx) /\ ctx[stack[t][i].ctx].pc = "callWait" /\ ~IsHand(stack[t][i].ctx)
      BY <2>2 DEF TrapsInv, FramesInv
    <3> QED
      BY <1>1, <1>9, <2>2, <3>1 DEF Alive, IsHand
  <2>3. \A t, u \in Task, i, j \in Nat : CallAt(stack[t], i) /\ CallAt(stack[u], j) /\ stack[t][i].ctx = stack[u][j].ctx => t = u /\ i = j
    BY DEF TrapsInv, FramesInv
  <2> QED
    BY <2>1, <2>2, <2>3 DEF FramesInv
<1>12. EnteredInv'
  <2>1. \A t \in Task : HandOf(t)' = HandOf(t)
    BY <1>1 DEF HandOf
  <2> QED
    BY <1>1, <2>1 DEF TrapsInv, EnteredInv
<1>13. KeepsAlive
  BY DEF KeepsAlive, Alive
<1> QED
  BY <1>13, <1>4, <1>5, <1>6, <1>7, <1>8, <1>10, <1>11, <1>12 DEF TrapsInv
(* Trap threads' steps: all but the last need the 68k state in hand.         *)
LEMMA AwakeIsHand ==
  ASSUME TrapsInv, NEW c \in Ctx, Alive(c),
         ctx[c].pc \notin {"callWait", "finishing", "exited"} \/ ~Asleep(c)
  PROVE  emu = "handoff" /\ c = emuCtx /\ Works(c) /\ ctx[c].regs.task = Self
<1>1. InHand /\ c = Hand
  BY DEF TrapsInv, SleepInv, IsHand
<1>2. emu = "handoff"
  <2>1. CASE emu = "handoff"
    BY <2>1
  <2>2. CASE emu # "handoff"
    <3>1. Asleep(Hand) /\ (emu = "run" \/ emu = "join")
      BY <1>1, <2>2 DEF TrapsInv, HandInv, InHand
    <3>2. ctx[Hand].pc \in {"callWait", "finishing", "exited"}
      BY <1>1, <2>2, <3>1 DEF TrapsInv, HandInv, InHand
    <3> QED
      BY <1>1, <3>1, <3>2
  <2> QED
    BY <2>1, <2>2
<1> QED
  BY <1>1, <1>2 DEF TrapsInv, HandInv, Hand

(* So every step of a trap's thread keeps the invariant, but for its end.    *)
LEMMA ThreadKeeps ==
  ASSUME TrapsInv, NEW c \in Ctx, ThreadStep(c), ~ThreadEnds(c)
  PROVE  TrapsInv' /\ KeepsAlive
<1> DEFINE d == ctx'[c]
<1>1. TypeOK /\ ctx \in [Ctx -> Context \cup {None}]
  BY DEF TrapsInv, TypeOK
<1>2. Alive(c) /\ (ctx[c].pc \notin {"callWait", "finishing", "exited"} \/ ~Asleep(c))
  <2>1. Alive(c)
    BY DEF ThreadStep, ThreadEnds, StartHandler, HandlerCalls, Call68k, CallReturns, CallUnlock, HandlerReturns, ThreadExits, At
  <2>2. ctx[c].switch_to_trap \in 0..1
    BY <1>1, <2>1, CtxIs
  <2> QED
    BY <2>1, <2>2 DEF ThreadStep, ThreadEnds, StartHandler, HandlerCalls, Call68k, CallReturns, CallUnlock, HandlerReturns, ThreadExits, At, Asleep
<1>3. emu = "handoff" /\ c = emuCtx /\ Works(c) /\ ctx[c].regs.task = Self
  BY <1>2, AwakeIsHand
<1>4. /\ regs' = regs /\ parked' = parked /\ stack' = stack /\ emu' = emu /\ emuCtx' = emuCtx
      /\ entered' = entered /\ resets' = resets
  BY DEF ThreadStep, ThreadEnds, StartHandler, HandlerCalls, Call68k, CallReturns, CallUnlock, HandlerReturns, ThreadExits,
     cpuVars, emuVars, lockVars
<1>5. ctx[c] \in Context /\ ctx[c].regs \in Regs
  BY <1>1, <1>2, CtxIs
<1>6. 0 \in 0..1 /\ 1 \in 0..1 /\ mutex \in 0..1 /\ current \in Value /\ c \in Value /\ c # None
  BY <1>1, TrapsAssumption DEF TypeOK, Value
<1>7. Hand = c /\ Masked(ctx[c].regs)
  BY <1>2, <1>3 DEF Hand, TrapsInv, MutexInv
<1>8. ASSUME NEW e \in Context, ctx' = [ctx EXCEPT ![c] = e]
      PROVE  d = e /\ ctx' \in [Ctx -> Context \cup {None}] /\ Alive(c)' /\ \A b \in Ctx : b # c => ctx'[b] = ctx[b]
  <2>1. e # None
    BY NoneAssumption
  <2> QED
    BY <1>1, <1>8, <2>1 DEF Alive
<1>9. CASE StartHandler(c)
  <2> DEFINE e == [ctx[c] EXCEPT !.pc = "handler", !.switch_to_trap = 0]
  <2>1. ctx[c].pc = "start" /\ ctx[c].switch_to_trap = 1 /\ ctx[c].switch_to_emu = 0
    BY <1>3, <1>9 DEF StartHandler, At, Works, Asleep, AsksTrap, AsksEmu
  <2>2. ctx' = [ctx EXCEPT ![c] = e]
    BY <1>1, <1>5, <1>9, <2>1 DEF StartHandler, Context
  <2>3. e \in Context
    BY <1>5, <1>6 DEF Context, ThreadPC
  <2>4. /\ e.pc = "handler" /\ e.switch_to_emu = 0 /\ e.switch_to_trap = 0
        /\ e.saved_regs = ctx[c].saved_regs /\ e.regs = ctx[c].regs
    BY <1>5, <2>1 DEF Context
  <2>5. mutex' = mutex /\ current' = current
    BY <1>9 DEF StartHandler, lockVars
  <2> HIDE DEF e
  <2>6. /\ d = e /\ ctx' \in [Ctx -> Context \cup {None}] /\ Alive(c)' /\ \A b \in Ctx : b # c => ctx'[b] = ctx[b]
    BY <1>8, <2>2, <2>3
  <2>7. Works(c)' /\ ~AsksEmu(c)' /\ Masked(d.regs) /\ d.regs.task = Self
    BY <1>3, <1>7, <2>4, <2>6 DEF Works, Asleep, AsksEmu, Masked
  <2>9. mutex' \in 0..1 /\ current' \in Value
    BY <1>6, <2>5
  <2> QED
    BY <1>3, <1>4, <2>1, <2>4, <2>5, <2>6, <2>7, <2>9, HandoffStep
<1>10. CASE HandlerCalls(c)
  <2> DEFINE e == [ctx[c] EXCEPT !.pc = "callLock"]
  <2>1. ctx[c].switch_to_trap = 0 /\ ctx[c].switch_to_emu = 0
    BY <1>3, <1>10 DEF HandlerCalls, At, Works, Asleep
  <2>2. ctx' = [ctx EXCEPT ![c] = e]
    BY <1>1, <1>5, <1>10, <2>1 DEF HandlerCalls, Context
  <2>3. e \in Context
    BY <1>5, <1>6 DEF Context, ThreadPC
  <2>4. /\ e.pc = "callLock" /\ e.switch_to_emu = 0 /\ e.switch_to_trap = 0
        /\ e.saved_regs = ctx[c].saved_regs /\ e.regs = ctx[c].regs
    BY <1>5, <2>1 DEF Context
  <2>5. mutex' = mutex /\ current' = current
    BY <1>10 DEF HandlerCalls, lockVars
  <2> HIDE DEF e
  <2>6. /\ d = e /\ ctx' \in [Ctx -> Context \cup {None}] /\ Alive(c)' /\ \A b \in Ctx : b # c => ctx'[b] = ctx[b]
    BY <1>8, <2>2, <2>3
  <2>7. Works(c)' /\ ~AsksEmu(c)' /\ Masked(d.regs) /\ d.regs.task = Self
    BY <1>3, <1>7, <2>4, <2>6 DEF Works, Asleep, AsksEmu, Masked
  <2>9. mutex' \in 0..1 /\ current' \in Value
    BY <1>6, <2>5
  <2> QED
    BY <1>3, <1>4, <2>1, <2>4, <2>5, <2>6, <2>7, <2>9, HandoffStep
<1>11. CASE Call68k(c)
  <2> DEFINE g == [ctx[c].regs EXCEPT !.mask = 7, !.at = "callTrap"]
             e == [ctx[c] EXCEPT !.pc = "callWait", !.func_addr = c, !.switch_to_emu = 1, !.regs = g]
  <2>1. ctx[c].switch_to_trap = 0 /\ ctx[c].switch_to_emu = 0
    BY <1>3, <1>11 DEF Call68k, At, Works, Asleep
  <2>2. ctx' = [ctx EXCEPT ![c] = e]
    BY <1>1, <1>5, <1>11, <2>1 DEF Call68k, Context, Regs
  <2>8. g \in Regs /\ g.task = Self /\ g.at = "callTrap" /\ g.mask = 7
    BY <1>3, <1>5 DEF Regs
  <2> HIDE DEF g
  <2>3. e \in Context
    BY <1>5, <1>6, <2>8 DEF Context, ThreadPC
  <2>4. /\ e.pc = "callWait" /\ e.switch_to_emu = 1 /\ e.switch_to_trap = 0
        /\ e.saved_regs = ctx[c].saved_regs /\ e.regs = g /\ e.func_addr = c
    BY <1>5, <2>1 DEF Context
  <2>5. mutex' = 0 /\ current' = c
    BY <1>6, <1>11 DEF Call68k
  <2> HIDE DEF e
  <2>6. /\ d = e /\ ctx' \in [Ctx -> Context \cup {None}] /\ Alive(c)' /\ \A b \in Ctx : b # c => ctx'[b] = ctx[b]
    BY <1>8, <2>2, <2>3
  <2>7. Works(c)' /\ AsksEmu(c)' /\ Masked(d.regs) /\ d.regs.task = Self
    BY <1>3, <1>7, <2>4, <2>6, <2>8 DEF Works, Asleep, AsksEmu, Masked
  <2>9. mutex' \in 0..1 /\ current' \in Value
    BY <1>6, <2>5
  <2> QED
    BY <1>3, <1>4, <2>1, <2>4, <2>5, <2>6, <2>7, <2>9, HandoffStep
<1>12. CASE CallReturns(c)
  <2> DEFINE e == [ctx[c] EXCEPT !.pc = "callDone", !.switch_to_trap = 0]
  <2>1. ctx[c].pc = "callWait" /\ ctx[c].switch_to_trap = 1 /\ ctx[c].switch_to_emu = 0
    BY <1>3, <1>12 DEF CallReturns, At, Works, Asleep, AsksTrap, AsksEmu
  <2>2. ctx' = [ctx EXCEPT ![c] = e]
    BY <1>1, <1>5, <1>12, <2>1 DEF CallReturns, Context
  <2>3. e \in Context
    BY <1>5, <1>6 DEF Context, ThreadPC
  <2>4. /\ e.pc = "callDone" /\ e.switch_to_emu = 0 /\ e.switch_to_trap = 0
        /\ e.saved_regs = ctx[c].saved_regs /\ e.regs = ctx[c].regs /\ e.call_retval = ctx[c].call_retval
    BY <1>5, <2>1 DEF Context
  <2>5. mutex' = 0 /\ current' = current /\ ctx[c].call_retval = c
    BY <1>2, <1>3, <1>7, <1>12, <2>1 DEF CallReturns, lockVars, TrapsInv, MutexInv, ValueInv
  <2> HIDE DEF e
  <2>6. /\ d = e /\ ctx' \in [Ctx -> Context \cup {None}] /\ Alive(c)' /\ \A b \in Ctx : b # c => ctx'[b] = ctx[b]
    BY <1>8, <2>2, <2>3
  <2>7. Works(c)' /\ ~AsksEmu(c)' /\ Masked(d.regs) /\ d.regs.task = Self
    BY <1>3, <1>7, <2>4, <2>6 DEF Works, Asleep, AsksEmu, Masked
  <2>9. mutex' \in 0..1 /\ current' \in Value
    BY <1>6, <2>5
  <2> QED
    BY <1>3, <1>4, <2>1, <2>4, <2>5, <2>6, <2>7, <2>9, HandoffStep
<1>13. CASE CallUnlock(c)
  <2> DEFINE e == [ctx[c] EXCEPT !.pc = "handler"]
  <2>1. ctx[c].switch_to_trap = 0 /\ ctx[c].switch_to_emu = 0 /\ mutex = 0
    BY <1>3, <1>7, <1>13 DEF CallUnlock, At, Works, Asleep, TrapsInv, MutexInv
  <2>2. ctx' = [ctx EXCEPT ![c] = e]
    BY <1>1, <1>5, <1>13, <2>1 DEF CallUnlock, Context
  <2>3. e \in Context
    BY <1>5, <1>6 DEF Context, ThreadPC
  <2>4. /\ e.pc = "handler" /\ e.switch_to_emu = 0 /\ e.switch_to_trap = 0
        /\ e.saved_regs = ctx[c].saved_regs /\ e.regs = ctx[c].regs
    BY <1>5, <2>1 DEF Context
  <2>5. mutex' = 1 /\ current' = current
    BY <1>13, <2>1 DEF CallUnlock
  <2> HIDE DEF e
  <2>6. /\ d = e /\ ctx' \in [Ctx -> Context \cup {None}] /\ Alive(c)' /\ \A b \in Ctx : b # c => ctx'[b] = ctx[b]
    BY <1>8, <2>2, <2>3
  <2>7. Works(c)' /\ ~AsksEmu(c)' /\ Masked(d.regs) /\ d.regs.task = Self
    BY <1>3, <1>7, <2>4, <2>6 DEF Works, Asleep, AsksEmu, Masked
  <2>9. mutex' \in 0..1 /\ current' \in Value
    BY <1>6, <2>5
  <2> QED
    BY <1>3, <1>4, <2>1, <2>4, <2>5, <2>6, <2>7, <2>9, HandoffStep
<1>14. CASE HandlerReturns(c)
  <2> DEFINE e == [ctx[c] EXCEPT !.pc = "exitLock", !.trap_retval = c]
  <2>1. ctx[c].switch_to_trap = 0 /\ ctx[c].switch_to_emu = 0
    BY <1>3, <1>14 DEF HandlerReturns, At, Works, Asleep
  <2>2. ctx' = [ctx EXCEPT ![c] = e]
    BY <1>1, <1>5, <1>14, <2>1 DEF HandlerReturns, Context
  <2>3. e \in Context
    BY <1>5, <1>6 DEF Context, ThreadPC
  <2>4. /\ e.pc = "exitLock" /\ e.switch_to_emu = 0 /\ e.switch_to_trap = 0
        /\ e.saved_regs = ctx[c].saved_regs /\ e.regs = ctx[c].regs /\ e.trap_retval = c
    BY <1>5, <2>1 DEF Context
  <2>5. mutex' = mutex /\ current' = current
    BY <1>14 DEF HandlerReturns, lockVars
  <2> HIDE DEF e
  <2>6. /\ d = e /\ ctx' \in [Ctx -> Context \cup {None}] /\ Alive(c)' /\ \A b \in Ctx : b # c => ctx'[b] = ctx[b]
    BY <1>8, <2>2, <2>3
  <2>7. Works(c)' /\ ~AsksEmu(c)' /\ Masked(d.regs) /\ d.regs.task = Self
    BY <1>3, <1>7, <2>4, <2>6 DEF Works, Asleep, AsksEmu, Masked
  <2>9. mutex' \in 0..1 /\ current' \in Value
    BY <1>6, <2>5
  <2> QED
    BY <1>3, <1>4, <2>1, <2>4, <2>5, <2>6, <2>7, <2>9, HandoffStep
<1>15. CASE ThreadExits(c)
  <2> DEFINE g == [ctx[c].regs EXCEPT !.mask = 7, !.at = "exitTrap"]
             e == [ctx[c] EXCEPT !.pc = "finishing", !.switch_to_emu = 1, !.regs = g]
  <2>1. ctx[c].switch_to_trap = 0 /\ ctx[c].switch_to_emu = 0 /\ ctx[c].trap_retval = c
    BY <1>2, <1>3, <1>15 DEF ThreadExits, At, Works, Asleep, TrapsInv, ValueInv
  <2>2. ctx' = [ctx EXCEPT ![c] = e]
    BY <1>1, <1>5, <1>15, <2>1 DEF ThreadExits, Context, Regs
  <2>8. g \in Regs /\ g.task = Self /\ g.at = "exitTrap" /\ g.mask = 7
    BY <1>3, <1>5 DEF Regs
  <2> HIDE DEF g
  <2>3. e \in Context
    BY <1>5, <1>6, <2>8 DEF Context, ThreadPC
  <2>4. /\ e.pc = "finishing" /\ e.switch_to_emu = 1 /\ e.switch_to_trap = 0
        /\ e.saved_regs = ctx[c].saved_regs /\ e.regs = g /\ e.trap_retval = ctx[c].trap_retval
    BY <1>5, <2>1 DEF Context
  <2>5. mutex' = 0 /\ current' = c
    BY <1>6, <1>15 DEF ThreadExits
  <2> HIDE DEF e
  <2>6. /\ d = e /\ ctx' \in [Ctx -> Context \cup {None}] /\ Alive(c)' /\ \A b \in Ctx : b # c => ctx'[b] = ctx[b]
    BY <1>8, <2>2, <2>3
  <2>7. Works(c)' /\ AsksEmu(c)' /\ Masked(d.regs) /\ d.regs.task = Self
    BY <1>3, <1>7, <2>4, <2>6, <2>8 DEF Works, Asleep, AsksEmu, Masked
  <2>9. mutex' \in 0..1 /\ current' \in Value
    BY <1>6, <2>5
  <2> QED
    BY <1>3, <1>4, <2>1, <2>4, <2>5, <2>6, <2>7, <2>9, HandoffStep
<1> QED
  BY <1>9, <1>10, <1>11, <1>12, <1>13, <1>14, <1>15 DEF ThreadStep
(* The last step of a thread needs nothing: the context may even have been   *)
(* left behind by a reset.                                                   *)
LEMMA ThreadEndsKeeps ==
  ASSUME TrapsInv, NEW c \in Ctx, ThreadEnds(c)
  PROVE  TrapsInv' /\ KeepsAlive
<1> DEFINE e == [ctx[c] EXCEPT !.pc = "exited"]
<1>1. TypeOK /\ ctx \in [Ctx -> Context \cup {None}] /\ Alive(c) /\ ctx[c].pc = "finishing"
  BY DEF TrapsInv, TypeOK, ThreadEnds, At
<1>2. /\ regs' = regs /\ parked' = parked /\ stack' = stack /\ emu' = emu /\ emuCtx' = emuCtx
      /\ entered' = entered /\ resets' = resets /\ mutex' = mutex /\ current' = current
  BY DEF ThreadEnds, cpuVars, emuVars, lockVars
<1>3. ctx[c] \in Context
  BY <1>1, CtxIs
<1>4. ctx' = [ctx EXCEPT ![c] = e]
  BY <1>1 DEF ThreadEnds
<1>5. e \in Context
  BY <1>3 DEF Context, ThreadPC
<1>6. e.pc = "exited" /\ \A x \in {"regs", "saved_regs", "has_retval", "func_addr", "call_retval", "trap_retval",
                                   "switch_to_emu", "switch_to_trap"} : e[x] = ctx[c][x]
  BY <1>3 DEF Context
<1>7. /\ e.regs = ctx[c].regs /\ e.saved_regs = ctx[c].saved_regs /\ e.trap_retval = ctx[c].trap_retval
      /\ e.switch_to_emu = ctx[c].switch_to_emu /\ e.switch_to_trap = ctx[c].switch_to_trap
  BY <1>6
<1>8. e # None
  BY <1>5, NoneAssumption
<1> HIDE DEF e
<1>9. ctx' \in [Ctx -> Context \cup {None}] /\ ctx'[c] = e /\ \A b \in Ctx : b # c => ctx'[b] = ctx[b]
  BY <1>1, <1>4, <1>5
<1>10. \A b \in Ctx : /\ Alive(b)' <=> Alive(b)
                      /\ ctx'[b].regs = ctx[b].regs /\ ctx'[b].saved_regs = ctx[b].saved_regs
                      /\ Asleep(b)' <=> Asleep(b)
                      /\ AsksEmu(b)' <=> AsksEmu(b)
                      /\ AsksTrap(b)' <=> AsksTrap(b)
  BY <1>1, <1>7, <1>8, <1>9 DEF Alive, Asleep, AsksEmu, AsksTrap
<1>11. \A b \in Ctx : ctx'[b].pc = ctx[b].pc \/ (ctx[b].pc = "finishing" /\ ctx'[b].pc = "exited")
  BY <1>1, <1>6, <1>9
<1>12. (InHand' <=> InHand) /\ Hand' = Hand /\ Self' = Self /\ \A b \in Ctx : IsHand(b)' <=> IsHand(b)
  BY <1>2 DEF InHand, Hand, Self, IsHand
<1>13. TypeOK'
  BY <1>1, <1>2, <1>9 DEF TypeOK
<1>14. HandInv'
  <2> SUFFICES ASSUME InHand PROVE HandInv'
    BY <1>12 DEF HandInv
  <2>0. Hand \in Ctx /\ Alive(Hand)
    BY DEF TrapsInv, HandInv
  <2>1. Hand \in Ctx /\ Alive(Hand)'
    BY <1>10, <1>12, <2>0 DEF Alive
  <2>2. emu = "handoff" => Works(Hand)'
    <3> SUFFICES ASSUME emu = "handoff" PROVE Works(Hand)'
      OBVIOUS
    <3>1. Works(Hand)
      BY DEF TrapsInv, HandInv
    <3>2. CASE Hand = c
      BY <1>1, <1>7, <1>6, <1>9, <1>10, <1>12, <2>1, <3>1, <3>2 DEF Works
    <3>3. CASE Hand # c
      BY <1>9, <1>10, <1>12, <2>1, <3>1, <3>3 DEF Works
    <3> QED
      BY <3>2, <3>3
  <2>3. emu = "handoff" => ctx'[Hand].regs.task = Self
    BY <1>10, <2>1 DEF TrapsInv, HandInv
  <2>4. emu # "handoff" => Asleep(Hand)'
    BY <1>10, <1>12, <2>1 DEF TrapsInv, HandInv, Asleep
  <2>5. emu = "run" /\ regs.at = "callTrap" => ctx'[Hand].pc = "callWait"
    BY <1>11, <2>1 DEF TrapsInv, HandInv
  <2>6. (emu = "run" /\ regs.at = "exitTrap") \/ emu = "join" => ctx'[Hand].pc \in {"finishing", "exited"}
    BY <1>11, <2>1 DEF TrapsInv, HandInv
  <2> QED
    BY <1>2, <1>12, <2>1, <2>2, <2>3, <2>4, <2>5, <2>6 DEF HandInv
<1>15. SleepInv'
  BY <1>10, <1>11, <1>12 DEF TrapsInv, SleepInv
<1>16. MutexInv'
  <2>1. \A b \in Ctx : Alive(b)' => Masked(ctx'[b].regs)
    BY <1>10 DEF TrapsInv, MutexInv
  <2>2. emu = "handoff" /\ ctx'[Hand].pc \in {"callWait", "callDone", "finishing", "exited"} => mutex = 0
    <3> SUFFICES ASSUME emu = "handoff" PROVE ctx'[Hand].pc \in {"callWait", "callDone", "finishing", "exited"} => mutex = 0
      OBVIOUS
    <3>1. Hand \in Ctx
      BY DEF TrapsInv, HandInv, InHand
    <3> QED
      BY <1>11, <3>1 DEF TrapsInv, MutexInv
  <2>3. emu = "handoff" /\ AsksEmu(Hand)' => current = Hand
    <3> SUFFICES ASSUME emu = "handoff" PROVE AsksEmu(Hand)' => current = Hand
      OBVIOUS
    <3>1. Hand \in Ctx
      BY DEF TrapsInv, HandInv, InHand
    <3> QED
      BY <1>10, <1>12, <3>1 DEF TrapsInv, MutexInv, AsksEmu
  <2> QED
    BY <1>2, <1>12, <2>1, <2>2, <2>3 DEF TrapsInv, MutexInv
<1>17. ValueInv'
  <2> SUFFICES ASSUME NEW b \in Ctx, Alive(b)'
               PROVE  (/\ ctx[b].saved_regs.at \in {"code", "func"}
                       /\ ctx[b].pc = "callWait" => ctx[b].func_addr = b
                       /\ ctx[b].pc = "callDone" \/ (ctx[b].pc = "callWait" /\ ctx[b].switch_to_trap = 1) => ctx[b].call_retval = b
                       /\ ctx[b].pc \in {"exitLock", "finishing", "exited"} => ctx[b].trap_retval = b)'
    BY DEF ValueInv
  <2>1. CASE b = c
    BY <1>1, <1>6, <1>7, <1>9, <2>1 DEF TrapsInv, ValueInv
  <2>2. CASE b # c
    BY <1>9, <1>10, <2>2 DEF TrapsInv, ValueInv
  <2> QED
    BY <2>1, <2>2
<1>18. ASSUME NEW t \in Task, NEW i \in Nat, CallAt(stack[t], i)
       PROVE  stack[t][i].ctx \in Ctx /\ stack[t][i].ctx # c
  BY <1>1, <1>18, FrameIs DEF TrapsInv, FramesInv
<1>19. StackInv'
  <2>1. ASSUME NEW t \in Task PROVE Top(t)' = Top(t)
    <3>1. InHand => Hand \in Ctx
      BY DEF TrapsInv, HandInv
    <3> QED
      BY <1>2, <1>10, <1>12, <3>1 DEF Top
  <2>2. \A t \in Task : Fits(Top(t)', t, stack[t], 1)
    BY <2>1 DEF TrapsInv, StackInv
  <2> QED
    BY <1>2, <1>10, <1>18, <2>2, SameStacks DEF TrapsInv
<1>20. FramesInv'
  <2>1. ASSUME NEW t \in Task, NEW i \in Nat, CallAt(stack[t], i)
        PROVE  (Alive(stack[t][i].ctx) /\ ctx[stack[t][i].ctx].pc = "callWait" /\ ~IsHand(stack[t][i].ctx))'
    <3>1. Alive(stack[t][i].ctx) /\ ctx[stack[t][i].ctx].pc = "callWait" /\ ~IsHand(stack[t][i].ctx)
      BY <2>1 DEF TrapsInv, FramesInv
    <3> QED
      BY <1>2, <1>9, <1>12, <1>18, <2>1, <3>1 DEF Alive, IsHand
  <2>2. \A t, u \in Task, i, j \in Nat : CallAt(stack[t], i) /\ CallAt(stack[u], j) /\ stack[t][i].ctx = stack[u][j].ctx => t = u /\ i = j
    BY DEF TrapsInv, FramesInv
  <2> QED
    BY <1>2, <2>1, <2>2 DEF FramesInv
<1>21. EnteredInv'
  BY <1>2, <1>12 DEF TrapsInv, EnteredInv, HandOf
<1>22. KeepsAlive
  BY <1>10 DEF KeepsAlive
<1> QED
  BY <1>22, <1>13, <1>14, <1>15, <1>16, <1>17, <1>19, <1>20, <1>21 DEF TrapsInv
-----------------------------------------------------------------------------
(* The emulator thread's steps. While it interprets, and while it waits for  *)
(* the mutex, every context sleeps in the middle of a call or at its end.    *)
LEMMA AllAsleep ==
  ASSUME TrapsInv, emu # "handoff", NEW c \in Ctx, Alive(c)
  PROVE  ctx[c].pc \in {"callWait", "finishing", "exited"} /\ Asleep(c)
<1>1. CASE ~IsHand(c)
  BY <1>1 DEF TrapsInv, SleepInv
<1>2. CASE IsHand(c)
  <2>1. InHand /\ c = Hand
    BY <1>2 DEF IsHand
  <2>2. Asleep(c)
    BY <2>1 DEF TrapsInv, HandInv
  <2>3. (emu = "run" /\ regs.at = "callTrap") \/ (emu = "run" /\ regs.at = "exitTrap") \/ emu = "join"
    BY <2>1 DEF InHand
  <2> QED
    BY <2>1, <2>2, <2>3 DEF TrapsInv, HandInv
<1> QED
  BY <1>1, <1>2

(* A step after which the interpreter is at neither trap, the contexts       *)
(* untouched: what concerns the stacks is proved step by step.               *)
LEMMA RunStep ==
  ASSUME TrapsInv, emu \in {"run", "returnLock"}, ctx' = ctx, emuCtx' = emuCtx, current' = current,
         emu' \in {"run", "returnLock"}, emu' = "returnLock" => regs'.at = "returnTrap",
         regs'.at \notin {"callTrap", "exitTrap"}, regs' \in Regs,
         parked' \in [Task -> Regs], stack' \in [Task -> Seq(Frame)], mutex' \in 0..1,
         entered' \in [Task -> Seq(Ctx)], resets' \in 0..MaxResets
  PROVE  ~InHand' /\ TypeOK' /\ HandInv' /\ SleepInv' /\ MutexInv' /\ ValueInv'
<1>1. ~InHand'
  BY DEF InHand
<1>2. TypeOK'
  BY DEF TrapsInv, TypeOK
<1>3. HandInv'
  BY <1>1 DEF HandInv
<1>4. SleepInv'
  <2> SUFFICES ASSUME NEW c \in Ctx, Alive(c)'
               PROVE  (ctx[c].pc \in {"callWait", "finishing", "exited"} /\ Asleep(c))'
    BY DEF SleepInv
  <2>1. Alive(c)
    BY DEF Alive
  <2>2. ctx[c].pc \in {"callWait", "finishing", "exited"} /\ Asleep(c)
    BY <2>1, AllAsleep
  <2> QED
    BY <2>2 DEF Asleep
<1>5. MutexInv'
  <2>1. \A c \in Ctx : Alive(c)' => Masked(ctx'[c].regs)
    BY DEF TrapsInv, MutexInv, Alive
  <2>2. Masked(regs')
    BY DEF Masked
  <2> QED
    BY <1>1, <2>1, <2>2 DEF MutexInv
<1>6. ValueInv'
  BY DEF TrapsInv, ValueInv, Alive
<1> QED
  BY <1>1, <1>2, <1>3, <1>4, <1>5, <1>6

(* Stacks with a frame more or less for the running task.                    *)
LEMMA StackPushed ==
  ASSUME TypeOK, StackInv, NEW f \in Frame, stack' = [stack EXCEPT ![Self] = <<f>> \o @],
         \A t \in Task : Fits(Top(t)', t, stack'[t], 1),
         Fits(Below(f)', Self, stack[Self], 1), ctx' = ctx
  PROVE  StackInv' /\ stack' \in [Task -> Seq(Frame)]
<1> DEFINE s == stack[Self]
<1>1. Self \in Task /\ stack \in [Task -> Seq(Frame)] /\ s \in Seq(Frame)
  BY DEF TypeOK, Regs, Self
<1>2. /\ <<f>> \o s \in Seq(Frame) /\ Len(<<f>> \o s) = Len(s) + 1 /\ Len(s) \in Nat
      /\ (<<f>> \o s)[1] = f /\ \A i \in 1..Len(s) : (<<f>> \o s)[i + 1] = s[i]
  BY <1>1, PushIs
<1>3. stack'[Self] = <<f>> \o s /\ \A t \in Task : t # Self => stack'[t] = stack[t]
  BY <1>1
<1>4. stack' \in [Task -> Seq(Frame)]
  BY <1>1, <1>2
<1>5. \A g : Below(g)' = Below(g)
  BY DEF Below
<1>6. ASSUME NEW t \in Task, NEW i \in 1..Len(stack'[t]) PROVE Fits(Below(stack[t][i])', t, stack'[t], i + 1)
  <2>1. CASE t # Self
    BY <1>3, <1>5, <1>6, <2>1 DEF StackInv
  <2>2. CASE t = Self /\ i = 1
    <3>1. Fits(Below(f)', Self, <<f>> \o s, 1 + 1)
      BY <1>1, FitsPushed
    <3>2. Below(stack[t][i])' = Below(f)'
      BY <1>2, <1>3, <1>5, <2>2
    <3> QED
      BY <1>3, <2>2, <3>1, <3>2
  <2>3. CASE t = Self /\ i # 1
    <3> DEFINE k == i - 1
    <3>1. k \in 1..Len(s) /\ i = k + 1 /\ k + 1 \in Nat \ {0}
      BY <1>2, <1>3, <1>6, <2>3
    <3> HIDE DEF k
    <3>2. Fits(Below(s[k]), Self, s, k + 1)
      BY <1>1, <3>1 DEF StackInv
    <3>3. Fits(Below(s[k]), Self, <<f>> \o s, (k + 1) + 1)
      BY <1>1, <3>1, <3>2, FitsPushed
    <3>4. stack'[t][i] = s[k]
      BY <1>2, <1>3, <2>3, <3>1
    <3>5. Below(stack[t][i])' = Below(s[k])
      BY <1>5, <3>4
    <3> QED
      BY <1>3, <2>3, <3>1, <3>3, <3>5
  <2> QED
    BY <2>1, <2>2, <2>3
<1>7. StackInv'
  BY <1>6 DEF StackInv
<1> QED
  BY <1>4, <1>7

(* Taking off the top frame keeps the stacks right, if the registers fit     *)
(* below.                                                                    *)
LEMMA StackPopped ==
  ASSUME TypeOK, StackInv, stack[Self] # <<>>, stack' = [stack EXCEPT ![Self] = Tail(@)],
         \A t \in Task : Fits(Top(t)', t, stack'[t], 1),
         \A t \in Task, i \in Nat : CallAt(stack[t], i) => ctx'[stack[t][i].ctx].saved_regs = ctx[stack[t][i].ctx].saved_regs
  PROVE  StackInv' /\ stack' \in [Task -> Seq(Frame)]
<1> DEFINE s == stack[Self]
<1>1. Self \in Task /\ stack \in [Task -> Seq(Frame)] /\ s \in Seq(Frame)
  BY DEF TypeOK, Regs, Self
<1>2. /\ Tail(s) \in Seq(Frame) /\ Len(s) = Len(Tail(s)) + 1 /\ Len(Tail(s)) \in Nat
      /\ \A i \in 1..Len(Tail(s)) : Tail(s)[i] = s[i + 1]
  BY <1>1, PopIs
<1>3. stack'[Self] = Tail(s) /\ \A t \in Task : t # Self => stack'[t] = stack[t]
  BY <1>1
<1>4. stack' \in [Task -> Seq(Frame)]
  BY <1>1, <1>2
<1>5. ASSUME NEW t \in Task, NEW i \in 1..Len(stack[t]) PROVE Fits(Below(stack[t][i]), t, stack[t], i + 1)
  BY <1>5 DEF StackInv
<1>6. ASSUME NEW t \in Task, NEW i \in 1..Len(stack[t]), NEW g, g = stack[t][i] PROVE Below(g)' = Below(g)
  <2>1. g \in Frame
    BY <1>1, <1>6
  <2>2. CASE g.kind = "irq"
    BY <2>2 DEF Below
  <2>3. CASE g.kind # "irq"
    <3>1. CallAt(stack[t], i) /\ i \in Nat
      BY <1>6, <2>1, <2>3 DEF Frame, CallAt
    <3> QED
      BY <1>6, <2>3, <3>1 DEF Below
  <2> QED
    BY <2>2, <2>3
<1>7. ASSUME NEW t \in Task, NEW i \in 1..Len(stack'[t]) PROVE Fits(Below(stack[t][i])', t, stack'[t], i + 1)
  <2>1. CASE t # Self
    <3>1. stack'[t] = stack[t] /\ i \in 1..Len(stack[t])
      BY <1>3, <1>7, <2>1
    <3> DEFINE g == stack[t][i]
    <3>2. Below(g)' = Below(g)
      BY <1>6, <3>1
    <3>3. Below(stack[t][i])' = Below(stack[t][i])
      BY <3>1, <3>2 DEF Below
    <3> QED
      BY <1>5, <3>1, <3>3
  <2>2. CASE t = Self
    <3>0. i \in 1..Len(Tail(s)) /\ stack'[t] = Tail(s)
      BY <1>3, <1>7, <2>2
    <3>1. i + 1 \in 1..Len(s) /\ stack'[t][i] = s[i + 1] /\ i + 1 \in Nat \ {0}
      <4> DEFINE p == Tail(s)
      <4>1. i \in 1..Len(p) /\ Len(s) = Len(p) + 1 /\ Len(p) \in Nat /\ p[i] = s[i + 1]
        BY <1>2, <3>0
      <4> HIDE DEF p
      <4>2. i + 1 \in 1..Len(s) /\ i + 1 \in Nat \ {0}
        BY <4>1
      <4> QED
        BY <3>0, <4>1, <4>2 DEF p
    <3>2. Fits(Below(s[i + 1]), Self, s, (i + 1) + 1)
      BY <1>1, <1>5, <3>1
    <3>3. Fits(Below(s[i + 1]), Self, Tail(s), i + 1)
      BY <1>1, <3>1, <3>2, FitsPopped
    <3> DEFINE g == s[i + 1]
    <3>4. Below(stack[t][i])' = Below(s[i + 1])
      <4>1. ASSUME NEW h, h = s[i + 1] PROVE Below(h)' = Below(h)
        BY <1>1, <1>6, <3>1, <4>1
      <4> QED
        BY <3>1, <4>1 DEF Below
    <3> QED
      BY <1>3, <2>2, <3>3, <3>4
  <2> QED
    BY <2>1, <2>2
<1>8. StackInv'
  BY <1>7 DEF StackInv
<1> QED
  BY <1>4, <1>8
FrameOK(c) == Alive(c) /\ ctx[c].pc = "callWait" /\ ~IsHand(c)
OnStack(c) == \E t \in Task, i \in Nat : CallAt(stack[t], i) /\ stack[t][i].ctx = c

(* The context of a frame on a stack sleeps in its call, ...                 *)
LEMMA FramesOK ==
  ASSUME FramesInv, NEW c \in Ctx, OnStack(c)
  PROVE  FrameOK(c)
BY DEF FramesInv, FrameOK, OnStack

(* ... and has that one frame only.                                          *)
LEMMA FramesUnique ==
  ASSUME FramesInv, NEW t \in Task, NEW u \in Task, NEW i \in Nat, NEW j \in Nat,
         CallAt(stack[t], i), CallAt(stack[u], j), stack[t][i].ctx = stack[u][j].ctx
  PROVE  t = u /\ i = j
BY DEF FramesInv

(* The frames stay right while the stacks stay as they are, ...              *)
LEMMA FramesSame ==
  ASSUME TypeOK, FramesInv, stack' = stack, \A c \in Ctx : OnStack(c) => FrameOK(c)'
  PROVE  FramesInv'
<1>1. ASSUME NEW t \in Task, NEW i \in Nat, CallAt(stack[t], i)
      PROVE  (Alive(stack[t][i].ctx) /\ ctx[stack[t][i].ctx].pc = "callWait" /\ ~IsHand(stack[t][i].ctx))'
  <2>1. PICK c \in Ctx : c = stack[t][i].ctx
    BY <1>1, FrameIs
  <2>2. FrameOK(c)'
    BY <1>1, <2>1 DEF OnStack
  <2> QED
    BY <2>1, <2>2 DEF FrameOK, Alive, IsHand
<1>2. \A t, u \in Task, i, j \in Nat : CallAt(stack[t], i) /\ CallAt(stack[u], j) /\ stack[t][i].ctx = stack[u][j].ctx => t = u /\ i = j
  BY DEF FramesInv
<1> QED
  BY <1>1, <1>2 DEF FramesInv

(* ... when one is put on top, ...                                           *)
LEMMA FramesPushed ==
  ASSUME TypeOK, FramesInv, NEW f \in Frame, stack' = [stack EXCEPT ![Self] = <<f>> \o @],
         \A c \in Ctx : OnStack(c) => FrameOK(c)',
         f.kind = "call" => FrameOK(f.ctx)' /\ ~OnStack(f.ctx)
  PROVE  FramesInv'
<1> DEFINE s == stack[Self]
           k(t, i) == IF t = Self THEN i - 1 ELSE i
           new(t, i) == t = Self /\ i = 1 /\ f.kind = "call"
<1>1. Self \in Task /\ stack \in [Task -> Seq(Frame)] /\ s \in Seq(Frame)
  BY DEF TypeOK, Regs, Self
<1>2. /\ Len(<<f>> \o s) = Len(s) + 1 /\ Len(s) \in Nat
      /\ (<<f>> \o s)[1] = f /\ \A i \in 1..Len(s) : (<<f>> \o s)[i + 1] = s[i]
  BY <1>1, PushIs
<1>3. stack'[Self] = <<f>> \o s /\ \A t \in Task : t # Self => stack'[t] = stack[t]
  BY <1>1
<1>4. ASSUME NEW t \in Task, NEW i \in Nat, CallAt(stack'[t], i), ~new(t, i)
      PROVE  k(t, i) \in Nat /\ CallAt(stack[t], k(t, i)) /\ stack'[t][i] = stack[t][k(t, i)]
  <2>1. CASE t # Self
    BY <1>3, <1>4, <2>1
  <2>2. CASE t = Self
    <3>1. i \in 1..Len(<<f>> \o s) /\ (<<f>> \o s)[i].kind = "call"
      BY <1>3, <1>4, <2>2 DEF CallAt
    <3>2. i # 1
      BY <1>2, <1>4, <2>2, <3>1
    <3>3. i - 1 \in 1..Len(s) /\ (i - 1) + 1 = i
      BY <1>2, <3>1, <3>2
    <3>4. (<<f>> \o s)[i] = s[i - 1]
      BY <1>2, <3>3
    <3>5. k(t, i) = i - 1 /\ i - 1 \in Nat
      BY <2>2, <3>3
    <3>6. stack'[t][i] = s[i - 1] /\ CallAt(s, i - 1)
      BY <1>3, <2>2, <3>1, <3>3, <3>4 DEF CallAt
    <3> QED
      BY <2>2, <3>5, <3>6
  <2> QED
    BY <2>1, <2>2
<1>5. ASSUME NEW t \in Task, NEW i \in Nat, CallAt(stack'[t], i), new(t, i) PROVE stack'[t][i] = f
  BY <1>2, <1>3, <1>5
<1>6. ASSUME NEW t \in Task, NEW i \in Nat, CallAt(stack'[t], i), ~new(t, i)
      PROVE  \E q \in Nat : q = k(t, i) /\ CallAt(stack[t], q) /\ stack'[t][i] = stack[t][q]
  <2>1. k(t, i) \in Nat /\ CallAt(stack[t], k(t, i)) /\ stack'[t][i] = stack[t][k(t, i)]
    BY <1>4, <1>6
  <2> HIDE DEF k, new
  <2> QED
    BY <2>1
<1>7. ASSUME NEW t \in Task, NEW i \in Nat, CallAt(stack'[t], i)
      PROVE  (Alive(stack[t][i].ctx) /\ ctx[stack[t][i].ctx].pc = "callWait" /\ ~IsHand(stack[t][i].ctx))'
  <2>1. CASE new(t, i)
    <3>1. stack'[t][i] = f /\ FrameOK(f.ctx)'
      BY <1>5, <1>7, <2>1
    <3> QED
      BY <3>1 DEF FrameOK, Alive, IsHand
  <2>2. CASE ~new(t, i)
    <3>1. PICK q \in Nat : CallAt(stack[t], q) /\ stack'[t][i] = stack[t][q]
      BY <1>6, <1>7, <2>2
    <3>2. PICK c \in Ctx : c = stack[t][q].ctx
      BY <3>1, FrameIs
    <3>3. FrameOK(c)'
      BY <3>1, <3>2 DEF OnStack
    <3> QED
      BY <3>1, <3>2, <3>3 DEF FrameOK, Alive, IsHand
  <2> QED
    BY <2>1, <2>2
<1>8. ASSUME NEW t \in Task, NEW u \in Task, NEW i \in Nat, NEW j \in Nat,
             CallAt(stack'[t], i), CallAt(stack'[u], j), stack'[t][i].ctx = stack'[u][j].ctx
      PROVE  t = u /\ i = j
  <2>1. CASE new(t, i) /\ new(u, j)
    BY <2>1
  <2>2. CASE new(t, i) /\ ~new(u, j)
    <3>1. PICK q \in Nat : CallAt(stack[u], q) /\ stack'[u][j] = stack[u][q]
      BY <1>6, <1>8, <2>2
    <3>2. stack'[t][i] = f /\ f.kind = "call"
      BY <1>5, <1>8, <2>2
    <3> QED
      BY <1>8, <3>1, <3>2 DEF OnStack
  <2>3. CASE ~new(t, i) /\ new(u, j)
    <3>1. PICK q \in Nat : CallAt(stack[t], q) /\ stack'[t][i] = stack[t][q]
      BY <1>6, <1>8, <2>3
    <3>2. stack'[u][j] = f /\ f.kind = "call"
      BY <1>5, <1>8, <2>3
    <3> QED
      BY <1>8, <3>1, <3>2 DEF OnStack
  <2>4. CASE ~new(t, i) /\ ~new(u, j)
    <3>1. PICK q \in Nat : q = k(t, i) /\ CallAt(stack[t], q) /\ stack'[t][i] = stack[t][q]
      BY <1>6, <1>8, <2>4
    <3>2. PICK r \in Nat : r = k(u, j) /\ CallAt(stack[u], r) /\ stack'[u][j] = stack[u][r]
      BY <1>6, <1>8, <2>4
    <3>3. stack[t][q].ctx = stack[u][r].ctx
      BY <1>8, <3>1, <3>2
    <3>4. t = u /\ q = r
      <4> HIDE DEF k, new
      <4> QED
        BY <3>1, <3>2, <3>3, FramesUnique
    <3> QED
      BY <3>1, <3>2, <3>4
  <2> QED
    BY <2>1, <2>2, <2>3, <2>4
<1> HIDE DEF new, k
<1> QED
  BY ZenonT(40), <1>7, <1>8 DEF FramesInv

(* ... and when one is taken off.                                            *)
LEMMA FramesPopped ==
  ASSUME TypeOK, FramesInv, stack[Self] # <<>>, stack' = [stack EXCEPT ![Self] = Tail(@)],
         \A c \in Ctx : OnStack(c) => FrameOK(c)' \/ (CallAt(stack[Self], 1) /\ stack[Self][1].ctx = c)
  PROVE  FramesInv'
<1> DEFINE s == stack[Self]
           k(t, i) == IF t = Self THEN i + 1 ELSE i
<1>1. Self \in Task /\ stack \in [Task -> Seq(Frame)] /\ s \in Seq(Frame)
  BY DEF TypeOK, Regs, Self
<1>2. /\ Len(s) = Len(Tail(s)) + 1 /\ Len(Tail(s)) \in Nat
      /\ \A i \in 1..Len(Tail(s)) : Tail(s)[i] = s[i + 1]
  BY <1>1, PopIs
<1>3. stack'[Self] = Tail(s) /\ \A t \in Task : t # Self => stack'[t] = stack[t]
  BY <1>1
<1>4. ASSUME NEW t \in Task, NEW i \in Nat, CallAt(stack'[t], i)
      PROVE  k(t, i) \in Nat /\ CallAt(stack[t], k(t, i)) /\ stack'[t][i] = stack[t][k(t, i)] /\ ~(t = Self /\ k(t, i) = 1)
  <2>1. CASE t # Self
    BY <1>3, <1>4, <2>1
  <2>2. CASE t = Self
    <3> DEFINE p == Tail(s)
    <3>1. i \in 1..Len(p) /\ p[i].kind = "call" /\ stack'[t] = p
      BY <1>3, <1>4, <2>2 DEF CallAt
    <3>2. Len(s) = Len(p) + 1 /\ Len(p) \in Nat /\ p[i] = s[i + 1]
      BY <1>2, <3>1
    <3> HIDE DEF p
    <3>3. i + 1 \in 1..Len(s) /\ i + 1 # 1 /\ i + 1 \in Nat
      BY <3>1, <3>2
    <3>4. CallAt(s, i + 1)
      BY <3>1, <3>2, <3>3 DEF CallAt
    <3> QED
      BY <2>2, <3>1, <3>2, <3>3, <3>4
  <2> QED
    BY <2>1, <2>2
<1>5. ASSUME NEW t \in Task, NEW i \in Nat, CallAt(stack'[t], i)
      PROVE  \E q \in Nat : q = k(t, i) /\ CallAt(stack[t], q) /\ stack'[t][i] = stack[t][q] /\ ~(t = Self /\ q = 1)
  <2>1. k(t, i) \in Nat /\ CallAt(stack[t], k(t, i)) /\ stack'[t][i] = stack[t][k(t, i)] /\ ~(t = Self /\ k(t, i) = 1)
    BY <1>4, <1>5
  <2> HIDE DEF k
  <2> QED
    BY <2>1
<1>6. ASSUME NEW t \in Task, NEW i \in Nat, CallAt(stack'[t], i)
      PROVE  (Alive(stack[t][i].ctx) /\ ctx[stack[t][i].ctx].pc = "callWait" /\ ~IsHand(stack[t][i].ctx))'
  <2>1. PICK q \in Nat : /\ q = k(t, i) /\ CallAt(stack[t], q)
                         /\ stack'[t][i] = stack[t][q] /\ ~(t = Self /\ q = 1)
    <3>1. CallAt(stack'[t], i)
      BY <1>6
    <3> HIDE DEF k, s
    <3> QED
      BY ONLY <1>5, <3>1, i \in Nat, t \in Task
  <2>2. PICK c \in Ctx : c = stack[t][q].ctx
    BY <2>1, FrameIs
  <2>3. ~(CallAt(stack[Self], 1) /\ stack[Self][1].ctx = c)
    BY <1>1, <2>1, <2>2, FramesUnique
  <2>4. FrameOK(c)'
    BY <2>1, <2>2, <2>3 DEF OnStack
  <2> QED
    BY <2>1, <2>2, <2>4 DEF FrameOK, Alive, IsHand
<1>7. ASSUME NEW t \in Task, NEW u \in Task, NEW i \in Nat, NEW j \in Nat,
             CallAt(stack'[t], i), CallAt(stack'[u], j), stack'[t][i].ctx = stack'[u][j].ctx
      PROVE  t = u /\ i = j
  <2>1. PICK q \in Nat : q = k(t, i) /\ CallAt(stack[t], q) /\ stack'[t][i] = stack[t][q]
    BY <1>5, <1>7
  <2>2. PICK r \in Nat : r = k(u, j) /\ CallAt(stack[u], r) /\ stack'[u][j] = stack[u][r]
    BY ZenonT(40), <1>5, <1>7
  <2>3. stack[t][q].ctx = stack[u][r].ctx
    BY <1>7, <2>1, <2>2
  <2>4. t = u /\ q = r
    <3> HIDE DEF k
    <3> QED
      BY <2>1, <2>2, <2>3, FramesUnique
  <2> QED
    BY <2>1, <2>2, <2>4
<1>8. \A t \in Task, i \in Nat : CallAt(stack'[t], i) =>
        (Alive(stack[t][i].ctx) /\ ctx[stack[t][i].ctx].pc = "callWait" /\ ~IsHand(stack[t][i].ctx))'
  BY <1>6
<1>9. \A t, u \in Task, i, j \in Nat :
        CallAt(stack'[t], i) /\ CallAt(stack'[u], j) /\ stack'[t][i].ctx = stack'[u][j].ctx => t = u /\ i = j
  BY <1>7
<1> QED
  BY ONLY <1>8, <1>9 DEF FramesInv, CallAt
-----------------------------------------------------------------------------
(* 68k code between traps.                                                   *)
LEMMA OnStackStays ==
  ASSUME TrapsInv, ctx' = ctx, ~InHand'
  PROVE  \A c \in Ctx : OnStack(c) => FrameOK(c)'
BY FramesOK DEF TrapsInv, FrameOK, Alive, IsHand

(* The running task and the parts of the type invariant.                     *)
LEMMA SelfType ==
  ASSUME TypeOK
  PROVE  /\ Self \in Task /\ regs \in Regs /\ parked \in [Task -> Regs] /\ stack \in [Task -> Seq(Frame)]
         /\ entered \in [Task -> Seq(Ctx)] /\ stack[Self] \in Seq(Frame) /\ entered[Self] \in Seq(Ctx)
         /\ mutex \in 0..1 /\ resets \in 0..MaxResets
BY DEF TypeOK, Self, Regs

(* exec's switch to another task.                                            *)
LEMMA SwitchTaskKeeps ==
  ASSUME TrapsInv, NEW t \in Task, SwitchTask(t)
  PROVE  TrapsInv'
<1>1. /\ emu = "run" /\ regs.mask = 0 /\ t # Self /\ parked' = [parked EXCEPT ![Self] = regs] /\ regs' = parked[t]
      /\ stack' = stack /\ emu' = emu /\ emuCtx' = emuCtx /\ mutex' = mutex /\ current' = current
      /\ ctx' = ctx /\ entered' = entered /\ resets' = resets
  BY DEF SwitchTask, emuVars, lockVars
<1>2. TypeOK /\ Self \in Task /\ regs \in Regs /\ parked \in [Task -> Regs] /\ stack \in [Task -> Seq(Frame)]
  BY SelfType DEF TrapsInv
<1>3. ~InHand
  BY <1>1 DEF TrapsInv, MutexInv, Masked, InHand
<1>4. \A u \in Task : Fits(Top(u), u, stack[u], 1)
  BY DEF TrapsInv, StackInv
<1>5. Top(t) = parked[t] /\ Fits(regs', t, stack[t], 1)
  BY <1>1, <1>4 DEF Top
<1>6. regs'.task = t /\ regs'.at \in {"code", "func", "returnTrap"} /\ Self' = t
  BY <1>5 DEF Fits, Self
<1>7. regs' \in Regs /\ parked' \in [Task -> Regs]
  BY <1>1, <1>2
<1>8. ~InHand' /\ TypeOK' /\ HandInv' /\ SleepInv' /\ MutexInv' /\ ValueInv'
  <2>1. /\ stack' \in [Task -> Seq(Frame)] /\ mutex' \in 0..1 /\ entered' \in [Task -> Seq(Ctx)]
        /\ resets' \in 0..MaxResets
    BY <1>1, <1>2, SelfType
  <2>2. regs'.at \notin {"callTrap", "exitTrap"} /\ emu \in {"run", "returnLock"}
        /\ emu' \in {"run", "returnLock"} /\ emu' # "returnLock"
    BY <1>1, <1>6
  <2> QED
    BY <1>1, <1>7, <2>1, <2>2, RunStep
<1>9. ASSUME NEW u \in Task PROVE Fits(Top(u)', u, stack[u], 1)
  <2>1. CASE u = t
    BY <1>5, <1>6, <1>8, <2>1 DEF Top
  <2>2. CASE u = Self
    <3>1. Top(u)' = regs /\ Top(u) = regs
      BY <1>1, <1>2, <1>3, <1>6, <2>2 DEF Top
    <3> QED
      BY <1>4, <3>1
  <2>3. CASE u # t /\ u # Self
    <3>1. Top(u)' = parked[u] /\ Top(u) = parked[u]
      BY <1>1, <1>2, <1>6, <2>3 DEF Top
    <3> QED
      BY <1>4, <3>1
  <2> QED
    BY <2>1, <2>2, <2>3
<1>10. StackInv'
  BY <1>1, <1>2, <1>9, SameStacks DEF TrapsInv
<1>11. FramesInv'
  BY <1>1, <1>2, <1>8, OnStackStays, FramesSame DEF TrapsInv
<1>12. EnteredInv'
  BY <1>1, <1>3, <1>8 DEF TrapsInv, EnteredInv, HandOf
<1> QED
  BY <1>8, <1>10, <1>11, <1>12 DEF TrapsInv

(* The running task goes on, its registers changed, its stack as it was.     *)
LEMMA RunsOn ==
  ASSUME TrapsInv, ~InHand, emu \in {"run", "returnLock"}, emu' \in {"run", "returnLock"},
         emu' = "returnLock" => regs'.at = "returnTrap",
         Fits(regs', Self, stack[Self], 1), regs' \in Regs,
         parked' = parked, stack' = stack, emuCtx' = emuCtx, mutex' = mutex, current' = current, ctx' = ctx,
         entered' = entered, resets' = resets
  PROVE  TrapsInv'
<1>1. TypeOK /\ Self \in Task /\ parked \in [Task -> Regs] /\ stack \in [Task -> Seq(Frame)]
  BY SelfType DEF TrapsInv
<1>2. Self' = Self /\ regs'.at \notin {"callTrap", "exitTrap"}
  BY DEF Fits, Self
<1>3. ~InHand' /\ TypeOK' /\ HandInv' /\ SleepInv' /\ MutexInv' /\ ValueInv'
  <2>1. /\ stack' \in [Task -> Seq(Frame)] /\ parked' \in [Task -> Regs] /\ mutex' \in 0..1
        /\ entered' \in [Task -> Seq(Ctx)] /\ resets' \in 0..MaxResets
    BY <1>1, SelfType
  <2> QED
    BY <1>2, <2>1, RunStep
<1>4. ASSUME NEW u \in Task PROVE Fits(Top(u)', u, stack[u], 1)
  <2>1. CASE u = Self
    BY <1>2, <1>3, <2>1 DEF Top
  <2>2. CASE u # Self
    BY <1>2, <2>2 DEF Top, TrapsInv, StackInv
  <2> QED
    BY <2>1, <2>2
<1>5. StackInv'
  BY <1>1, <1>4, SameStacks DEF TrapsInv
<1>6. FramesInv'
  BY <1>1, <1>3, OnStackStays, FramesSame DEF TrapsInv
<1>7. EnteredInv'
  BY <1>3 DEF TrapsInv, EnteredInv, HandOf
<1> QED
  BY <1>3, <1>5, <1>6, <1>7 DEF TrapsInv

(* A 68k function that was called returns, ...                               *)
LEMMA FunctionReturnsKeeps ==
  ASSUME TrapsInv, FunctionReturns
  PROVE  TrapsInv'
<1>1. /\ emu = "run" /\ regs.at = "func" /\ regs' = [regs EXCEPT !.at = "returnTrap", !.d0 = regs.fn]
      /\ parked' = parked /\ stack' = stack /\ emu' = emu /\ emuCtx' = emuCtx /\ mutex' = mutex /\ current' = current
      /\ ctx' = ctx /\ entered' = entered /\ resets' = resets
  BY DEF FunctionReturns, emuVars, lockVars
<1>2. TypeOK /\ Self \in Task /\ regs \in Regs
  BY SelfType DEF TrapsInv
<1>3. ~InHand
  BY <1>1 DEF InHand
<1>4. Fits(regs, Self, stack[Self], 1)
  <2>1. Top(Self) = regs
    BY <1>3 DEF Top
  <2> QED
    BY <1>2, <2>1 DEF TrapsInv, StackInv
<1>5. regs' \in Regs /\ regs'.at = "returnTrap" /\ regs'.d0 = regs.fn /\ regs'.task = regs.task
  BY <1>1, <1>2 DEF Regs
<1>6. Fits(regs', Self, stack[Self], 1)
  BY <1>1, <1>4, <1>5 DEF Fits
<1> QED
  BY <1>1, <1>3, <1>5, <1>6, RunsOn

(* ... to the trap that asks the emulator to go on with the caller.          *)
LEMMA ReturnTrapKeeps ==
  ASSUME TrapsInv, ReturnTrap
  PROVE  TrapsInv'
<1>1. /\ emu = "run" /\ regs.at = "returnTrap" /\ emu' = "returnLock" /\ regs' = regs
      /\ parked' = parked /\ stack' = stack /\ emuCtx' = emuCtx /\ mutex' = mutex /\ current' = current
      /\ ctx' = ctx /\ entered' = entered /\ resets' = resets
  BY DEF ReturnTrap, cpuVars, lockVars
<1>2. TypeOK /\ Self \in Task /\ regs \in Regs
  BY SelfType DEF TrapsInv
<1>3. ~InHand
  BY <1>1 DEF InHand
<1>4. Fits(regs', Self, stack[Self], 1)
  <2>1. Top(Self) = regs
    BY <1>3 DEF Top
  <2> QED
    BY <1>1, <1>2, <2>1 DEF TrapsInv, StackInv
<1> QED
  BY <1>1, <1>2, <1>3, <1>4, RunsOn

(* A 68k interrupt pushes what it interrupts, ...                            *)
LEMMA InterruptKeeps ==
  ASSUME TrapsInv, Interrupt
  PROVE  TrapsInv'
<1>0. regs \in Regs
  BY SelfType DEF TrapsInv
<1>6. PICK f \in Frame : f.kind = "irq" /\ f.regs = regs /\ f = [kind |-> "irq", regs |-> regs]
  BY <1>0 DEF Frame
<1>1. /\ emu = "run" /\ regs.mask < IrqMask /\ stack' = [stack EXCEPT ![Self] = <<f>> \o @]
      /\ regs' = [regs EXCEPT !.at = "code", !.mask = IrqMask]
      /\ parked' = parked /\ emu' = emu /\ emuCtx' = emuCtx /\ mutex' = mutex /\ current' = current
      /\ ctx' = ctx /\ entered' = entered /\ resets' = resets
  BY <1>6 DEF Interrupt, Push, emuVars, lockVars
<1>2. /\ TypeOK /\ Self \in Task /\ regs \in Regs /\ parked \in [Task -> Regs] /\ stack \in [Task -> Seq(Frame)]
      /\ stack[Self] \in Seq(Frame)
  BY SelfType DEF TrapsInv
<1>3. ~InHand
  <2>1. ~(7 < 2) /\ regs.mask # 7
    BY <1>1, <1>2 DEF Regs, IrqMask
  <2> QED
    BY <1>1, <2>1 DEF TrapsInv, MutexInv, Masked, InHand
<1>4. Fits(regs, Self, stack[Self], 1)
  <2>1. Top(Self) = regs
    BY <1>3 DEF Top
  <2> QED
    BY <1>2, <2>1 DEF TrapsInv, StackInv
<1>5. regs' \in Regs /\ regs'.at = "code" /\ regs'.task = Self /\ Self' = Self
  BY <1>1, <1>2 DEF Regs, Self, IrqMask
<1>7. stack'[Self] = <<f>> \o stack[Self] /\ \A u \in Task : u # Self => stack'[u] = stack[u]
  BY <1>1, <1>2
<1>8. ~InHand'
  BY <1>1, <1>5 DEF InHand
<1>9. ASSUME NEW u \in Task PROVE Fits(Top(u)', u, stack'[u], 1)
  <2>1. CASE u = Self
    BY <1>5, <1>8, <2>1 DEF Top, Fits
  <2>2. CASE u # Self
    BY <1>1, <1>5, <1>7, <2>2 DEF Top, TrapsInv, StackInv
  <2> QED
    BY <2>1, <2>2
<1>10. Fits(Below(f)', Self, stack[Self], 1)
  BY <1>4, <1>6 DEF Below
<1>11. StackInv' /\ stack' \in [Task -> Seq(Frame)]
  BY <1>1, <1>2, <1>6, <1>9, <1>10, StackPushed DEF TrapsInv
<1>12. TypeOK' /\ HandInv' /\ SleepInv' /\ MutexInv' /\ ValueInv'
  <2>1. /\ parked' \in [Task -> Regs] /\ mutex' \in 0..1 /\ entered' \in [Task -> Seq(Ctx)] /\ resets' \in 0..MaxResets
    BY <1>1, <1>2, SelfType
  <2>2. regs'.at \notin {"callTrap", "exitTrap"} /\ emu \in {"run", "returnLock"}
        /\ emu' \in {"run", "returnLock"} /\ emu' # "returnLock"
    BY <1>1, <1>5
  <2> QED
    BY <1>1, <1>5, <1>11, <2>1, <2>2, RunStep
<1>13. FramesInv'
  <2>1. \A c \in Ctx : OnStack(c) => FrameOK(c)'
    BY <1>1, <1>8, OnStackStays
  <2> QED
    BY <1>1, <1>2, <1>6, <2>1, FramesPushed DEF TrapsInv
<1>14. EnteredInv'
  <2>1. ASSUME NEW u \in Task PROVE Inside(entered[u], stack'[u], 0)
    <3>1. Inside(entered[u], stack[u], 0)
      BY <1>3 DEF TrapsInv, EnteredInv, HandOf
    <3>2. CASE u = Self
      <4>1. stack[Self] \in Seq(Frame) /\ Inside(entered[u], stack[Self], 0)
        BY <1>2, <3>1, <3>2
      <4>2. Inside(entered[u], <<f>> \o stack[Self], 0)
        BY <1>6, <4>1, InsideIrq
      <4> QED
        BY <1>7, <3>2, <4>2
    <3>3. CASE u # Self
      BY <1>7, <3>1, <3>3
    <3> QED
      BY <3>2, <3>3
  <2> QED
    BY <1>1, <1>8, <2>1 DEF EnteredInv, HandOf
<1> QED
  BY <1>11, <1>12, <1>13, <1>14 DEF TrapsInv

(* A stack is its top on the rest.                                           *)
LEMMA HeadTailIs ==
  ASSUME NEW S, NEW s \in Seq(S), s # <<>>
  PROVE  s = <<Head(s)>> \o Tail(s)
<1>1. /\ Tail(s) \in Seq(S) /\ Len(s) = Len(Tail(s)) + 1 /\ Len(Tail(s)) \in Nat /\ Head(s) = s[1] /\ Head(s) \in S
      /\ \A i \in 1..Len(Tail(s)) : Tail(s)[i] = s[i + 1]
  BY PopIs
<1> DEFINE h == Head(s)
           p == Tail(s)
           q == <<h>> \o p
<1>2. /\ q \in Seq(S) /\ Len(q) = Len(p) + 1 /\ q[1] = h /\ \A i \in 1..Len(p) : q[i + 1] = p[i]
  BY <1>1, PushIs
<1>3. /\ p \in Seq(S) /\ Len(s) = Len(p) + 1 /\ Len(p) \in Nat /\ h = s[1] /\ \A i \in 1..Len(p) : p[i] = s[i + 1]
  BY <1>1
<1> HIDE DEF h, p, q
<1>4. ASSUME NEW i \in 1..Len(s) PROVE q[i] = s[i]
  <2>1. CASE i = 1
    BY <1>2, <1>3, <2>1
  <2>2. CASE i # 1
    <3>1. i - 1 \in 1..Len(p) /\ (i - 1) + 1 = i
      BY <1>3, <2>2
    <3> QED
      BY <1>2, <1>3, <3>1
  <2> QED
    BY <2>1, <2>2
<1>5. q = s
  BY <1>2, <1>3, <1>4, SeqEqual
<1> QED
  BY <1>5 DEF h, p, q

(* ... and gives it back.                                                    *)
LEMMA InterruptEndKeeps ==
  ASSUME TrapsInv, InterruptEnd
  PROVE  TrapsInv'
<1> DEFINE s == stack[Self]
<1>1. /\ emu = "run" /\ regs.at = "code" /\ s # <<>> /\ Head(s).kind = "irq" /\ regs' = Head(s).regs
      /\ stack' = [stack EXCEPT ![Self] = Tail(@)]
      /\ parked' = parked /\ emu' = emu /\ emuCtx' = emuCtx /\ mutex' = mutex /\ current' = current
      /\ ctx' = ctx /\ entered' = entered /\ resets' = resets
  BY DEF InterruptEnd, Pop, emuVars, lockVars
<1>2. /\ TypeOK /\ Self \in Task /\ regs \in Regs /\ parked \in [Task -> Regs] /\ stack \in [Task -> Seq(Frame)]
      /\ s \in Seq(Frame)
  BY SelfType DEF TrapsInv
<1>3. ~InHand
  BY <1>1 DEF InHand
<1>4. /\ Tail(s) \in Seq(Frame) /\ Len(s) = Len(Tail(s)) + 1 /\ Len(Tail(s)) \in Nat /\ Head(s) = s[1] /\ Head(s) \in Frame
  BY <1>1, <1>2, PopIs
<1>5. regs' \in Regs
  BY <1>1, <1>4 DEF Frame
<1>6. Fits(regs', Self, Tail(s), 1)
  <2>1. 1 \in 1..Len(s) /\ Below(s[1]) = regs'
    BY <1>1, <1>4 DEF Below
  <2>2. Fits(regs', Self, s, 1 + 1)
    BY <1>2, <2>1 DEF TrapsInv, StackInv
  <2> QED
    BY <1>1, <1>2, <2>2, FitsPopped
<1>7. Self' = Self /\ regs'.at \in {"code", "func", "returnTrap"}
  BY <1>6 DEF Fits, Self
<1>8. ~InHand'
  BY <1>1, <1>7 DEF InHand
<1>9. stack'[Self] = Tail(s) /\ \A u \in Task : u # Self => stack'[u] = stack[u]
  BY <1>1, <1>2
<1>10. ASSUME NEW u \in Task PROVE Fits(Top(u)', u, stack'[u], 1)
  <2>1. CASE u = Self
    BY <1>6, <1>7, <1>8, <1>9, <2>1 DEF Top
  <2>2. CASE u # Self
    BY <1>1, <1>7, <1>9, <2>2 DEF Top, TrapsInv, StackInv
  <2> QED
    BY <2>1, <2>2
<1>11. StackInv' /\ stack' \in [Task -> Seq(Frame)]
  BY <1>1, <1>2, <1>10, StackPopped DEF TrapsInv
<1>12. TypeOK' /\ HandInv' /\ SleepInv' /\ MutexInv' /\ ValueInv'
  <2>1. /\ parked' \in [Task -> Regs] /\ mutex' \in 0..1 /\ entered' \in [Task -> Seq(Ctx)] /\ resets' \in 0..MaxResets
    BY <1>1, <1>2, SelfType
  <2>2. regs'.at \notin {"callTrap", "exitTrap"} /\ emu \in {"run", "returnLock"}
        /\ emu' \in {"run", "returnLock"} /\ emu' # "returnLock"
    BY <1>1, <1>7
  <2> QED
    BY <1>1, <1>5, <1>11, <2>1, <2>2, RunStep
<1>13. FramesInv'
  <2>1. \A c \in Ctx : OnStack(c) => FrameOK(c)'
    BY <1>1, <1>8, OnStackStays
  <2> QED
    BY <1>1, <1>2, <2>1, FramesPopped DEF TrapsInv
<1>14. EnteredInv'
  <2>1. ASSUME NEW u \in Task PROVE Inside(entered[u], stack'[u], 0)
    <3>1. Inside(entered[u], stack[u], 0)
      BY <1>3 DEF TrapsInv, EnteredInv, HandOf
    <3>2. CASE u = Self
      <4>1. s = <<Head(s)>> \o Tail(s)
        BY <1>1, <1>2, HeadTailIs
      <4>2. Inside(entered[u], <<Head(s)>> \o Tail(s), 0)
        BY <3>1, <3>2, <4>1
      <4>3. Inside(entered[u], Tail(s), 0)
        BY <1>1, <1>4, <4>2, InsideIrq
      <4> QED
        BY <1>9, <3>2, <4>3
    <3>3. CASE u # Self
      BY <1>9, <3>1, <3>3
    <3> QED
      BY <3>2, <3>3
  <2> QED
    BY <1>1, <1>8, <2>1 DEF EnteredInv, HandOf
<1> QED
  BY <1>11, <1>12, <1>13, <1>14 DEF TrapsInv
(* A reset starts the 68k side afresh, wherever it was.                      *)
LEMMA ResetKeeps ==
  ASSUME TrapsInv, Reset
  PROVE  TrapsInv'
<1>1. /\ emu = "run" /\ resets < MaxResets /\ regs' \in {Fresh(t) : t \in Task} /\ parked' = [t \in Task |-> Fresh(t)]
      /\ stack' = [t \in Task |-> <<>>] /\ entered' = [t \in Task |-> <<>>] /\ resets' = resets + 1
      /\ emu' = emu /\ emuCtx' = emuCtx /\ mutex' = mutex /\ current' = current /\ ctx' = ctx
  BY DEF Reset, emuVars, lockVars
<1>2. TypeOK /\ mutex \in 0..1 /\ resets \in 0..MaxResets
  BY SelfType DEF TrapsInv
<1>3. \A t \in Task : Fresh(t) \in Regs /\ Fresh(t).at = "code" /\ Fresh(t).task = t
  BY DEF Fresh, Regs, Value
<1>4. PICK u \in Task : regs' = Fresh(u)
  BY <1>1
<1>5. Self' = u /\ regs'.at = "code" /\ regs' \in Regs /\ ~InHand'
  BY <1>1, <1>3, <1>4 DEF Self, InHand
<1>6. /\ parked' \in [Task -> Regs] /\ stack' \in [Task -> Seq(Frame)] /\ entered' \in [Task -> Seq(Ctx)]
  <2>1. <<>> \in Seq(Frame) /\ <<>> \in Seq(Ctx)
    BY EmptySeq
  <2> QED
    BY <1>1, <1>3, <2>1
<1>7. resets' \in 0..MaxResets
  BY <1>1, <1>2, TrapsAssumption
<1>8. TypeOK' /\ HandInv' /\ SleepInv' /\ MutexInv' /\ ValueInv'
  <2>1. regs'.at \notin {"callTrap", "exitTrap"} /\ emu \in {"run", "returnLock"}
        /\ emu' \in {"run", "returnLock"} /\ emu' # "returnLock"
    BY <1>1, <1>5
  <2> QED
    BY <1>1, <1>2, <1>5, <1>6, <1>7, <2>1, RunStep
<1>9. \A t \in Task : stack'[t] = <<>> /\ Len(stack'[t]) = 0 /\ entered'[t] = <<>> /\ parked'[t] = Fresh(t)
  BY <1>1
<1>10. ASSUME NEW t \in Task PROVE Fits(Top(t)', t, stack'[t], 1)
  <2>1. Top(t)' = Fresh(t)
    BY <1>4, <1>5, <1>9 DEF Top
  <2> QED
    BY <1>3, <2>1 DEF Fits
<1>11. StackInv'
  BY <1>9, <1>10 DEF StackInv
<1>12. \A t \in Task, i \in Nat : ~CallAt(stack'[t], i)
  BY <1>9 DEF CallAt
<1>13. FramesInv'
  BY <1>12 DEF FramesInv, CallAt
<1>14. EnteredInv'
  <2>1. ASSUME NEW t \in Task PROVE Inside(entered'[t], stack'[t], 0)
    <3>1. Rank(stack'[t], 0) = 0
      BY RankType
    <3>2. Len(entered'[t]) = Rank(stack'[t], Len(stack'[t])) + 0
      BY <1>9, <3>1
    <3> QED
      BY <1>12, <3>2 DEF Inside
  <2> QED
    BY <1>5, <2>1 DEF EnteredInv, HandOf
<1> QED
  BY <1>8, <1>11, <1>13, <1>14 DEF TrapsInv

-----------------------------------------------------------------------------
(* A trap is entered: its context is in hand, the others sleep.              *)
LEMMA EnterTrapKeeps ==
  ASSUME TrapsInv, NEW c \in Ctx, NEW ret \in BOOLEAN, EnterTrap(c, ret)
  PROVE  TrapsInv' /\ KeepsAlive
<1> DEFINE e == [pc |-> "start", regs |-> regs, saved_regs |-> regs, has_retval |-> ret,
                 func_addr |-> None, call_retval |-> None, trap_retval |-> None,
                 switch_to_emu |-> 0, switch_to_trap |-> 1]
<1>1. /\ emu = "run" /\ regs.at \in {"code", "func"} /\ ~Alive(c) /\ ctx' = [ctx EXCEPT ![c] = e]
      /\ emu' = "handoff" /\ emuCtx' = c /\ entered' = [entered EXCEPT ![Self] = <<c>> \o @]
      /\ regs' = regs /\ parked' = parked /\ stack' = stack /\ mutex' = mutex /\ current' = current /\ resets' = resets
  BY DEF EnterTrap, cpuVars, lockVars
<1>2. /\ TypeOK /\ Self \in Task /\ regs \in Regs /\ parked \in [Task -> Regs] /\ stack \in [Task -> Seq(Frame)]
      /\ entered \in [Task -> Seq(Ctx)] /\ stack[Self] \in Seq(Frame) /\ entered[Self] \in Seq(Ctx)
      /\ mutex \in 0..1 /\ resets \in 0..MaxResets /\ ctx \in [Ctx -> Context \cup {None}]
  BY SelfType DEF TrapsInv, TypeOK
<1>3. e \in Context
  <2>1. 0 \in 0..1 /\ 1 \in 0..1 /\ None \in Value
    BY DEF Value
  <2> QED
    BY <1>2, <2>1 DEF Context, ThreadPC
<1>4. e.pc = "start" /\ e.regs = regs /\ e.saved_regs = regs /\ e.switch_to_emu = 0 /\ e.switch_to_trap = 1
  OBVIOUS
<1> HIDE DEF e
<1>5. e # None
  BY <1>3, NoneAssumption
<1>6. /\ ctx' \in [Ctx -> Context \cup {None}] /\ ctx'[c] = e /\ \A b \in Ctx : b # c => ctx'[b] = ctx[b]
  BY <1>1, <1>2, <1>3
<1>7. ~InHand /\ InHand' /\ Hand' = c /\ Self' = Self /\ \A b \in Ctx : IsHand(b)' <=> b = c
  BY <1>1 DEF InHand, Hand, Self, IsHand
<1>8. TypeOK'
  <2>1. entered' \in [Task -> Seq(Ctx)]
    <3>1. <<c>> \o entered[Self] \in Seq(Ctx)
      BY <1>2, PushIs
    <3> QED
      BY <1>1, <1>2, <3>1
  <2>2. emuCtx' \in Value
    BY <1>1 DEF Value
  <2> QED
    BY <1>1, <1>2, <1>6, <2>1, <2>2 DEF TypeOK
<1>9. HandInv'
  <2>1. Works(c)' /\ Alive(c)' /\ ctx'[c].regs.task = Self
    BY <1>4, <1>5, <1>6 DEF Works, Alive, AsksTrap, Self
  <2> QED
    BY <1>1, <1>7, <2>1 DEF HandInv, Works, Alive, Asleep, AsksTrap, AsksEmu
<1>10. SleepInv'
  <2> SUFFICES ASSUME NEW b \in Ctx, Alive(b)', ~IsHand(b)'
               PROVE  (ctx[b].pc \in {"callWait", "finishing", "exited"} /\ Asleep(b))'
    BY DEF SleepInv
  <2>1. ctx'[b] = ctx[b] /\ Alive(b) /\ ~IsHand(b)
    BY <1>6, <1>7 DEF Alive, IsHand
  <2>2. ctx[b].pc \in {"callWait", "finishing", "exited"} /\ Asleep(b)
    BY <2>1 DEF TrapsInv, SleepInv
  <2> QED
    BY <2>1, <2>2 DEF Asleep
<1>11. MutexInv'
  <2>1. Masked(regs)
    BY DEF TrapsInv, MutexInv
  <2>2. \A b \in Ctx : Alive(b)' => Masked(ctx'[b].regs)
    BY <1>4, <1>6, <2>1 DEF TrapsInv, MutexInv, Alive
  <2>3. ~AsksEmu(c)'
    BY <1>4, <1>6 DEF AsksEmu
  <2> QED
    BY <1>1, <1>4, <1>6, <1>7, <2>1, <2>2, <2>3 DEF MutexInv, AsksEmu
<1>12. ValueInv'
  <2> SUFFICES ASSUME NEW b \in Ctx, Alive(b)'
               PROVE  (/\ ctx[b].saved_regs.at \in {"code", "func"}
                       /\ ctx[b].pc = "callWait" => ctx[b].func_addr = b
                       /\ ctx[b].pc = "callDone" \/ (ctx[b].pc = "callWait" /\ ctx[b].switch_to_trap = 1) => ctx[b].call_retval = b
                       /\ ctx[b].pc \in {"exitLock", "finishing", "exited"} => ctx[b].trap_retval = b)'
    BY DEF ValueInv
  <2>1. CASE b = c
    BY <1>1, <1>4, <1>6, <2>1
  <2>2. CASE b # c
    BY <1>6, <2>2 DEF TrapsInv, ValueInv, Alive
  <2> QED
    BY <2>1, <2>2
<1>13. ASSUME NEW t \in Task, NEW i \in Nat, CallAt(stack[t], i)
       PROVE  stack[t][i].ctx \in Ctx /\ stack[t][i].ctx # c
  <2>1. stack[t][i].ctx \in Ctx
    BY <1>2, <1>13, FrameIs
  <2>2. Alive(stack[t][i].ctx)
    BY <1>13 DEF TrapsInv, FramesInv
  <2> QED
    BY <1>1, <2>1, <2>2
<1>14. StackInv'
  <2>1. ASSUME NEW t \in Task PROVE Top(t)' = Top(t)
    BY <1>1, <1>4, <1>6, <1>7 DEF Top
  <2>2. \A t \in Task : Fits(Top(t)', t, stack[t], 1)
    BY <2>1 DEF TrapsInv, StackInv
  <2>3. \A t \in Task, i \in Nat : CallAt(stack[t], i) => ctx'[stack[t][i].ctx].saved_regs = ctx[stack[t][i].ctx].saved_regs
    BY <1>6, <1>13
  <2> QED
    BY <1>1, <1>2, <2>2, <2>3, SameStacks DEF TrapsInv
<1>15. FramesInv'
  <2>1. ASSUME NEW b \in Ctx, OnStack(b) PROVE FrameOK(b)'
    <3>1. FrameOK(b)
      BY <2>1, FramesOK DEF TrapsInv
    <3> QED
      BY <1>1, <1>6, <1>7, <3>1 DEF FrameOK, Alive
  <2> QED
    BY <1>1, <1>2, <2>1, FramesSame DEF TrapsInv
<1>16. EnteredInv'
  <2>1. entered'[Self] = <<c>> \o entered[Self] /\ \A t \in Task : t # Self => entered'[t] = entered[t]
    BY <1>1, <1>2
  <2>2. Inside(entered[Self], stack[Self], 0)
    BY <1>2, <1>7 DEF TrapsInv, EnteredInv, HandOf
  <2>3. Inside(<<c>> \o entered[Self], stack[Self], 1) /\ (<<c>> \o entered[Self])[1] = c
    BY <1>2, <2>2, InsideEnter
  <2>4. ASSUME NEW t \in Task PROVE Inside(entered'[t], stack'[t], HandOf(t)')
    <3>1. CASE t = Self
      BY <1>1, <1>7, <2>1, <2>3, <3>1 DEF HandOf
    <3>2. CASE t # Self
      BY <1>1, <1>7, <2>1, <3>2 DEF HandOf, TrapsInv, EnteredInv
    <3> QED
      BY <3>1, <3>2
  <2> QED
    BY <1>7, <2>1, <2>3, <2>4 DEF EnteredInv
<1>17. KeepsAlive
  BY <1>5, <1>6 DEF KeepsAlive, Alive
<1> QED
  BY <1>17, <1>8, <1>9, <1>10, <1>11, <1>12, <1>14, <1>15, <1>16 DEF TrapsInv
(* The context in hand asked for the emulator: it goes on as that asked.     *)
LEMMA ResumeKeeps ==
  ASSUME TrapsInv, Resume
  PROVE  TrapsInv' /\ KeepsAlive
<1>0. /\ emu = "handoff" /\ InHand /\ Hand = emuCtx /\ TypeOK
  BY DEF Resume, InHand, Hand, TrapsInv
<1> PICK c \in Ctx : c = emuCtx /\ Alive(c)
  BY <1>0 DEF TrapsInv, HandInv
<1> DEFINE e == [ctx[c] EXCEPT !.switch_to_emu = 0]
<1>1. /\ regs' = ctx[c].regs /\ emu' = "run" /\ emuCtx' = None /\ parked' = parked /\ stack' = stack
      /\ mutex' = mutex /\ current' = current /\ entered' = entered /\ resets' = resets
  BY DEF Resume, lockVars
<1>2. /\ Self \in Task /\ regs \in Regs /\ parked \in [Task -> Regs] /\ stack \in [Task -> Seq(Frame)]
      /\ entered \in [Task -> Seq(Ctx)] /\ mutex \in 0..1 /\ resets \in 0..MaxResets
      /\ ctx \in [Ctx -> Context \cup {None}] /\ current \in Value
  BY <1>0, SelfType DEF TypeOK
<1>3. ctx[c] \in Context /\ ctx[c].regs \in Regs /\ ctx[c].switch_to_emu \in 0..1
  BY <1>0, CtxIs
<1>4. Works(c) /\ ctx[c].regs.task = Self
  BY <1>0 DEF TrapsInv, HandInv
<1>5. ctx[c].switch_to_emu = 1
  BY <1>3 DEF Resume
<1>6. /\ AsksEmu(c)
      /\ (ctx[c].pc = "callWait" /\ ctx[c].regs.at = "callTrap")
         \/ (ctx[c].pc \in {"finishing", "exited"} /\ ctx[c].regs.at = "exitTrap")
  BY <1>4, <1>5 DEF Works, Asleep, AsksTrap, AsksEmu
<1>7. ctx' = [ctx EXCEPT ![c] = e]
  BY <1>2, <1>3, <1>5 DEF Resume, Context
<1>8. e \in Context
  <2>1. 0 \in 0..1
    OBVIOUS
  <2> QED
    BY <1>3, <2>1 DEF Context
<1>9. /\ e.switch_to_emu = 0 /\ e.switch_to_trap = 0 /\ e.pc = ctx[c].pc /\ e.regs = ctx[c].regs
      /\ e.saved_regs = ctx[c].saved_regs /\ e.func_addr = ctx[c].func_addr /\ e.trap_retval = ctx[c].trap_retval
  BY <1>3, <1>6 DEF Context, AsksEmu
<1> HIDE DEF e
<1>10. e # None
  BY <1>8, NoneAssumption
<1>11. /\ ctx' \in [Ctx -> Context \cup {None}] /\ ctx'[c] = e /\ \A b \in Ctx : b # c => ctx'[b] = ctx[b]
  BY <1>2, <1>7, <1>8
<1>12. mutex = 0 /\ current = c
  BY <1>0, <1>6 DEF TrapsInv, MutexInv
<1>13. regs'.at \in {"callTrap", "exitTrap"} /\ Self' = Self
  BY <1>1, <1>4, <1>6 DEF Self
<1>14. InHand' /\ Hand' = c /\ \A b \in Ctx : (IsHand(b)' <=> b = c) /\ (IsHand(b) <=> b = c)
  BY <1>0, <1>1, <1>12, <1>13 DEF InHand, Hand, IsHand
<1>15. TypeOK'
  BY <1>1, <1>2, <1>3, <1>11 DEF TypeOK, Value
<1>16. HandInv'
  <2>1. Alive(c)' /\ Asleep(c)'
    BY <1>9, <1>10, <1>11 DEF Alive, Asleep
  <2>2. regs'.at = "callTrap" => ctx'[c].pc = "callWait"
    BY <1>1, <1>6, <1>9, <1>11
  <2>3. regs'.at = "exitTrap" => ctx'[c].pc \in {"finishing", "exited"}
    BY <1>1, <1>6, <1>9, <1>11
  <2> QED
    BY <1>1, <1>14, <2>1, <2>2, <2>3 DEF HandInv, Alive, Asleep
<1>17. SleepInv'
  <2> SUFFICES ASSUME NEW b \in Ctx, Alive(b)', ~IsHand(b)'
               PROVE  (ctx[b].pc \in {"callWait", "finishing", "exited"} /\ Asleep(b))'
    BY DEF SleepInv
  <2>1. ctx'[b] = ctx[b] /\ Alive(b) /\ ~IsHand(b)
    BY <1>11, <1>14 DEF Alive, IsHand
  <2>2. ctx[b].pc \in {"callWait", "finishing", "exited"} /\ Asleep(b)
    BY <2>1 DEF TrapsInv, SleepInv
  <2> QED
    BY <2>1, <2>2 DEF Asleep
<1>18. MutexInv'
  <2>1. Masked(regs')
    BY <1>1 DEF TrapsInv, MutexInv
  <2>2. \A b \in Ctx : Alive(b)' => Masked(ctx'[b].regs)
    BY <1>9, <1>11 DEF TrapsInv, MutexInv, Alive
  <2> QED
    BY <1>1, <1>12, <1>14, <2>1, <2>2 DEF MutexInv, AsksEmu
<1>19. ValueInv'
  <2> SUFFICES ASSUME NEW b \in Ctx, Alive(b)'
               PROVE  (/\ ctx[b].saved_regs.at \in {"code", "func"}
                       /\ ctx[b].pc = "callWait" => ctx[b].func_addr = b
                       /\ ctx[b].pc = "callDone" \/ (ctx[b].pc = "callWait" /\ ctx[b].switch_to_trap = 1) => ctx[b].call_retval = b
                       /\ ctx[b].pc \in {"exitLock", "finishing", "exited"} => ctx[b].trap_retval = b)'
    BY DEF ValueInv
  <2>1. CASE b = c
    BY <1>6, <1>9, <1>11, <2>1 DEF TrapsInv, ValueInv
  <2>2. CASE b # c
    BY <1>11, <2>2 DEF TrapsInv, ValueInv, Alive
  <2> QED
    BY <2>1, <2>2
<1>20. \A b \in Ctx : ctx'[b].saved_regs = ctx[b].saved_regs
  BY <1>9, <1>11
<1>21. StackInv'
  <2>1. ASSUME NEW t \in Task PROVE Top(t)' = Top(t)
    BY <1>0, <1>1, <1>13, <1>14, <1>20 DEF Top
  <2>2. \A t \in Task : Fits(Top(t)', t, stack[t], 1)
    BY <2>1 DEF TrapsInv, StackInv
  <2>3. \A t \in Task, i \in Nat : CallAt(stack[t], i) => ctx'[stack[t][i].ctx].saved_regs = ctx[stack[t][i].ctx].saved_regs
    BY <1>0, <1>20, FrameIs
  <2> QED
    BY <1>0, <1>1, <2>2, <2>3, SameStacks DEF TrapsInv
<1>22. FramesInv'
  <2>1. ASSUME NEW b \in Ctx, OnStack(b) PROVE FrameOK(b)'
    <3>1. FrameOK(b)
      BY <2>1, FramesOK DEF TrapsInv
    <3> QED
      BY <1>11, <1>14, <3>1 DEF FrameOK, Alive
  <2> QED
    BY <1>0, <1>1, <2>1, FramesSame DEF TrapsInv
<1>23. EnteredInv'
  <2>1. \A t \in Task : HandOf(t)' = HandOf(t)
    BY <1>0, <1>13, <1>14 DEF HandOf
  <2> QED
    BY <1>0, <1>1, <1>13, <1>14, <2>1 DEF TrapsInv, EnteredInv
<1>24. KeepsAlive
  BY <1>10, <1>11 DEF KeepsAlive, Alive
<1> QED
  BY <1>24, <1>15, <1>16, <1>17, <1>18, <1>19, <1>21, <1>22, <1>23 DEF TrapsInv

(* The call trap: the trap in hand goes on the stack.                        *)
LEMMA CallHandlerKeeps ==
  ASSUME TrapsInv, m68k_call_handler
  PROVE  TrapsInv'
<1>0. emu = "run" /\ regs.at = "callTrap" /\ InHand /\ Hand = current /\ TypeOK
  BY DEF m68k_call_handler, InHand, Hand, TrapsInv
<1> PICK c \in Ctx : c = current /\ Alive(c) /\ ctx[c].pc = "callWait"
  BY <1>0 DEF TrapsInv, HandInv
<1>1. PICK f \in Frame : f = [kind |-> "call", ctx |-> c] /\ f.kind = "call" /\ f.ctx = c
  <2> DEFINE g == [kind |-> "call", ctx |-> c]
  <2>1. g \in [kind : {"call"}, ctx : Ctx] /\ g.kind = "call" /\ g.ctx = c
    OBVIOUS
  <2> HIDE DEF g
  <2>2. g \in Frame
    BY <2>1 DEF Frame
  <2>3. g = [kind |-> "call", ctx |-> c]
    BY DEF g
  <2> QED
    BY <2>1, <2>2, <2>3
<1>2. /\ stack' = [stack EXCEPT ![Self] = <<f>> \o @]
      /\ regs' = [regs EXCEPT !.at = "func", !.fn = ctx[c].func_addr, !.mask = ctx[c].saved_regs.mask]
      /\ mutex' = mutex + 1 /\ parked' = parked /\ emu' = emu /\ emuCtx' = emuCtx /\ current' = current
      /\ ctx' = ctx /\ entered' = entered /\ resets' = resets
  BY <1>1 DEF m68k_call_handler, Push, emuVars
<1>3. /\ Self \in Task /\ regs \in Regs /\ parked \in [Task -> Regs] /\ stack \in [Task -> Seq(Frame)]
      /\ entered \in [Task -> Seq(Ctx)] /\ mutex = 0 /\ resets \in 0..MaxResets
      /\ stack[Self] \in Seq(Frame) /\ current \in Value
  BY <1>0, SelfType DEF TypeOK, TrapsInv, MutexInv
<1>4. /\ ctx[c].func_addr = c /\ ctx[c].saved_regs \in Regs /\ ctx[c].func_addr \in Value
      /\ ctx[c].saved_regs.mask \in {0, IrqMask, 7}
  BY <1>0, CtxIs DEF TrapsInv, ValueInv, Regs
<1>5. regs' \in Regs /\ regs'.at = "func" /\ regs'.fn = c /\ Self' = Self /\ regs'.task = Self
  BY <1>2, <1>3, <1>4 DEF Regs, Self
<1>6. ~InHand'
  BY <1>0, <1>2, <1>5 DEF InHand
<1>7. stack'[Self] = <<f>> \o stack[Self] /\ \A u \in Task : u # Self => stack'[u] = stack[u]
  BY <1>2, <1>3
<1>8. Len(stack'[Self]) >= 1 /\ stack'[Self][1] = f
  <2>1. Len(<<f>> \o stack[Self]) = Len(stack[Self]) + 1 /\ Len(stack[Self]) \in Nat /\ (<<f>> \o stack[Self])[1] = f
    BY <1>3, PushIs
  <2>2. Len(<<f>> \o stack[Self]) >= 1
    BY <2>1
  <2> QED
    BY <1>7, <2>1, <2>2
<1>9. ASSUME NEW u \in Task PROVE Fits(Top(u)', u, stack'[u], 1)
  <2>1. CASE u = Self
    <3>1. Top(u)' = regs'
      BY <1>5, <1>6, <2>1 DEF Top
    <3>2. 1 <= Len(stack'[Self])
      BY <1>3, <1>7, <1>8, PushIs
    <3> QED
      BY <1>1, <1>5, <1>8, <2>1, <3>1, <3>2 DEF Fits
  <2>2. CASE u # Self
    BY <1>2, <1>5, <1>7, <2>2 DEF Top, TrapsInv, StackInv
  <2> QED
    BY <2>1, <2>2
<1>10. Fits(Below(f)', Self, stack[Self], 1)
  <2>1. Below(f)' = ctx[c].saved_regs /\ Top(Self) = ctx[c].saved_regs
    BY <1>0, <1>1, <1>2 DEF Below, Top
  <2> QED
    BY <1>3, <2>1 DEF TrapsInv, StackInv
<1>11. StackInv' /\ stack' \in [Task -> Seq(Frame)]
  BY <1>0, <1>2, <1>9, <1>10, StackPushed DEF TrapsInv
<1>12. TypeOK' /\ HandInv' /\ SleepInv' /\ MutexInv' /\ ValueInv'
  <2>1. /\ parked' \in [Task -> Regs] /\ mutex' \in 0..1 /\ entered' \in [Task -> Seq(Ctx)] /\ resets' \in 0..MaxResets
    BY <1>2, <1>3
  <2>2. regs'.at \notin {"callTrap", "exitTrap"} /\ emu \in {"run", "returnLock"}
        /\ emu' \in {"run", "returnLock"} /\ emu' # "returnLock"
    BY <1>0, <1>2, <1>5
  <2> QED
    BY <1>2, <1>5, <1>11, <2>1, <2>2, RunStep
<1>13. FramesInv'
  <2>1. \A b \in Ctx : OnStack(b) => FrameOK(b)'
    BY <1>2, <1>6, OnStackStays
  <2>2. FrameOK(f.ctx)'
    BY <1>1, <1>2, <1>6 DEF FrameOK, IsHand, Alive
  <2>3. ~OnStack(f.ctx)
    BY <1>0, <1>1, FramesOK DEF TrapsInv, FrameOK, IsHand
  <2> QED
    BY <1>0, <1>2, <2>1, <2>2, <2>3, FramesPushed DEF TrapsInv
<1>14. EnteredInv'
  <2>1. ASSUME NEW u \in Task PROVE Inside(entered[u], stack'[u], 0)
    <3>1. CASE u = Self
      <4>1. Inside(entered[u], stack[Self], 1) /\ entered[u][1] = f.ctx
        BY <1>0, <1>1, <1>3, <3>1 DEF TrapsInv, EnteredInv, HandOf
      <4>2. Inside(entered[u], <<f>> \o stack[Self], 0)
        BY <1>1, <1>3, <4>1, InsideCall
      <4> QED
        BY <1>7, <3>1, <4>2
    <3>2. CASE u # Self
      BY <1>7, <3>2 DEF TrapsInv, EnteredInv, HandOf
    <3> QED
      BY <3>1, <3>2
  <2> QED
    BY <1>2, <1>6, <2>1 DEF EnteredInv, HandOf
<1> QED
  BY <1>11, <1>12, <1>13, <1>14 DEF TrapsInv

(* The exit trap: on to wait for the thread.                                 *)
LEMMA ExitTrapKeeps ==
  ASSUME TrapsInv, ExitTrap
  PROVE  TrapsInv'
<1>0. emu = "run" /\ regs.at = "exitTrap" /\ InHand /\ Hand = current /\ TypeOK
  BY DEF ExitTrap, InHand, Hand, TrapsInv
<1>1. /\ emu' = "join" /\ emuCtx' = current /\ regs' = regs /\ parked' = parked /\ stack' = stack
      /\ mutex' = mutex /\ current' = current /\ ctx' = ctx /\ entered' = entered /\ resets' = resets
  BY DEF ExitTrap, cpuVars, lockVars
<1>2. InHand' /\ Hand' = Hand /\ Self' = Self /\ \A c \in Ctx : IsHand(c)' <=> IsHand(c)
  BY <1>0, <1>1 DEF InHand, Hand, Self, IsHand
<1>3. TypeOK'
  BY <1>0, <1>1 DEF TypeOK
<1>4. HandInv'
  BY <1>0, <1>1, <1>2 DEF TrapsInv, HandInv, Alive, Asleep
<1>5. SleepInv'
  BY <1>1, <1>2 DEF TrapsInv, SleepInv, Alive, Asleep
<1>6. MutexInv'
  BY <1>0, <1>1, <1>2 DEF TrapsInv, MutexInv, Alive, Masked
<1>7. ValueInv'
  BY <1>1 DEF TrapsInv, ValueInv, Alive
<1>8. StackInv'
  <2>1. ASSUME NEW t \in Task PROVE Top(t)' = Top(t)
    BY <1>0, <1>1, <1>2 DEF Top
  <2>2. \A t \in Task : Fits(Top(t)', t, stack[t], 1)
    BY <2>1 DEF TrapsInv, StackInv
  <2> QED
    BY <1>0, <1>1, <2>2, SameStacks DEF TrapsInv
<1>9. FramesInv'
  <2>1. ASSUME NEW c \in Ctx, OnStack(c) PROVE FrameOK(c)'
    <3>1. FrameOK(c)
      BY <2>1, FramesOK DEF TrapsInv
    <3> QED
      BY <1>1, <1>2, <3>1 DEF FrameOK, Alive
  <2> QED
    BY <1>0, <1>1, <2>1, FramesSame DEF TrapsInv
<1>10. EnteredInv'
  BY <1>0, <1>1, <1>2 DEF TrapsInv, EnteredInv, HandOf
<1> QED
  BY <1>3, <1>4, <1>5, <1>6, <1>7, <1>8, <1>9, <1>10 DEF TrapsInv
(* The function has returned: its context is found on the stack and is the   *)
(* one that it ran for.                                                      *)
LEMMA ReturnHandlerKeeps ==
  ASSUME TrapsInv, m68k_return_handler
  PROVE  TrapsInv' /\ KeepsAlive
<1> DEFINE s == stack[Self]
<1>0. emu = "returnLock" /\ mutex > 0 /\ ~InHand /\ TypeOK /\ regs.at = "returnTrap"
  BY DEF m68k_return_handler, InHand, TrapsInv, MutexInv
<1>1. /\ Self \in Task /\ regs \in Regs /\ parked \in [Task -> Regs] /\ stack \in [Task -> Seq(Frame)]
      /\ entered \in [Task -> Seq(Ctx)] /\ mutex \in 0..1 /\ resets \in 0..MaxResets
      /\ s \in Seq(Frame) /\ ctx \in [Ctx -> Context \cup {None}] /\ current \in Value
  BY <1>0, SelfType DEF TypeOK
<1>2. Len(s) \in Nat /\ 1 <= Len(s) /\ s[1].kind = "call" /\ s[1].ctx = regs.d0
  <2>1. Fits(regs, Self, s, 1)
    <3>1. Top(Self) = regs
      BY <1>0 DEF Top
    <3> QED
      BY <1>1, <3>1 DEF TrapsInv, StackInv
  <2> QED
    BY <1>0, <1>1, <2>1 DEF Fits
<1>3. CallAt(s, 1) /\ s # <<>> /\ 1 \in 1..Len(s)
  BY <1>2 DEF CallAt
<1>4. /\ Tail(s) \in Seq(Frame) /\ Len(s) = Len(Tail(s)) + 1 /\ Len(Tail(s)) \in Nat /\ Head(s) = s[1] /\ Head(s) \in Frame
  BY <1>1, <1>3, PopIs
<1>5. PICK c \in Ctx : c = Head(s).ctx /\ c = regs.d0 /\ OnStack(c)
  <2>1. s[1].ctx \in Ctx
    BY <1>0, <1>1, <1>3, FrameIs
  <2> QED
    BY <1>1, <1>2, <1>3, <1>4, <2>1 DEF OnStack
<1>6. Alive(c) /\ ctx[c].pc = "callWait" /\ Asleep(c)
  <2>1. Alive(c) /\ ctx[c].pc = "callWait"
    BY <1>5, FramesOK DEF TrapsInv, FrameOK
  <2>2. Asleep(c)
    BY <1>0, <2>1, AllAsleep
  <2> QED
    BY <2>1, <2>2
<1>7. ctx[c] \in Context
  BY <1>0, <1>6, CtxIs
<1> DEFINE e == [ctx[c] EXCEPT !.call_retval = c, !.regs = regs, !.switch_to_trap = 1]
<1>8. /\ mutex' = 0 /\ stack' = [stack EXCEPT ![Self] = Tail(@)] /\ emuCtx' = c /\ emu' = "handoff"
      /\ regs' = regs /\ parked' = parked /\ current' = current /\ entered' = entered /\ resets' = resets
  BY <1>0, <1>1, <1>5 DEF m68k_return_handler, Return, Pop
<1>9. ctx' = [ctx EXCEPT ![c] = e]
  <2>1. ctx' = [ctx EXCEPT ![c].call_retval = regs.d0, ![c].regs = regs, ![c].switch_to_trap = @ + 1]
    BY <1>5 DEF m68k_return_handler, Return
  <2>2. ctx[c].switch_to_trap + 1 = 1
    BY <1>6 DEF Asleep
  <2>3. [[[ctx[c] EXCEPT !.call_retval = regs.d0] EXCEPT !.regs = regs] EXCEPT !.switch_to_trap = ctx[c].switch_to_trap + 1] = e
    BY <1>5, <1>7, <2>2 DEF Context
  <2> QED
    BY <1>1, <1>5, <1>7, <2>1, <2>2, <2>3 DEF Context
<1>10. e \in Context
  <2>1. 1 \in 0..1 /\ c \in Value
    BY DEF Value
  <2> QED
    BY <1>1, <1>7, <2>1 DEF Context
<1>11. /\ e.switch_to_emu = 0 /\ e.switch_to_trap = 1 /\ e.pc = "callWait" /\ e.regs = regs /\ e.call_retval = c
       /\ e.saved_regs = ctx[c].saved_regs /\ e.func_addr = ctx[c].func_addr /\ e.trap_retval = ctx[c].trap_retval
  BY <1>6, <1>7 DEF Context, Asleep
<1> HIDE DEF e
<1>12. e # None
  BY <1>10, NoneAssumption
<1>13. /\ ctx' \in [Ctx -> Context \cup {None}] /\ ctx'[c] = e /\ \A b \in Ctx : b # c => ctx'[b] = ctx[b]
  BY <1>1, <1>9, <1>10
<1>14. InHand' /\ Hand' = c /\ Self' = Self /\ \A b \in Ctx : IsHand(b)' <=> b = c
  BY <1>8 DEF InHand, Hand, Self, IsHand
<1>15. stack'[Self] = Tail(s) /\ \A u \in Task : u # Self => stack'[u] = stack[u]
  BY <1>1, <1>8
<1>16. Works(c)' /\ ~AsksEmu(c)' /\ Alive(c)'
  BY <1>11, <1>12, <1>13 DEF Works, AsksTrap, AsksEmu, Alive
<1>17. HandInv'
  <2>1. ctx'[c].regs.task = Self
    BY <1>11, <1>13 DEF Self
  <2>2. Works(Hand)' /\ Alive(Hand)'
    BY <1>14, <1>16 DEF Works, Alive, Asleep, AsksTrap, AsksEmu
  <2> QED
    BY <1>8, <1>14, <2>1, <2>2 DEF HandInv
<1>18. SleepInv'
  <2> SUFFICES ASSUME NEW b \in Ctx, Alive(b)', ~IsHand(b)'
               PROVE  (ctx[b].pc \in {"callWait", "finishing", "exited"} /\ Asleep(b))'
    BY DEF SleepInv
  <2>1. ctx'[b] = ctx[b] /\ Alive(b)
    BY <1>13, <1>14 DEF Alive
  <2>2. ctx[b].pc \in {"callWait", "finishing", "exited"} /\ Asleep(b)
    BY <1>0, <2>1, AllAsleep
  <2> QED
    BY <2>1, <2>2 DEF Asleep
<1>19. MutexInv'
  <2>1. Masked(regs)
    BY DEF TrapsInv, MutexInv
  <2>2. \A b \in Ctx : Alive(b)' => Masked(ctx'[b].regs)
    BY <1>11, <1>13, <2>1 DEF TrapsInv, MutexInv, Alive
  <2> QED
    BY <1>8, <1>14, <1>16, <2>1, <2>2 DEF MutexInv, AsksEmu
<1>20. ValueInv'
  <2> SUFFICES ASSUME NEW b \in Ctx, Alive(b)'
               PROVE  (/\ ctx[b].saved_regs.at \in {"code", "func"}
                       /\ ctx[b].pc = "callWait" => ctx[b].func_addr = b
                       /\ ctx[b].pc = "callDone" \/ (ctx[b].pc = "callWait" /\ ctx[b].switch_to_trap = 1) => ctx[b].call_retval = b
                       /\ ctx[b].pc \in {"exitLock", "finishing", "exited"} => ctx[b].trap_retval = b)'
    BY DEF ValueInv
  <2>1. CASE b = c
    BY <1>6, <1>11, <1>13, <2>1 DEF TrapsInv, ValueInv
  <2>2. CASE b # c
    BY <1>13, <2>2 DEF TrapsInv, ValueInv, Alive
  <2> QED
    BY <2>1, <2>2
<1>21. \A b \in Ctx : ctx'[b].saved_regs = ctx[b].saved_regs
  BY <1>11, <1>13
<1>22. StackInv' /\ stack' \in [Task -> Seq(Frame)]
  <2>1. Fits(ctx[c].saved_regs, Self, Tail(s), 1)
    <3>1. Below(s[1]) = ctx[c].saved_regs
      BY <1>2, <1>4, <1>5 DEF Below
    <3>2. Fits(ctx[c].saved_regs, Self, s, 1 + 1)
      BY <1>1, <1>3, <3>1 DEF TrapsInv, StackInv
    <3> QED
      BY <1>1, <1>3, <3>2, FitsPopped
  <2>2. ASSUME NEW u \in Task PROVE Fits(Top(u)', u, stack'[u], 1)
    <3>1. CASE u = Self
      BY <1>14, <1>15, <1>21, <2>1, <3>1 DEF Top
    <3>2. CASE u # Self
      BY <1>8, <1>14, <1>15, <3>2 DEF Top, TrapsInv, StackInv
    <3> QED
      BY <3>1, <3>2
  <2>3. \A t \in Task, i \in Nat : CallAt(stack[t], i) => ctx'[stack[t][i].ctx].saved_regs = ctx[stack[t][i].ctx].saved_regs
    BY <1>0, <1>21, FrameIs
  <2> QED
    BY <1>0, <1>3, <1>8, <2>2, <2>3, StackPopped DEF TrapsInv
<1>23. TypeOK'
  BY <1>0, <1>1, <1>8, <1>13, <1>22 DEF TypeOK, Value
<1>24. FramesInv'
  <2>1. ASSUME NEW b \in Ctx, OnStack(b), b # c PROVE FrameOK(b)'
    <3>1. FrameOK(b)
      BY <2>1, FramesOK DEF TrapsInv
    <3> QED
      BY <1>13, <1>14, <2>1, <3>1 DEF FrameOK, Alive
  <2>2. \A b \in Ctx : OnStack(b) => FrameOK(b)' \/ (CallAt(stack[Self], 1) /\ stack[Self][1].ctx = b)
    BY <1>3, <1>4, <1>5, <2>1
  <2> QED
    BY <1>0, <1>3, <1>8, <2>2, FramesPopped DEF TrapsInv
<1>25. EnteredInv'
  <2>1. Inside(entered[Self], Tail(s), 1) /\ entered[Self][1] = c
    <3>1. Inside(entered[Self], s, 0)
      BY <1>0, <1>1 DEF TrapsInv, EnteredInv, HandOf
    <3>2. s = <<Head(s)>> \o Tail(s)
      BY <1>1, <1>3, HeadTailIs
    <3>3. Inside(entered[Self], <<Head(s)>> \o Tail(s), 0)
      BY <3>1, <3>2
    <3>4. Head(s).kind = "call"
      BY <1>2, <1>4
    <3> QED
      BY <1>4, <1>5, <3>3, <3>4, InsideCall
  <2>2. ASSUME NEW u \in Task PROVE Inside(entered'[u], stack'[u], HandOf(u)')
    <3>1. CASE u = Self
      BY <1>8, <1>14, <1>15, <2>1, <3>1 DEF HandOf
    <3>2. CASE u # Self
      BY <1>0, <1>8, <1>14, <1>15, <3>2 DEF TrapsInv, EnteredInv, HandOf
    <3> QED
      BY <3>1, <3>2
  <2> QED
    BY <1>8, <1>14, <2>1, <2>2 DEF EnteredInv
<1>26. KeepsAlive
  BY <1>12, <1>13 DEF KeepsAlive, Alive
<1> QED
  BY <1>26, <1>17, <1>18, <1>19, <1>20, <1>22, <1>23, <1>24, <1>25 DEF TrapsInv

(* The trap in hand ends: the task goes on as it was when it entered.        *)
LEMMA ExitHandlerKeeps ==
  ASSUME TrapsInv, exit_trap_handler
  PROVE  TrapsInv'
<1>0. emu = "join" /\ InHand /\ Hand = emuCtx /\ TypeOK
  BY DEF exit_trap_handler, InHand, Hand, TrapsInv
<1> PICK c \in Ctx : c = emuCtx /\ Alive(c)
  BY <1>0 DEF TrapsInv, HandInv
<1>1. /\ emu' = "run" /\ emuCtx' = None /\ parked' = parked /\ stack' = stack /\ mutex' = mutex + 1 /\ current' = current
      /\ resets' = resets /\ ctx' = [ctx EXCEPT ![c] = None] /\ entered' = [entered EXCEPT ![Self] = Tail(@)]
      /\ regs' = [ctx[c].saved_regs EXCEPT !.d0 = IF ctx[c].has_retval THEN ctx[c].trap_retval ELSE @]
  BY DEF exit_trap_handler
<1>2. /\ Self \in Task /\ regs \in Regs /\ parked \in [Task -> Regs] /\ stack \in [Task -> Seq(Frame)]
      /\ entered \in [Task -> Seq(Ctx)] /\ entered[Self] \in Seq(Ctx) /\ mutex = 0 /\ resets \in 0..MaxResets
      /\ stack[Self] \in Seq(Frame) /\ ctx \in [Ctx -> Context \cup {None}] /\ current \in Value
  BY <1>0, SelfType DEF TypeOK, TrapsInv, MutexInv
<1>3. ctx[c].saved_regs \in Regs /\ ctx[c].trap_retval \in Value /\ ctx[c].saved_regs.at \in {"code", "func"}
  BY <1>0, CtxIs DEF TrapsInv, ValueInv
<1>4. /\ regs' \in Regs /\ regs'.at = ctx[c].saved_regs.at /\ regs'.task = ctx[c].saved_regs.task
      /\ regs'.fn = ctx[c].saved_regs.fn
  BY <1>1, <1>3 DEF Regs
<1>5. Fits(ctx[c].saved_regs, Self, stack[Self], 1)
  <2>1. Top(Self) = ctx[c].saved_regs
    BY <1>0 DEF Top
  <2> QED
    BY <1>2, <2>1 DEF TrapsInv, StackInv
<1>6. Fits(regs', Self, stack[Self], 1) /\ Self' = Self
  BY <1>3, <1>4, <1>5 DEF Fits, Self
<1>7. ~InHand'
  BY <1>1, <1>3, <1>4 DEF InHand
<1>8. /\ ctx' \in [Ctx -> Context \cup {None}] /\ ctx'[c] = None /\ \A b \in Ctx : b # c => ctx'[b] = ctx[b]
  BY <1>1, <1>2
<1>9. \A b \in Ctx : Alive(b)' => b # c /\ ctx'[b] = ctx[b] /\ Alive(b)
  BY <1>8 DEF Alive
<1>10. entered'[Self] = Tail(entered[Self]) /\ \A u \in Task : u # Self => entered'[u] = entered[u]
  BY <1>1, <1>2
<1>11. /\ entered[Self] # <<>> /\ Tail(entered[Self]) \in Seq(Ctx) /\ Inside(Tail(entered[Self]), stack[Self], 0)
  <2>1. Inside(entered[Self], stack[Self], 1)
    BY <1>0, <1>2 DEF TrapsInv, EnteredInv, HandOf
  <2> QED
    BY <1>2, <2>1, InsideExit
<1>12. TypeOK'
  <2>1. entered' \in [Task -> Seq(Ctx)]
    BY <1>1, <1>2, <1>11
  <2>2. mutex' \in 0..1 /\ emuCtx' \in Value
    BY <1>1, <1>2 DEF Value
  <2> QED
    BY <1>1, <1>2, <1>4, <1>8, <2>1, <2>2 DEF TypeOK
<1>13. HandInv'
  BY <1>7 DEF HandInv
<1>14. SleepInv'
  <2> SUFFICES ASSUME NEW b \in Ctx, Alive(b)'
               PROVE  (ctx[b].pc \in {"callWait", "finishing", "exited"} /\ Asleep(b))'
    BY DEF SleepInv
  <2>1. ctx[b].pc \in {"callWait", "finishing", "exited"} /\ Asleep(b)
    BY <1>0, <1>9, AllAsleep
  <2> QED
    BY <1>9, <2>1 DEF Asleep
<1>15. MutexInv'
  <2>1. Masked(regs')
    BY <1>3, <1>4 DEF Masked
  <2>2. \A b \in Ctx : Alive(b)' => Masked(ctx'[b].regs)
    BY <1>9 DEF TrapsInv, MutexInv
  <2> QED
    BY <1>1, <1>7, <2>1, <2>2 DEF MutexInv
<1>16. ValueInv'
  <2> SUFFICES ASSUME NEW b \in Ctx, Alive(b)'
               PROVE  (/\ ctx[b].saved_regs.at \in {"code", "func"}
                       /\ ctx[b].pc = "callWait" => ctx[b].func_addr = b
                       /\ ctx[b].pc = "callDone" \/ (ctx[b].pc = "callWait" /\ ctx[b].switch_to_trap = 1) => ctx[b].call_retval = b
                       /\ ctx[b].pc \in {"exitLock", "finishing", "exited"} => ctx[b].trap_retval = b)'
    BY DEF ValueInv
  <2> QED
    BY <1>9 DEF TrapsInv, ValueInv
<1>17. \A b \in Ctx : OnStack(b) => b # c
  BY <1>0, FramesOK DEF TrapsInv, FrameOK, IsHand
<1>18. StackInv'
  <2>1. ASSUME NEW u \in Task PROVE Fits(Top(u)', u, stack[u], 1)
    <3>1. CASE u = Self
      BY <1>6, <1>7, <3>1 DEF Top
    <3>2. CASE u # Self
      BY <1>1, <1>6, <3>2 DEF Top, TrapsInv, StackInv
    <3> QED
      BY <3>1, <3>2
  <2>2. ASSUME NEW t \in Task, NEW i \in Nat, CallAt(stack[t], i)
        PROVE  ctx'[stack[t][i].ctx].saved_regs = ctx[stack[t][i].ctx].saved_regs
    <3>1. stack[t][i].ctx \in Ctx /\ OnStack(stack[t][i].ctx)
      BY <1>0, <2>2, FrameIs DEF OnStack
    <3> QED
      BY <1>8, <1>17, <3>1
  <2> QED
    BY <1>0, <1>1, <2>1, <2>2, SameStacks DEF TrapsInv
<1>19. FramesInv'
  <2>1. ASSUME NEW b \in Ctx, OnStack(b) PROVE FrameOK(b)'
    <3>1. FrameOK(b)
      BY <2>1, FramesOK DEF TrapsInv
    <3> QED
      BY <1>7, <1>8, <1>17, <2>1, <3>1 DEF FrameOK, Alive, IsHand
  <2> QED
    BY <1>0, <1>1, <2>1, FramesSame DEF TrapsInv
<1>20. EnteredInv'
  <2>1. ASSUME NEW u \in Task PROVE Inside(entered'[u], stack'[u], 0)
    <3>1. CASE u = Self
      BY <1>1, <1>10, <1>11, <3>1
    <3>2. CASE u # Self
      BY <1>1, <1>10, <3>2 DEF TrapsInv, EnteredInv, HandOf
    <3> QED
      BY <3>1, <3>2
  <2> QED
    BY <1>7, <2>1 DEF EnteredInv, HandOf
<1> QED
  BY <1>12, <1>13, <1>14, <1>15, <1>16, <1>18, <1>19, <1>20 DEF TrapsInv
-----------------------------------------------------------------------------
(* At the start no trap is called.                                           *)
LEMMA InitInv == Init => TrapsInv
<1> SUFFICES ASSUME Init PROVE TrapsInv
  OBVIOUS
<1>1. PICK u \in Task : regs = Fresh(u)
  BY DEF Init
<1>2. \A t \in Task : Fresh(t) \in Regs /\ Fresh(t).at = "code" /\ Fresh(t).task = t
  BY DEF Fresh, Regs, Value
<1>3. ~InHand /\ Self = u
  BY <1>1, <1>2 DEF Init, InHand, Self
<1>4. \A c \in Ctx : ~Alive(c)
  BY DEF Init, Alive
<1>5. \A t \in Task : stack[t] = <<>> /\ Len(stack[t]) = 0 /\ entered[t] = <<>> /\ parked[t] = Fresh(t)
  BY DEF Init
<1>6. TypeOK
  <2>1. <<>> \in Seq(Frame) /\ <<>> \in Seq(Ctx)
    BY EmptySeq
  <2>2. 1 \in 0..1 /\ 0 \in 0..MaxResets
    BY TrapsAssumption
  <2> QED
    BY <1>1, <1>2, <2>1, <2>2 DEF Init, TypeOK, Value
<1>7. HandInv /\ SleepInv /\ ValueInv
  BY <1>3, <1>4 DEF HandInv, SleepInv, ValueInv
<1>8. MutexInv
  BY <1>1, <1>2, <1>3, <1>4 DEF MutexInv, Masked, Init
<1>9. StackInv
  <2>1. ASSUME NEW t \in Task PROVE Fits(Top(t), t, stack[t], 1)
    <3>1. Top(t) = Fresh(t)
      BY <1>1, <1>3, <1>5 DEF Top
    <3> QED
      BY <1>2, <3>1 DEF Fits
  <2>2. ASSUME NEW t \in Task, NEW i \in 1..Len(stack[t]) PROVE FALSE
    <3>1. Len(stack[t]) = 0
      BY <1>5
    <3> QED
      BY <3>1
  <2> QED
    BY <2>1, <2>2 DEF StackInv
<1>10. \A t \in Task, i \in Nat : ~CallAt(stack[t], i)
  BY <1>5 DEF CallAt
<1>11. FramesInv
  BY <1>10 DEF FramesInv
<1>12. EnteredInv
  <2>1. ASSUME NEW t \in Task PROVE Inside(entered[t], stack[t], 0)
    <3>1. Rank(stack[t], 0) = 0
      BY RankType
    <3>2. Len(entered[t]) = Rank(stack[t], Len(stack[t])) + 0
      BY <1>5, <3>1
    <3> QED
      BY <1>10, <3>2 DEF Inside
  <2> QED
    BY <1>3, <2>1 DEF EnteredInv, HandOf
<1> QED
  BY <1>6, <1>7, <1>8, <1>9, <1>11, <1>12 DEF TrapsInv

(* Every step keeps the invariant.                                           *)
LEMMA NextInv == TrapsInv /\ [Next]_vars => TrapsInv'
<1> SUFFICES ASSUME TrapsInv, [Next]_vars PROVE TrapsInv'
  OBVIOUS
<1>1. CASE UNCHANGED vars
  <2> USE <1>1 DEF vars, cpuVars, emuVars, lockVars
  <2>1. TypeOK' /\ HandInv' /\ SleepInv' /\ MutexInv' /\ ValueInv'
    BY DEF TrapsInv, TypeOK, HandInv, SleepInv, MutexInv, ValueInv, InHand, Hand, IsHand, Self, Works, Asleep, AsksEmu,
           AsksTrap, Alive, Masked
  <2>2. (InHand' <=> InHand) /\ Hand' = Hand /\ Self' = Self
    BY DEF InHand, Hand, Self
  <2>3. StackInv'
    <3>1. ASSUME NEW t \in Task PROVE Top(t)' = Top(t)
      BY <2>2 DEF Top
    <3>2. \A t \in Task : Fits(Top(t)', t, stack[t], 1)
      BY <3>1 DEF TrapsInv, StackInv
    <3> QED
      BY <3>2, SameStacks DEF TrapsInv
  <2>4. FramesInv'
    <3>1. ASSUME NEW c \in Ctx, OnStack(c) PROVE FrameOK(c)'
      <4>1. FrameOK(c)
        BY <3>1, FramesOK DEF TrapsInv
      <4> QED
        BY <2>2, <4>1 DEF FrameOK, Alive, IsHand
    <3> QED
      BY <3>1, FramesSame DEF TrapsInv
  <2>5. EnteredInv'
    BY <2>2 DEF TrapsInv, EnteredInv, HandOf
  <2> QED
    BY <2>1, <2>3, <2>4, <2>5 DEF TrapsInv
<1>2. CASE Code68k
  BY <1>2, SwitchTaskKeeps, InterruptKeeps, InterruptEndKeeps, FunctionReturnsKeeps DEF Code68k
<1>3. CASE Reset
  BY <1>3, ResetKeeps
<1>4. CASE Traps
  BY <1>4, ResumeKeeps, CallHandlerKeeps, ReturnTrapKeeps, ReturnHandlerKeeps, ExitTrapKeeps, ExitHandlerKeeps DEF Traps
<1>5. CASE \E c \in Ctx, ret \in BOOLEAN : EnterTrap(c, ret)
  BY <1>5, EnterTrapKeeps
<1>6. CASE \E c \in Ctx : ThreadStep(c)
  <2>1. PICK c \in Ctx : ThreadStep(c)
    BY <1>6
  <2>2. CASE ThreadEnds(c)
    BY <2>2, ThreadEndsKeeps
  <2>3. CASE ~ThreadEnds(c)
    BY <2>1, <2>3, ThreadKeeps
  <2> QED
    BY <2>2, <2>3
<1> QED
  BY <1>1, <1>2, <1>3, <1>4, <1>5, <1>6 DEF Next

(* The invariant holds of every run: of all tasks, contexts and resets.      *)
THEOREM Invariance == Spec => []TrapsInv
<1>1. Init => TrapsInv
  BY InitInv
<1>2. TrapsInv /\ [Next]_vars => TrapsInv'
  BY NextInv
<1> QED
  BY <1>1, <1>2, PTL DEF Spec

(* Every register, frame and context is what its type says (traps.c:122).    *)
THEOREM TrapTypes == Spec => []TypeOK
<1>1. TrapsInv => TypeOK
  BY DEF TrapsInv
<1> QED
  BY <1>1, Invariance, PTL

(* No handler runs beside the interpreter or beside another handler: the     *)
(* semaphores of a context (traps.c:267, 363) pass the 68k state to one user *)
(* at a time.                                                                *)
THEOREM OneRunsAtATime == Spec => []OneRunner
<1>1. ASSUME TrapsInv, NEW c \in Ctx, Active(c) PROVE emu = "handoff" /\ c = emuCtx
  BY <1>1, AwakeIsHand DEF Active
<1>2. TrapsInv => OneRunner
  BY <1>1 DEF OneRunner
<1> QED
  BY <1>2, Invariance, PTL

(* A context pointer found on a 68k stack (m68k_return_handler,              *)
(* traps.c:365) is that of one call, not yet ended.                          *)
THEOREM StackedContextsLive == Spec => []FramesAlive
<1>1. ASSUME TrapsInv, NEW t \in Task, NEW u \in Task, NEW i \in DOMAIN stack[t], NEW j \in DOMAIN stack[u],
             stack[t][i].kind = "call"
      PROVE  At(stack[t][i].ctx, "callWait") /\ (stack[u][j] = stack[t][i] => t = u /\ i = j)
  <2>1. stack[t] \in Seq(Frame) /\ stack[u] \in Seq(Frame)
    BY <1>1 DEF TrapsInv, TypeOK
  <2>2. i \in Nat /\ j \in Nat /\ CallAt(stack[t], i) /\ j \in 1..Len(stack[u])
    BY <1>1, <2>1 DEF CallAt
  <2>3. At(stack[t][i].ctx, "callWait")
    BY <1>1, <2>2 DEF TrapsInv, FramesInv, At
  <2>4. stack[u][j] = stack[t][i] => CallAt(stack[u], j)
    BY <1>1, <2>2 DEF CallAt
  <2>5. stack[u][j] = stack[t][i] => t = u /\ i = j
    BY <1>1, <2>2, <2>4, FramesUnique DEF TrapsInv
  <2> QED
    BY <2>3, <2>5
<1>2. TrapsInv => FramesAlive
  BY <1>1 DEF FramesAlive
<1> QED
  BY <1>2, Invariance, PTL

(* The call and exit traps find current_context (traps.c:336, 381) to be the *)
(* running task's innermost trap, and a handler's result is its call's.      *)
THEOREM CallsGoHome == Spec => []CallsAreOwn
<1>1. TrapsInv => CallGetsOwnResult
  BY DEF TrapsInv, ValueInv, CallGetsOwnResult, At
<1>2. ASSUME TrapsInv, emu = "run", regs.at \in {"callTrap", "exitTrap"}
      PROVE  entered[Self] # <<>> /\ current = Head(entered[Self]) /\ (At(current, "callWait") <=> regs.at = "callTrap")
  <2>1. InHand /\ Hand = current /\ TypeOK
    BY <1>2 DEF InHand, Hand, TrapsInv
  <2>2. Self \in Task /\ stack[Self] \in Seq(Frame) /\ entered[Self] \in Seq(Ctx)
    BY <2>1, SelfType
  <2>3. Inside(entered[Self], stack[Self], 1) /\ entered[Self][1] = current
    BY <1>2, <2>1, <2>2 DEF TrapsInv, EnteredInv, HandOf
  <2>4. entered[Self] # <<>> /\ Head(entered[Self]) = entered[Self][1]
    BY <2>2, <2>3, InsideExit
  <2>5. At(current, "callWait") <=> regs.at = "callTrap"
    BY <1>2, <2>1 DEF TrapsInv, HandInv, At
  <2> QED
    BY <2>3, <2>4, <2>5
<1>3. TrapsInv => CallsAreOwn
  BY <1>1, <1>2 DEF CallsAreOwn, CurrentIsCaller
<1> QED
  BY <1>3, Invariance, PTL

(* Only the end of a trap frees its context.                                 *)
LEMMA OnlyExitFrees ==
  ASSUME TrapsInv, Next, NEW c \in Ctx, Alive(c), ~Alive(c)'
  PROVE  exit_trap_handler /\ c = emuCtx
<1>1. ctx' # ctx /\ ~KeepsAlive
  BY DEF KeepsAlive, Alive
<1>2. ~(Code68k \/ Reset \/ m68k_call_handler \/ ReturnTrap \/ ExitTrap)
  BY <1>1 DEF Code68k, SwitchTask, Interrupt, InterruptEnd, FunctionReturns, Reset, m68k_call_handler, ReturnTrap, ExitTrap
<1>3. ~(Resume \/ m68k_return_handler)
  BY <1>1, ResumeKeeps, ReturnHandlerKeeps
<1>4. ~(\E b \in Ctx, ret \in BOOLEAN : EnterTrap(b, ret))
  BY <1>1, EnterTrapKeeps
<1>5. ASSUME NEW b \in Ctx, ThreadStep(b) PROVE FALSE
  <2>1. CASE ThreadEnds(b)
    BY <1>1, <2>1, ThreadEndsKeeps
  <2>2. CASE ~ThreadEnds(b)
    BY <1>1, <1>5, <2>2, ThreadKeeps
  <2> QED
    BY <2>1, <2>2
<1>6. exit_trap_handler
  BY <1>2, <1>3, <1>4, <1>5 DEF Next, Traps
<1>7. ctx \in [Ctx -> Context \cup {None}] /\ ctx' = [ctx EXCEPT ![emuCtx] = None]
  BY <1>6 DEF TrapsInv, TypeOK, exit_trap_handler
<1> QED
  BY <1>6, <1>7 DEF Alive

(* A trap that ends (exit_trap_handler, traps.c:405) is the running task's   *)
(* innermost and gives that task its registers and interrupt mask back, D0   *)
(* but where the trap has a result.                                          *)
THEOREM ExitIsToCaller == Spec => ExitReturnsToCaller
<1>1. ASSUME TrapsInv, Next, NEW c \in Ctx, Alive(c), ~Alive(c)'
      PROVE  /\ c = Head(entered[Self]) /\ regs'.task = Self
             /\ regs'.at = ctx[c].saved_regs.at /\ regs'.mask = ctx[c].saved_regs.mask
             /\ regs'.d0 = IF ctx[c].has_retval THEN c ELSE ctx[c].saved_regs.d0
  <2>1. exit_trap_handler /\ c = emuCtx
    BY <1>1, OnlyExitFrees
  <2>2. emu = "join" /\ ctx[c].pc = "exited" /\ InHand /\ Hand = c /\ TypeOK
    BY <1>1, <2>1 DEF exit_trap_handler, At, InHand, Hand, TrapsInv
  <2>3. Self \in Task /\ stack[Self] \in Seq(Frame) /\ entered[Self] \in Seq(Ctx)
    BY <2>2, SelfType
  <2>4. Inside(entered[Self], stack[Self], 1) /\ entered[Self][1] = c
    BY <1>1, <2>2, <2>3 DEF TrapsInv, EnteredInv, HandOf
  <2>5. Head(entered[Self]) = c
    BY <2>3, <2>4, InsideExit
  <2>6. ctx[c].trap_retval = c /\ ctx[c].saved_regs \in Regs
    BY <1>1, <2>2, CtxIs DEF TrapsInv, ValueInv
  <2>7. regs' = [ctx[c].saved_regs EXCEPT !.d0 = IF ctx[c].has_retval THEN ctx[c].trap_retval ELSE @]
    BY <2>1 DEF exit_trap_handler
  <2>8. Top(Self) = ctx[c].saved_regs
    BY <2>2 DEF Top
  <2>9. ctx[c].saved_regs.task = Self
    BY <1>1, <2>3, <2>8 DEF TrapsInv, StackInv, Fits
  <2>10. /\ regs'.task = ctx[c].saved_regs.task /\ regs'.at = ctx[c].saved_regs.at /\ regs'.mask = ctx[c].saved_regs.mask
         /\ regs'.d0 = IF ctx[c].has_retval THEN ctx[c].trap_retval ELSE ctx[c].saved_regs.d0
    BY <2>6, <2>7 DEF Regs
  <2> QED
    BY <2>5, <2>6, <2>9, <2>10
<1>2. ASSUME TrapsInv, [Next]_vars, NEW c \in Ctx, Alive(c), ~Alive(c)' PROVE Next
  <2>1. ctx' # ctx
    BY <1>2 DEF Alive
  <2> QED
    BY <1>2, <2>1 DEF vars
<1>3. TrapsInv /\ [Next]_vars =>
        [\A c \in Ctx : (Alive(c) /\ ~Alive(c)') =>
           LET saved == ctx[c].saved_regs
           IN  /\ c = Head(entered[Self]) /\ regs'.task = Self
               /\ regs'.at = saved.at /\ regs'.mask = saved.mask
               /\ regs'.d0 = IF ctx[c].has_retval THEN c ELSE saved.d0]_vars
  BY <1>1, <1>2
<1> QED
  BY <1>3, Invariance, PTL DEF Spec, ExitReturnsToCaller
=============================================================================
