--------------------------- MODULE M68kIntProofs ----------------------------
(* Proofs about M68kInt, for any number of priority levels, with and without *)
(* trace, saved states and extended traps: no interrupt request is forgotten *)
(* but in the three gaps that the code has, and at most one instruction (two *)
(* in cycle-exact mode) separates it from its service.                       *)
EXTENDS M68kInt, WellFoundedInduction, TLAPS

At == {"fetch", "cycles", "special", "stop", "rest", "out"}

(* A request that the mask lets through and no flag stands for is in passed, *)
(* at every point of the interpreter.                                        *)
Flagged == {"INT", "DOINT"} \cap spcflags = {} => Due \subseteq passed

(* SPCFLAG_DOINT belongs to the mode that is not cycle-exact.                *)
ExactInv == exact => "DOINT" \notin spcflags

(* Before an instruction, a due request that is not passed over has not been *)
(* delayed, or, in cycle-exact mode, is still on its way and has waited for  *)
(* fewer instructions than it has been on its way.                           *)
FetchInv == at \in {"fetch", "out"} => \A l \in Due \ passed :
  IF exact THEN late[l] <= 1 /\ late[l] < onWay[l] ELSE late[l] = 0

(* Until the flags are looked at again, a delayed request has a flag that    *)
(* will have it served, or is still on its way.                              *)
RunInv == at \in {"cycles", "special", "stop", "rest"} =>
  \A l \in Line : late[l] >= 1 =>
    /\ l \in Due \ passed
    /\ IF exact THEN late[l] <= 2 /\ late[l] < onWay[l]
                ELSE late[l] <= 1 /\ "DOINT" \in spcflags

CpuInv ==
  /\ CpuTypeOK /\ Flagged /\ ExactInv /\ GapsAreKnown /\ ServedSoon
  /\ FetchInv /\ RunInv

(* What an extended trap will put back: nothing that the mode does not have, *)
(* and only where the program uses such traps.                               *)
TrapInv ==
  /\ TrapTypeOK
  /\ exact => \A c \in Contexts : "DOINT" \notin saved_regs[c].spcflags
  /\ live # {} => "traps" \in uses

M68kInv == CpuInv /\ TrapInv

(* The levels, and the masks of a 68k.                                       *)
LEMMA LevelFacts == Levels \in Nat \ {0} /\ Line = 1..Levels /\ Mask = 0..Levels
BY M68kAssumption DEF M68kAssumption, Line, Mask

(* A nonempty set of levels has a highest one.                               *)
LEMMA HighestLevel ==
  ASSUME NEW S \in SUBSET Mask, S # {}
  PROVE  Max(S) \in S /\ \A l \in S : l <= Max(S)
<1> DEFINE T == {n \in Nat : \E l \in S : n = Levels - l}
<1>1. T \subseteq Nat /\ T # {}
  <2>1. PICK l \in S : TRUE
    OBVIOUS
  <2>2. Levels - l \in Nat
    BY LevelFacts
  <2> QED
    BY <2>1, <2>2
<1>2. PICK n \in T : \A k \in T : ~ (<<k, n>> \in OpToRel(<, Nat))
  BY <1>1, NatLessThanWellFounded, WFMin
<1>3. ASSUME NEW k \in T PROVE n <= k
  <2>1. n \in Nat /\ k \in Nat
    BY <1>1
  <2>2. OpToRel(<, Nat) = {ss \in Nat \X Nat : ss[1] < ss[2]}
    BY DEF OpToRel
  <2>3. ~ (k < n)
    BY <1>2, <2>1, <2>2
  <2> QED
    BY <2>1, <2>3
<1>4. PICK h \in S : n = Levels - h
  OBVIOUS
<1>5. ASSUME NEW l \in S PROVE l <= h
  <2>1. Levels - l \in T
    BY LevelFacts
  <2> QED
    <3>1. n <= Levels - l
      BY <2>1, <1>3
    <3>2. n = Levels - h /\ l \in Nat /\ h \in Nat /\ Levels \in Nat
      BY <1>4, LevelFacts
    <3> QED
      BY <3>1, <3>2
<1>6. \A x \in S : x \in Nat
  BY LevelFacts
<1>7. h \in S /\ \A y \in S : h >= y
  BY <1>4, <1>5, <1>6
<1>8. Max(S) \in S /\ \A y \in S : Max(S) >= y
  BY <1>7 DEF Max
<1> QED
  BY <1>8, <1>6

(* What intlev returns: the highest line that has arrived, or 0.             *)
LEMMA IntlevFacts ==
  ASSUME NEW gone \in SUBSET Line, imask \subseteq Line
  PROVE  /\ intlev(gone) \in Mask
         /\ intlev(gone) # 0 => intlev(gone) \in Arrived(gone)
         /\ \A l \in Arrived(gone) : l <= intlev(gone)
<1>1. Arrived(gone) \cup {0} \in SUBSET Mask /\ Arrived(gone) \cup {0} # {}
  <2>1. Arrived(gone) \subseteq Line
    BY DEF Arrived
  <2>2. 0 \in Mask /\ Line \subseteq Mask
    BY LevelFacts
  <2> QED
    BY <2>1, <2>2
<1> QED
  BY <1>1, HighestLevel DEF intlev

(* The saved registers of a context that calloc gave.                        *)
LEMMA NoRegsFacts ==
  /\ NoRegs \in [spcflags : SUBSET Flag, intmask : Mask, t1 : BOOLEAN]
  /\ "DOINT" \notin NoRegs.spcflags
BY LevelFacts DEF NoRegs

(* At power-on no interrupt is requested or on its way.                      *)
THEOREM M68kInitially == M68kInit => M68kInv
<1> SUFFICES ASSUME M68kInit PROVE M68kInv
  OBVIOUS
<1> USE LevelFacts
<1>1. Due = {}
  BY DEF M68kInit, Due, imask
<1>2. CpuTypeOK
  <2>1. 0 \in 0..3
    OBVIOUS
  <2>2. onWay \in [Line -> 0..3] /\ late \in [Line -> 0..3]
    BY <2>1 DEF M68kInit
  <2>3. spcflags \subseteq Flag /\ intmask \in Mask
    BY DEF M68kInit
  <2> QED
    BY <2>2, <2>3 DEF M68kInit, CpuTypeOK
<1>3. \A l \in Line : late[l] = 0
  BY DEF M68kInit
<1>4. CpuInv
  BY <1>1, <1>2, <1>3 DEF M68kInit, CpuInv, Flagged, ExactInv, GapsAreKnown, ServedSoon,
     FetchInv, RunInv
<1>5. TrapInv
  <2>1. uses \in Uses /\ live = {} /\ saved_regs = [c \in Contexts |-> NoRegs] /\ next = Program
    BY DEF M68kInit
  <2> QED
    BY <2>1, NoRegsFacts DEF TrapInv, TrapTypeOK
<1> QED
  BY <1>4, <1>5 DEF M68kInv

(* An instruction, whatever it does, keeps the invariant if a new request's  *)
(* way does not begin again for a line already due, DOINT is only given up   *)
(* when nothing is due, and every newly due line has a flag.                 *)
LEMMA InstructionStep ==
  ASSUME CpuInv, CpuTypeOK', Instruction, Flagged',
         passed' \in {passed, {}},
         \A l \in Due' : onWay'[l] >= Older[l],
         "DOINT" \in spcflags' => "DOINT" \in spcflags,
         "DOINT" \in spcflags => "DOINT" \in spcflags' \/ Due' = {}
  PROVE  CpuInv'
<1>1. /\ at = "fetch" /\ at' = "cycles" /\ exact' = exact /\ uses' = uses
      /\ \A l \in Line : late'[l] =
           IF l \notin (Due \ passed) \cap Due' THEN 0
           ELSE IF late[l] = 3 \/ ("INT" \in spcflags /\ ~exact) THEN late[l]
           ELSE late[l] + 1
  BY DEF Instruction
<1>2. /\ exact \in BOOLEAN
      /\ \A l \in Line : late[l] \in Nat /\ onWay[l] \in 0..3 /\ late'[l] \in Nat /\ onWay'[l] \in Nat
  <2>1. late \in [Line -> 0..3] /\ onWay \in [Line -> 0..3] /\ exact \in BOOLEAN
    BY DEF CpuInv, CpuTypeOK
  <2>2. late' \in [Line -> 0..3] /\ onWay' \in [Line -> 0..3]
    BY DEF CpuTypeOK
  <2> QED
    BY <2>1, <2>2
<1>3. ASSUME NEW l \in Line, late'[l] >= 1
      PROVE  /\ l \in (Due \ passed) \cap Due'
             /\ IF exact THEN late'[l] <= 2 /\ late'[l] < onWay'[l]
                         ELSE late'[l] <= 1 /\ "DOINT" \in spcflags'
  <2>1. l \in (Due \ passed) \cap Due'
    BY <1>1, <1>3
  <2>2. CASE exact
    <3>1. late[l] <= 1 /\ late[l] < onWay[l]
      BY <1>1, <2>1, <2>2 DEF CpuInv, FetchInv
    <3>2. late'[l] = late[l] + 1
      BY <1>1, <1>2, <2>1, <2>2, <3>1
    <3>3. onWay'[l] >= Older[l]
      BY <2>1
    <3>4. Older[l] = IF onWay[l] \in {1, 2} THEN onWay[l] + 1 ELSE onWay[l]
      BY DEF Older
    <3>5. onWay[l] \in {1, 2} \/ onWay[l] = 3
      BY <1>2, <3>1
    <3>6. late'[l] < Older[l]
      BY <1>2, <3>1, <3>2, <3>4, <3>5
    <3>7. Older[l] \in Nat /\ onWay'[l] \in Nat /\ late'[l] \in Nat /\ late[l] \in Nat
      BY <1>2, <3>4, <3>5
    <3>8. late'[l] <= 2 /\ late'[l] < onWay'[l]
      BY <3>1, <3>2, <3>3, <3>6, <3>7
    <3> QED
      BY <2>1, <2>2, <3>8
  <2>3. CASE ~exact
    <3>1. late[l] = 0
      BY <1>1, <2>1, <2>3 DEF CpuInv, FetchInv
    <3>2. late'[l] = 1 /\ "INT" \notin spcflags
      BY <1>1, <1>2, <1>3, <2>1, <2>3, <3>1
    <3>3. "DOINT" \in spcflags
      BY <2>1, <3>2 DEF CpuInv, Flagged
    <3> QED
      BY <2>1, <2>3, <3>2, <3>3
  <2> QED
    BY <2>1, <2>2, <2>3
<1>4. RunInv'
  BY <1>1, <1>3 DEF RunInv
<1>5. ServedSoon'
  <2>1. ASSUME NEW l \in Line PROVE late'[l] <= IF exact' THEN 2 ELSE 1
    BY <1>1, <1>2, <1>3
  <2> QED
    BY <2>1 DEF ServedSoon
<1>6. FetchInv'
  BY <1>1 DEF FetchInv
<1>7. ExactInv' /\ GapsAreKnown'
  BY <1>1 DEF CpuInv, ExactInv, GapsAreKnown
<1> QED
  BY <1>4, <1>5, <1>6, <1>7 DEF CpuInv

(* A request on its way is at most three cycles old.                         *)
LEMMA OlderType == CpuTypeOK => Older \in [Line -> 0..3]
<1> SUFFICES ASSUME CpuTypeOK PROVE Older \in [Line -> 0..3]
  OBVIOUS
<1>1. \A l \in Line : onWay[l] \in 0..3
  BY DEF CpuTypeOK
<1>2. \A l \in Line : (IF onWay[l] \in {1, 2} THEN onWay[l] + 1 ELSE onWay[l]) \in 0..3
  BY <1>1
<1> QED
  BY <1>2 DEF Older

(* An instruction keeps the types of what only it changes.                   *)
LEMMA InstructionType ==
  ASSUME CpuTypeOK, Instruction
  PROVE  exact' \in BOOLEAN /\ at' \in At /\ late' \in [Line -> 0..3]
<1>1. \A l \in Line : late[l] \in 0..3
  BY DEF CpuTypeOK
<1>2. ASSUME NEW l \in Line, late[l] # 3 PROVE late[l] + 1 \in 0..3
  BY <1>1, <1>2
<1>3. ASSUME NEW l \in Line
      PROVE (IF l \notin (Due \ passed) \cap Due' THEN 0
             ELSE IF late[l] = 3 \/ ("INT" \in spcflags /\ ~exact) THEN late[l]
             ELSE late[l] + 1) \in 0..3
  BY <1>1, <1>2
<1>4. late' \in [Line -> 0..3]
  BY <1>3 DEF Instruction
<1> QED
  BY <1>4 DEF Instruction, CpuTypeOK, At

(* doint only ever adds a flag, and a way for the lines that have none.      *)
LEMMA DoIntFacts ==
  ASSUME CpuTypeOK, NEW pend \in [Line -> 0..3], DoInt(pend) \/ NoDoInt(pend)
  PROVE  /\ onWay' \in [Line -> 0..3] /\ \A l \in Line : onWay'[l] >= pend[l]
         /\ spcflags' \in {spcflags, spcflags \cup {"INT"}} /\ passed' \in {passed, {}}
         /\ "INT" \in spcflags' \/ (spcflags' = spcflags /\ passed' = passed)
         /\ DoInt(pend) /\ master' => "INT" \in spcflags'
<1>1. onWay' \in [Line -> 0..3] /\ \A l \in Line : onWay'[l] >= pend[l]
  <2>1. \A l \in Line : pend[l] \in 0..3
    OBVIOUS
  <2>2. CASE DoInt(pend)
    <3>1. onWay' = [l \in Line |-> IF exact /\ master' /\ l \in intreq' \cap intena' /\ pend[l] = 0
                                   THEN 1 ELSE pend[l]]
      BY <2>2 DEF DoInt
    <3>2. \A l \in Line : (onWay'[l] = 1 /\ pend[l] = 0) \/ onWay'[l] = pend[l]
      BY <3>1
    <3>3. \A l \in Line : onWay'[l] \in 0..3 /\ onWay'[l] >= pend[l]
      BY <2>1, <3>2
    <3> QED
      BY <3>1, <3>3
  <2>3. CASE NoDoInt(pend)
    BY <2>1, <2>3 DEF NoDoInt
  <2> QED
    BY <2>2, <2>3
<1>2. /\ spcflags' \in {spcflags, spcflags \cup {"INT"}} /\ passed' \in {passed, {}}
      /\ "INT" \in spcflags' \/ (spcflags' = spcflags /\ passed' = passed)
      /\ DoInt(pend) /\ master' => "INT" \in spcflags'
  BY DEF DoInt, NoDoInt
<1> QED
  BY <1>1, <1>2

(* Due interrupts are requested and enabled, ...                             *)
LEMMA DueFacts ==
  /\ Due \subseteq imask /\ imask \subseteq intreq /\ imask \subseteq intena
  /\ ~master => Due = {}
BY DEF Due, imask

(* ... after a step as well.                                                 *)
LEMMA NextDueFacts ==
  /\ Due' \subseteq imask' /\ imask' \subseteq intreq' /\ imask' \subseteq intena'
  /\ ~master' => Due' = {}
BY DEF Due, imask

(* A write to INTREQ, by the program or a device.                            *)
LEMMA IntreqFacts ==
  ASSUME CpuTypeOK, Flagged, NEW pend \in [Line -> 0..3], NEW set \in BOOLEAN,
         NEW lines \in SUBSET Line, INTREQ_0(set, lines, pend), intmask' = intmask
  PROVE  /\ onWay' \in [Line -> 0..3] /\ \A l \in Due' : onWay'[l] >= pend[l]
         /\ spcflags' \in {spcflags, spcflags \cup {"INT"}} /\ passed' \in {passed, {}}
         /\ intreq' \subseteq Line /\ intena' = intena /\ master' = master
         /\ Flagged' /\ (set => Due \subseteq Due')
<1> DEFINE left == IF set THEN pend ELSE [l \in Line |-> IF l \in lines THEN 0 ELSE pend[l]]
<1>1. left \in [Line -> 0..3] /\ \A l \in Line : l \notin lines \/ set => left[l] = pend[l]
  <2>1. 0 \in 0..3
    OBVIOUS
  <2> QED
    BY <2>1
<1>2. /\ intreq' = (IF set THEN intreq \cup lines ELSE intreq \ lines)
      /\ intena' = intena /\ master' = master
      /\ IF master THEN DoInt(left) ELSE NoDoInt(left)
  BY DEF INTREQ_0
<1> HIDE DEF left
<1>3. /\ onWay' \in [Line -> 0..3] /\ \A l \in Line : onWay'[l] >= left[l]
      /\ spcflags' \in {spcflags, spcflags \cup {"INT"}} /\ passed' \in {passed, {}}
      /\ "INT" \in spcflags' \/ (spcflags' = spcflags /\ passed' = passed)
      /\ DoInt(left) /\ master' => "INT" \in spcflags'
  BY <1>1, <1>2, DoIntFacts
<1>4. intreq' \subseteq Line
  BY <1>2 DEF CpuTypeOK
<1>5. ASSUME NEW l \in Due' PROVE onWay'[l] >= pend[l]
  <2>1. l \in intreq' /\ l \in Line
    BY <1>4, <1>5, NextDueFacts
  <2>2. l \notin lines \/ set
    BY <1>2, <2>1
  <2> QED
    BY <1>1, <1>3, <2>1, <2>2
<1>6. Flagged'
  <2>1. CASE master
    BY <1>2, <1>3, <2>1 DEF Flagged
  <2>2. CASE ~master
    BY <1>2, <2>2, NextDueFacts DEF Flagged
  <2> QED
    BY <2>1, <2>2
<1>7. set => Due \subseteq Due'
  BY <1>2 DEF Due, imask
<1> QED
  BY <1>2, <1>3, <1>4, <1>5, <1>6, <1>7

(* A change of SR tells of itself by INT, or changes nothing.                *)
LEMMA SetsSRFacts ==
  ASSUME CpuTypeOK, Flagged, NEW stops \in BOOLEAN, SetsSR(stops),
         UNCHANGED <<intreq, intena, master>>
  PROVE  /\ spcflags' \subseteq Flag /\ intmask' \in Mask /\ t1' \in BOOLEAN
         /\ passed' \in {passed, {}} /\ Flagged'
         /\ "DOINT" \in spcflags' <=> "DOINT" \in spcflags
<1>1. PICK m \in Mask, t \in TraceBit, others \in BOOLEAN :
        /\ LET flags == MakeFromSR(spcflags, m, t, others)
           IN spcflags' = IF stops THEN m68k_setstopped(flags) ELSE flags
        /\ intmask' = m /\ t1' = t
        /\ passed' = IF "INT" \in spcflags' THEN {} ELSE passed
  BY DEF SetsSR
<1> DEFINE flags == MakeFromSR(spcflags, m, t, others)
<1>2. /\ flags = spcflags /\ m = intmask
      \/ /\ flags = (spcflags \ {"TRACE"}) \cup {"INT"} \cup (IF t THEN {"TRACE"} ELSE {})
  BY DEF MakeFromSR
<1>3. flags \subseteq Flag /\ ("DOINT" \in flags <=> "DOINT" \in spcflags)
  BY <1>2 DEF CpuTypeOK, Flag
<1>4. spcflags' = flags \/ spcflags' = flags \cup {"STOP"}
  BY <1>1 DEF m68k_setstopped
<1> HIDE DEF flags
<1>5. spcflags' \subseteq Flag /\ ("DOINT" \in spcflags' <=> "DOINT" \in spcflags)
  BY <1>3, <1>4 DEF Flag
<1>6. intmask' \in Mask /\ t1' \in BOOLEAN /\ passed' \in {passed, {}}
  BY <1>1 DEF TraceBit
<1>7. Flagged'
  <2>1. CASE "INT" \in spcflags'
    BY <2>1 DEF Flagged
  <2>2. CASE "INT" \notin spcflags'
    <3>1. flags = spcflags /\ m = intmask /\ "INT" \notin spcflags
      BY <1>2, <1>4, <2>2
    <3>2. Due' = Due /\ passed' = passed
      BY <1>1, <2>2, <3>1 DEF Due, imask
    <3> QED
      BY <1>5, <3>1, <3>2 DEF Flagged
  <2> QED
    BY <2>1, <2>2
<1> QED
  BY <1>5, <1>6, <1>7

(* The actions of the program, one by one, as instructions.                  *)
LEMMA ProgramStep ==
  ASSUME CpuInv,
         \/ Computes \/ WritesIntreq \/ WritesIntena \/ MovesToSR \/ STOPs \/ Excepts \/ RESETs
  PROVE  CpuInv'
<1>i. Instruction /\ CpuTypeOK /\ Flagged
  BY DEF Computes, WritesIntreq, WritesIntena, MovesToSR, STOPs, Excepts, RESETs, Executes, CpuInv
<1>o. Older \in [Line -> 0..3]
  BY <1>i, OlderType
<1>a. \A l \in Line : Older[l] \in 0..3
  BY <1>o
<1>t. exact' \in BOOLEAN /\ at' \in At /\ late' \in [Line -> 0..3]
  BY <1>i, InstructionType
<1>m. Due' \subseteq intreq'
  BY NextDueFacts
<1> DEFINE Rest == /\ intreq' \subseteq Line /\ intena' \subseteq Line /\ master' \in BOOLEAN
                   /\ spcflags' \subseteq Flag /\ intmask' \in Mask /\ t1' \in BOOLEAN
                   /\ passed' \in {passed, {}} /\ onWay' \in [Line -> 0..3]
           Kept == /\ \A l \in Due' : onWay'[l] >= Older[l]
                   /\ "DOINT" \in spcflags' => "DOINT" \in spcflags
                   /\ "DOINT" \in spcflags => "DOINT" \in spcflags' \/ Due' = {}
<1>q. ASSUME Rest, Kept, Flagged' PROVE CpuInv'
  <2>1. passed' \subseteq Line
    BY <1>i, <1>q DEF CpuTypeOK
  <2>2. CpuTypeOK'
    BY <1>t, <1>q, <2>1 DEF CpuTypeOK, At
  <2> QED
    BY <1>i, <1>q, <2>2, InstructionStep
<1>s. ASSUME onWay' = Older, intreq' \subseteq Line PROVE \A l \in Due' : onWay'[l] >= Older[l]
  BY <1>a, <1>m, <1>s
<1>1. CASE Computes
  <2>1. Rest
    BY <1>1, <1>o, <1>i DEF Computes, CpuTypeOK, srVars
  <2>2. Kept
    BY <1>1, <1>s, <2>1 DEF Computes
  <2>3. Flagged'
    BY <1>1, <1>i DEF Computes, Flagged, Due, imask, srVars
  <2> QED
    BY <1>q, <2>1, <2>2, <2>3
<1>2. CASE WritesIntreq
  <2>1. PICK set \in BOOLEAN, lines \in SUBSET Line : INTREQ_0(set, lines, Older)
    BY <1>2 DEF WritesIntreq
  <2>2. UNCHANGED <<intmask, t1>>
    BY <1>2 DEF WritesIntreq, srVars
  <2>3. /\ onWay' \in [Line -> 0..3] /\ \A l \in Due' : onWay'[l] >= Older[l]
        /\ spcflags' \in {spcflags, spcflags \cup {"INT"}} /\ passed' \in {passed, {}}
        /\ intreq' \subseteq Line /\ intena' = intena /\ master' = master
        /\ Flagged'
    BY <1>i, <1>o, <2>1, <2>2, IntreqFacts
  <2>4. Rest
    BY <1>i, <2>2, <2>3 DEF CpuTypeOK, Flag
  <2>5. Kept
    BY <2>3
  <2> QED
    BY <1>q, <2>3, <2>4, <2>5
<1>3. CASE WritesIntena
  <2>1. PICK set \in BOOLEAN, m \in BOOLEAN, lines \in SUBSET Line : INTENA(set, lines, m, Older)
    BY <1>3 DEF WritesIntena
  <2>2. UNCHANGED <<intmask, t1>>
    BY <1>3 DEF WritesIntena, srVars
  <2>3. /\ intena' = (IF set THEN intena \cup lines ELSE intena \ lines)
        /\ master' = (IF m THEN set ELSE master) /\ intreq' = intreq
        /\ IF set THEN DoInt(Older) ELSE NoDoInt(Older)
    BY <2>1 DEF INTENA
  <2>4. /\ onWay' \in [Line -> 0..3] /\ \A l \in Line : onWay'[l] >= Older[l]
        /\ spcflags' \in {spcflags, spcflags \cup {"INT"}} /\ passed' \in {passed, {}}
        /\ "INT" \in spcflags' \/ (spcflags' = spcflags /\ passed' = passed)
        /\ DoInt(Older) /\ master' => "INT" \in spcflags'
    BY <1>i, <1>o, <2>3, DoIntFacts
  <2>5. Rest
    <3>1. intena' \subseteq Line /\ master' \in BOOLEAN /\ intreq' \subseteq Line
      BY <1>i, <2>3 DEF CpuTypeOK
    <3> QED
      BY <1>i, <2>2, <2>4, <3>1 DEF CpuTypeOK, Flag
  <2>6. Kept
    BY <2>4, <2>5, <1>m
  <2>7. Flagged'
    <3>1. CASE set /\ master'
      BY <2>3, <2>4, <3>1 DEF Flagged
    <3>2. CASE ~set
      <4>1. Due' \subseteq Due /\ spcflags' = spcflags /\ passed' = passed
        BY <2>2, <2>3, <3>2 DEF Due, imask, NoDoInt
      <4> QED
        BY <1>i, <4>1 DEF Flagged
    <3>3. CASE ~master'
      BY <3>3, NextDueFacts DEF Flagged
    <3> QED
      BY <3>1, <3>2, <3>3
  <2> QED
    BY <1>q, <2>5, <2>6, <2>7
<1>4. CASE MovesToSR
  <2>1. SetsSR(FALSE) /\ UNCHANGED <<intreq, intena, master>> /\ onWay' = Older
    BY <1>4 DEF MovesToSR
  <2>2. /\ spcflags' \subseteq Flag /\ intmask' \in Mask /\ t1' \in BOOLEAN
        /\ passed' \in {passed, {}} /\ Flagged'
        /\ "DOINT" \in spcflags' <=> "DOINT" \in spcflags
    BY <1>i, <2>1, SetsSRFacts
  <2>3. Rest
    BY <1>i, <1>o, <2>1, <2>2 DEF CpuTypeOK
  <2>4. Kept
    BY <1>s, <2>1, <2>2, <2>3
  <2> QED
    BY <1>q, <2>2, <2>3, <2>4
<1>5. CASE STOPs
  <2>1. SetsSR(TRUE) /\ UNCHANGED <<intreq, intena, master>> /\ onWay' = Older
    BY <1>5 DEF STOPs
  <2>2. /\ spcflags' \subseteq Flag /\ intmask' \in Mask /\ t1' \in BOOLEAN
        /\ passed' \in {passed, {}} /\ Flagged'
        /\ "DOINT" \in spcflags' <=> "DOINT" \in spcflags
    BY <1>i, <2>1, SetsSRFacts
  <2>3. Rest
    BY <1>i, <1>o, <2>1, <2>2 DEF CpuTypeOK
  <2>4. Kept
    BY <1>s, <2>1, <2>2, <2>3
  <2> QED
    BY <1>q, <2>2, <2>3, <2>4
<1>6. CASE Excepts
  <2>1. /\ onWay' = Older /\ t1' = FALSE
        /\ UNCHANGED <<intreq, intena, master, intmask, passed>>
    BY <1>6 DEF Excepts
  <2>2. PICK keeps \in BOOLEAN : spcflags' = trace_exception(spcflags, keeps)
    BY <1>6 DEF Excepts
  <2>3. /\ spcflags' \subseteq Flag /\ ("DOINT" \in spcflags' <=> "DOINT" \in spcflags)
        /\ ("INT" \in spcflags' <=> "INT" \in spcflags)
    BY <1>i, <2>2 DEF trace_exception, CpuTypeOK, Flag
  <2>4. Rest
    BY <1>i, <1>o, <2>1, <2>3 DEF CpuTypeOK
  <2>5. Kept
    BY <1>s, <2>1, <2>3, <2>4
  <2>6. Flagged'
    BY <1>i, <2>1, <2>3 DEF Flagged, Due, imask
  <2> QED
    BY <1>q, <2>4, <2>5, <2>6
<1>7. CASE RESETs
  <2>1. /\ onWay' = Older /\ intena' = {} /\ master' = FALSE
        /\ spcflags' = spcflags \cap {"BRK"} /\ UNCHANGED <<intreq, intmask, t1, passed>>
    BY <1>7 DEF RESETs, srVars
  <2>2. Due' = {}
    BY <2>1, NextDueFacts
  <2>3. Rest
    BY <1>i, <1>o, <2>1 DEF CpuTypeOK
  <2>4. Kept
    BY <2>1, <2>2
  <2>5. Flagged'
    BY <2>2 DEF Flagged
  <2> QED
    BY <1>q, <2>3, <2>4, <2>5
<1> QED
  BY <1>1, <1>2, <1>3, <1>4, <1>5, <1>6, <1>7

(* While the devices go on, and up to the end of do_stop, flags only come.   *)
LEMMA MachineStep ==
  ASSUME CpuInv, Device \/ Breaks \/ CyclesEnd \/ Special \/ StopEnds
  PROVE  CpuInv'
<1>i. CpuTypeOK /\ Flagged /\ ExactInv /\ GapsAreKnown /\ ServedSoon /\ FetchInv /\ RunInv
  BY DEF CpuInv
<1>1. CASE Device
  <2>1. PICK l \in Line : INTREQ_0(TRUE, {l}, onWay)
    BY <1>1 DEF Device
  <2>2. /\ UNCHANGED <<exact, uses, intmask, t1, at, late>> /\ at \in {"cycles", "stop"}
        /\ onWay \in [Line -> 0..3]
    BY <1>1, <1>i DEF Device, srVars, CpuTypeOK
  <2>3. /\ onWay' \in [Line -> 0..3] /\ \A k \in Due' : onWay'[k] >= onWay[k]
        /\ spcflags' \in {spcflags, spcflags \cup {"INT"}} /\ passed' \in {passed, {}}
        /\ intreq' \subseteq Line /\ intena' = intena /\ master' = master
        /\ Flagged' /\ Due \subseteq Due'
    BY <1>i, <2>1, <2>2, IntreqFacts
  <2>4. CpuTypeOK'
    BY <1>i, <2>2, <2>3 DEF CpuTypeOK, Flag
  <2>5. RunInv'
    <3>1. ASSUME NEW k \in Line, late'[k] >= 1
          PROVE  /\ k \in Due' \ passed'
                 /\ IF exact' THEN late'[k] <= 2 /\ late'[k] < onWay'[k]
                             ELSE late'[k] <= 1 /\ "DOINT" \in spcflags'
      <4>1. /\ k \in Due \ passed
            /\ IF exact THEN late[k] <= 2 /\ late[k] < onWay[k]
                        ELSE late[k] <= 1 /\ "DOINT" \in spcflags
        BY <1>i, <2>2, <3>1 DEF RunInv
      <4>2. k \in Due' \ passed'
        BY <2>3, <4>1
      <4>3. onWay[k] \in Nat /\ onWay'[k] \in Nat /\ late[k] \in Nat /\ onWay'[k] >= onWay[k]
        BY <1>i, <2>3, <4>2 DEF CpuTypeOK
      <4>4. late'[k] = late[k] /\ exact' = exact /\ uses' = uses
            /\ ("DOINT" \in spcflags => "DOINT" \in spcflags')
        BY <2>2, <2>3
      <4>5. late[k] < onWay[k] => late[k] < onWay'[k]
        BY <4>3
      <4> QED
        BY <4>1, <4>2, <4>4, <4>5
    <3> QED
      BY <3>1 DEF RunInv
  <2>6. FetchInv' /\ ServedSoon' /\ ExactInv' /\ GapsAreKnown'
    BY <1>i, <2>2, <2>3 DEF FetchInv, ServedSoon, ExactInv, GapsAreKnown
  <2> QED
    BY <2>3, <2>4, <2>5, <2>6 DEF CpuInv
<1> SUFFICES ASSUME Breaks \/ CyclesEnd \/ Special \/ StopEnds PROVE CpuInv'
  BY <1>1
<1>2. /\ UNCHANGED <<exact, uses, intreq, intena, master, onWay, intmask, passed, late>>
      /\ at \in {"cycles", "special", "stop"} /\ at' \in At /\ t1' \in BOOLEAN
      /\ at' = "fetch" => spcflags = {} /\ at' \notin {"out"}
      /\ at' # "out"
  BY <1>i DEF Breaks, CyclesEnd, Special, StopEnds, lineVars, srVars, At, CpuTypeOK
<1>3. /\ spcflags' \subseteq Flag
      /\ "INT" \in spcflags' <=> "INT" \in spcflags
      /\ "DOINT" \in spcflags' <=> "DOINT" \in spcflags
  BY <1>i DEF Breaks, CyclesEnd, Special, StopEnds, trace_exception, Flag, CpuTypeOK
<1>4. Due' = Due /\ passed' = passed
  BY <1>2 DEF Due, imask
<1>5. Flagged' /\ ExactInv' /\ GapsAreKnown' /\ ServedSoon'
  BY <1>i, <1>2, <1>3, <1>4 DEF Flagged, ExactInv, GapsAreKnown, ServedSoon
<1>6. CpuTypeOK'
  BY <1>i, <1>2, <1>3 DEF CpuTypeOK, At
<1>7. FetchInv'
  BY <1>i, <1>2, <1>4 DEF FetchInv, Flagged
<1>8. RunInv'
  BY <1>i, <1>2, <1>3, <1>4 DEF RunInv
<1> QED
  BY <1>5, <1>6, <1>7, <1>8 DEF CpuInv

(* The flags are looked at, and no interrupt is taken.                       *)
LEMMA NoInterruptStep == ASSUME CpuInv, RestNoInterrupt PROVE CpuInv'
<1>i. CpuTypeOK /\ Flagged /\ ExactInv /\ GapsAreKnown /\ ServedSoon /\ FetchInv /\ RunInv
  BY DEF CpuInv
<1>t. /\ \A l \in Line : late[l] \in 0..3 /\ onWay[l] \in 0..3
      /\ exact \in BOOLEAN /\ imask \subseteq Line /\ intmask \in Mask /\ Due \subseteq Line
  BY <1>i DEF CpuTypeOK, imask, Due
<1>u. /\ UNCHANGED <<exact, uses, intreq, intena, master, intmask, t1, passed, late>>
      /\ at = "rest"
  BY DEF RestNoInterrupt, srVars
<1>d. Due' = Due
  BY <1>u DEF Due, imask
<1> DEFINE flags == do_trace(spcflags)
<1>f. /\ flags \subseteq Flag
      /\ "INT" \in flags <=> "INT" \in spcflags
      /\ "DOINT" \in flags <=> "DOINT" \in spcflags
  BY <1>i DEF do_trace, CpuTypeOK, Flag
<1>q. ASSUME spcflags' \subseteq Flag, at' \in {"fetch", "out"}, onWay' \in [Line -> 0..3],
             Flagged', ExactInv', FetchInv'
      PROVE  CpuInv'
  <2>1. CpuTypeOK'
    BY <1>i, <1>u, <1>q DEF CpuTypeOK
  <2>2. GapsAreKnown' /\ ServedSoon' /\ RunInv'
    BY <1>i, <1>u, <1>q DEF GapsAreKnown, ServedSoon, RunInv
  <2> QED
    BY <1>q, <2>1, <2>2 DEF CpuInv
<1>1. CASE ~Looks(flags) /\ RunsOn(flags) /\ UNCHANGED onWay
  <2>1. "DOINT" \notin spcflags /\ ("INT" \in spcflags => ~exact)
    BY <1>1, <1>f DEF Looks
  <2>2. /\ at' \in {"fetch", "out"} /\ spcflags' \subseteq Flag
        /\ "INT" \in spcflags => "DOINT" \in spcflags'
        /\ exact => "DOINT" \notin spcflags'
    <3> HIDE DEF flags
    <3>1. /\ spcflags' = (IF "INT" \in flags /\ ~exact THEN (flags \ {"INT"}) \cup {"DOINT"} ELSE flags)
                        \ {"BRK"}
          /\ at' = (IF "BRK" \in flags THEN "out" ELSE "fetch")
      BY <1>1 DEF RunsOn
    <3> QED
      BY <1>f, <2>1, <3>1 DEF Flag
  <2>3. Flagged' /\ ExactInv'
    BY <1>i, <1>d, <1>u, <2>1, <2>2 DEF Flagged, ExactInv
  <2>4. ASSUME NEW l \in Due \ passed PROVE ~exact /\ late[l] = 0
    <3>1. "INT" \in spcflags /\ ~exact
      BY <1>i, <2>1, <2>4 DEF Flagged
    <3>2. ~(late[l] >= 1)
      BY <1>i, <1>t, <1>u, <2>1, <2>4, <3>1 DEF RunInv
    <3> QED
      BY <1>t, <2>4, <3>1, <3>2
  <2>5. FetchInv'
    BY <1>d, <1>u, <2>4 DEF FetchInv
  <2> QED
    BY <1>1, <1>i, <1>q, <2>2, <2>3, <2>5 DEF CpuTypeOK
<1>2. CASE /\ Looks(flags)
           /\ \E gone \in MayBeGone :
                /\ intlev(gone) <= intmask
                /\ onWay' = [l \in Line |-> IF l = intlev(gone) THEN 0 ELSE onWay[l]]
           /\ RunsOn(flags \ ({"DOINT"} \cup IF exact /\ imask = {} THEN {"INT"} ELSE {}))
  <2>1. PICK gone \in MayBeGone :
                /\ intlev(gone) <= intmask
                /\ onWay' = [l \in Line |-> IF l = intlev(gone) THEN 0 ELSE onWay[l]]
    BY <1>2
  <2>2. gone \in SUBSET Line /\ \A l \in Line : onWay[l] = 3 => l \in gone
    BY DEF MayBeGone
  <2>3. \A l \in Arrived(gone) : l <= intmask
    <3>1. intlev(gone) \in Mask /\ \A l \in Arrived(gone) : l \in Line /\ l <= intlev(gone)
      BY <1>t, <2>2, IntlevFacts DEF Arrived
    <3> QED
      BY <1>t, <2>1, <3>1, LevelFacts
  <2>4. ASSUME NEW l \in Due PROVE l \notin Arrived(gone) /\ l # intlev(gone)
    <3>1. l > intmask /\ l \in Line
      BY <1>t DEF Due
    <3>2. intlev(gone) \in Mask
      BY <1>t, <2>2, IntlevFacts
    <3> QED
      BY <1>t, <2>1, <2>3, <3>1, <3>2, LevelFacts
  <2>5. onWay' \in [Line -> 0..3] /\ \A l \in Due : onWay'[l] = onWay[l]
    <3>1. 0 \in 0..3
      OBVIOUS
    <3> QED
      BY <1>t, <2>1, <2>4, <3>1
  <2>6. Due # {} => exact /\ imask # {}
    <3>1. ASSUME NEW l \in Due PROVE exact /\ imask # {}
      BY <2>4, DueFacts DEF Arrived
    <3> QED
      BY <3>1
  <2>7. /\ at' \in {"fetch", "out"} /\ spcflags' \subseteq Flag
        /\ exact => "DOINT" \notin spcflags' /\ (imask # {} => "INT" \in spcflags')
    <3> HIDE DEF flags
    <3>1. PICK kept : /\ kept = flags \ ({"DOINT"} \cup IF exact /\ imask = {} THEN {"INT"} ELSE {})
                      /\ RunsOn(kept)
      BY <1>2
    <3>2. /\ spcflags' = (IF "INT" \in kept /\ ~exact THEN (kept \ {"INT"}) \cup {"DOINT"} ELSE kept)
                        \ {"BRK"}
          /\ at' = (IF "BRK" \in kept THEN "out" ELSE "fetch")
      BY <3>1 DEF RunsOn
    <3>3. kept \subseteq Flag /\ "DOINT" \notin kept
      BY <1>f, <3>1
    <3>4. exact /\ imask # {} => "INT" \in kept
      <4>1. exact => "INT" \in flags
        BY <1>2, <1>i, <1>f DEF Looks, ExactInv
      <4> QED
        BY <3>1, <4>1
    <3> QED
      BY <3>2, <3>3, <3>4 DEF Flag
  <2>8. Flagged' /\ ExactInv'
    BY <1>d, <1>u, <2>6, <2>7 DEF Flagged, ExactInv
  <2>9. ASSUME NEW l \in Due \ passed PROVE exact /\ late[l] <= 1 /\ late[l] < onWay'[l]
    <3>1. exact /\ l \in imask /\ l \in Line
      BY <1>t, <2>6, DueFacts
    <3>2. onWay[l] # 0 /\ onWay[l] # 3
      BY <2>2, <2>4, <3>1 DEF Arrived
    <3>3. late[l] >= 1 => late[l] < onWay[l]
      BY <1>i, <1>u, <3>1 DEF RunInv
    <3> QED
      BY <1>t, <2>5, <3>1, <3>2, <3>3
  <2>10. FetchInv'
    BY <1>d, <1>u, <2>9 DEF FetchInv
  <2> QED
    BY <1>q, <2>5, <2>7, <2>8, <2>10
<1> QED
  BY <1>1, <1>2 DEF RestNoInterrupt

(* An interrupt is taken: the highest line that has arrived.                 *)
LEMMA ServiceStep == ASSUME CpuInv, service_interrupt PROVE CpuInv'
<1>i. CpuTypeOK /\ Flagged /\ ExactInv /\ GapsAreKnown /\ ServedSoon /\ FetchInv /\ RunInv
  BY DEF CpuInv
<1>t. /\ late \in [Line -> 0..3] /\ onWay \in [Line -> 0..3]
      /\ exact \in BOOLEAN /\ imask \subseteq Line /\ intmask \in Mask
  BY <1>i DEF CpuTypeOK, imask
<1>1. PICK gone \in MayBeGone :
        /\ intlev(gone) > intmask /\ intmask' = intlev(gone)
        /\ onWay' = [onWay EXCEPT ![intlev(gone)] = 0]
        /\ passed' = IF exact THEN {l \in Due : l > intlev(gone)} ELSE passed
  BY DEF service_interrupt
<1> DEFINE level == intlev(gone)
<1>2. /\ level \in Arrived(gone) /\ level \in Line /\ level \in Mask
      /\ \A l \in Arrived(gone) : l <= level
  <2>1. gone \in SUBSET Line
    BY DEF MayBeGone
  <2>2. /\ level \in Mask /\ (level # 0 => level \in Arrived(gone))
        /\ \A l \in Arrived(gone) : l <= level
    BY <1>t, <2>1, IntlevFacts
  <2>3. level # 0
    BY <1>1, <1>t, <2>2, LevelFacts
  <2> QED
    BY <1>t, <2>2, <2>3 DEF Arrived
<1> HIDE DEF level
<1>3. /\ intmask' = level /\ level > intmask
      /\ onWay' = [onWay EXCEPT ![level] = 0]
      /\ passed' = IF exact THEN {l \in Due : l > level} ELSE passed
      /\ late' = [late EXCEPT ![level] = 0]
      /\ UNCHANGED <<exact, uses, intreq, intena, master>> /\ t1' = FALSE
  BY <1>1 DEF service_interrupt, level
<1>4. Due' \subseteq passed'
  <2>1. Due' = {l \in imask : l > level}
    BY <1>3 DEF Due, imask
  <2>2. CASE exact
    <3>1. \A l \in imask : l > level => l > intmask
      BY <1>2, <1>3, <1>t, LevelFacts
    <3> QED
      BY <1>3, <2>1, <2>2, <3>1 DEF Due
  <2>3. CASE ~exact
    <3>1. Arrived(gone) = imask
      BY <2>3 DEF Arrived
    <3>2. \A l \in imask : l \in Nat /\ l <= level
      BY <1>2, <1>t, <3>1, LevelFacts
    <3>3. Due' = {}
      BY <1>2, <2>1, <3>2, LevelFacts
    <3> QED
      BY <3>3
  <2> QED
    BY <2>2, <2>3
<1>5. /\ at' \in {"fetch", "out"} /\ spcflags' \subseteq Flag
      /\ exact => "DOINT" \notin spcflags'
  <2>1. PICK kept : /\ kept = trace_exception(spcflags, FALSE)
                             \ ({"DOINT", "STOP"} \cup IF exact THEN {"INT"} ELSE {})
                    /\ RunsOn(kept)
    BY DEF service_interrupt
  <2>2. kept \subseteq Flag /\ "DOINT" \notin kept
    BY <1>i, <2>1 DEF trace_exception, CpuTypeOK, Flag
  <2>3. /\ spcflags' = (IF "INT" \in kept /\ ~exact THEN (kept \ {"INT"}) \cup {"DOINT"} ELSE kept)
                      \ {"BRK"}
        /\ at' = (IF "BRK" \in kept THEN "out" ELSE "fetch")
    BY <2>1 DEF RunsOn
  <2> QED
    BY <2>2, <2>3 DEF Flag
<1>6. late' \in [Line -> 0..3] /\ onWay' \in [Line -> 0..3]
  <2>1. 0 \in 0..3
    OBVIOUS
  <2> QED
    BY <1>3, <1>t, <2>1
<1>7. CpuTypeOK'
  <2>1. passed' \subseteq Line
    BY <1>3, <1>t, <1>i DEF CpuTypeOK, Due
  <2> QED
    BY <1>i, <1>2, <1>3, <1>5, <1>6, <2>1 DEF CpuTypeOK
<1>8. ServedSoon'
  <2>1. ASSUME NEW l \in Line PROVE late'[l] <= IF exact' THEN 2 ELSE 1
    <3>1. late'[l] = 0 \/ late'[l] = late[l]
      BY <1>3, <1>t
    <3> QED
      BY <1>i, <1>3, <1>t, <3>1 DEF ServedSoon
  <2> QED
    BY <2>1 DEF ServedSoon
<1>9. Flagged' /\ ExactInv' /\ FetchInv' /\ RunInv' /\ GapsAreKnown'
  BY <1>i, <1>3, <1>4, <1>5 DEF Flagged, ExactInv, FetchInv, RunInv, GapsAreKnown
<1> QED
  BY <1>7, <1>8, <1>9 DEF CpuInv

(* Outside the interpreter: it goes on, is reset, or gets a saved state.     *)
LEMMA OutsideStep == ASSUME CpuInv, Resumes \/ m68k_reset \/ RestoresState PROVE CpuInv'
<1>i. CpuTypeOK /\ Flagged /\ ExactInv /\ GapsAreKnown /\ ServedSoon /\ FetchInv /\ RunInv
  BY DEF CpuInv
<1>o. 0 \in 0..3 /\ 1 \in 0..3
  OBVIOUS
<1>1. CASE Resumes
  <2>1. /\ UNCHANGED <<exact, uses, intreq, intena, master, onWay, spcflags, intmask, t1, passed, late>>
        /\ at = "out" /\ at' = "fetch"
    BY <1>1 DEF Resumes, lineVars, srVars
  <2>2. Due' = Due
    BY <2>1 DEF Due, imask
  <2> QED
    BY <1>i, <2>1, <2>2 DEF CpuInv, CpuTypeOK, Flagged, ExactInv, GapsAreKnown, ServedSoon,
       FetchInv, RunInv
<1>2. CASE m68k_reset
  <2>1. /\ at' = "fetch" /\ intena' = {} /\ master' = FALSE /\ UNCHANGED <<exact, uses, intreq, onWay>>
        /\ spcflags' = {} /\ intmask' = Levels /\ t1' = FALSE
        /\ passed' = {} /\ late' = [l \in Line |-> 0]
    BY <1>2 DEF m68k_reset
  <2>2. Due' = {}
    BY <2>1, NextDueFacts
  <2>3. late' \in [Line -> 0..3] /\ \A l \in Line : late'[l] = 0
    BY <1>o, <2>1
  <2>4. CpuTypeOK'
    <3>1. Levels \in Mask
      BY LevelFacts
    <3> QED
      BY <1>i, <2>1, <2>3, <3>1 DEF CpuTypeOK
  <2>5. ServedSoon'
    BY <2>3 DEF ServedSoon
  <2> QED
    BY <2>1, <2>2, <2>4, <2>5 DEF CpuInv, Flagged, ExactInv, GapsAreKnown, FetchInv, RunInv
<1>3. CASE RestoresState
  <2>1. /\ "states" \in uses /\ at' = "fetch" /\ late' = [l \in Line |-> 0]
        /\ exact' = exact /\ uses' = uses
        /\ intreq' \subseteq Line /\ intena' \subseteq Line
        /\ master' \in BOOLEAN /\ intmask' \in Mask /\ t1' \in TraceBit
        /\ spcflags' = MakeFromSR({}, intmask', t1', FALSE)
        /\ passed' = IF spcflags' = {} THEN Due' ELSE {}
        /\ onWay' = [l \in Line |-> IF exact /\ master' /\ l \in intreq' \cap intena' /\ onWay[l] = 0
                                      THEN 1 ELSE onWay[l]]
    BY <1>3 DEF RestoresState
  <2>2. spcflags' = {} \/ ("INT" \in spcflags' /\ spcflags' \subseteq {"INT", "TRACE"})
    BY <2>1 DEF MakeFromSR
  <2>3. late' \in [Line -> 0..3] /\ \A l \in Line : late'[l] = 0
    BY <1>o, <2>1
  <2>4. \A l \in Line : onWay[l] \in 0..3
    BY <1>i DEF CpuTypeOK
  <2>5. onWay' \in [Line -> 0..3]
    BY <1>o, <2>1, <2>4
  <2>6. Due' \subseteq Line /\ \A l \in Due' : master' /\ l \in intreq' \cap intena'
    BY <2>1 DEF Due, imask
  <2>7. CpuTypeOK'
    BY <1>i, <2>1, <2>2, <2>3, <2>5, <2>6 DEF CpuTypeOK, Flag, TraceBit
  <2>8. ASSUME NEW l \in Due', exact PROVE late'[l] <= 1 /\ late'[l] < onWay'[l]
    <3>1. l \in Line /\ (onWay'[l] = 1 \/ (onWay'[l] = onWay[l] /\ onWay[l] # 0))
      <4>1. l \in Line /\ master' /\ l \in intreq' \cap intena' /\ exact
        BY <2>6, <2>8
      <4>2. onWay'[l] = IF exact /\ master' /\ l \in intreq' \cap intena' /\ onWay[l] = 0
                        THEN 1 ELSE onWay[l]
        BY <2>1, <4>1
      <4>3. CASE onWay[l] = 0
        BY <4>1, <4>2, <4>3
      <4>4. CASE onWay[l] # 0
        BY <4>1, <4>2, <4>4
      <4> QED
        BY <4>3, <4>4
    <3> QED
      BY <2>3, <2>4, <3>1
  <2>9. FetchInv' /\ ServedSoon'
    <3>1. exact' = exact /\ uses' = uses /\ \A l \in Due' : late'[l] = 0
      BY <2>1, <2>3, <2>6
    <3> QED
      BY <2>3, <2>8, <3>1 DEF FetchInv, ServedSoon
  <2>10. Flagged' /\ ExactInv' /\ GapsAreKnown' /\ RunInv'
    BY <2>1, <2>2 DEF Flagged, ExactInv, GapsAreKnown, RunInv
  <2> QED
    BY <2>7, <2>9, <2>10 DEF CpuInv
<1> QED
  BY <1>1, <1>2, <1>3

(* A calltrap: the mask is at 7 before it or after it, so that no request    *)
(* has been delayed by it.                                                   *)
LEMMA TrapStep == ASSUME CpuInv, TrapInv, ExtendedTraps PROVE CpuInv'
<1>1. PICK c \in Contexts :
        HandleExtendedTrap(c) \/ call_handler(c) \/ return_handler(c) \/ exit_handler(c)
  BY DEF ExtendedTraps
<1>i. CpuTypeOK /\ ExactInv /\ GapsAreKnown /\ TrapTypeOK
  BY DEF CpuInv, TrapInv
<1>2. Calltrap /\ Instruction
  BY <1>1 DEF HandleExtendedTrap, call_handler, return_handler, exit_handler, Calltrap
<1>3. /\ onWay' = Older /\ UNCHANGED <<intreq, intena, master>>
      /\ passed' = IF {"INT", "DOINT"} \cap spcflags' = {} THEN Due' ELSE {}
  BY <1>2 DEF Calltrap
<1>4. Older \in [Line -> 0..3]
  BY <1>i, OlderType
<1>5. exact' \in BOOLEAN /\ at' \in At /\ late' \in [Line -> 0..3]
  BY <1>2, <1>i, InstructionType
<1>r. saved_regs[c] \in [spcflags : SUBSET Flag, intmask : Mask, t1 : BOOLEAN]
  BY <1>i DEF TrapTypeOK
<1>6. /\ spcflags' \subseteq Flag /\ intmask' \in Mask /\ t1' \in BOOLEAN
      /\ "traps" \in uses /\ (exact => "DOINT" \notin spcflags')
      /\ intmask = Levels \/ intmask' = Levels
  <2>1. Levels \in Mask
    BY LevelFacts
  <2>2. "traps" \in uses
    <3>1. \A to \in {"call", "exit"} : next = [to |-> to, of |-> {c}] => c \in live
      <4>1. ASSUME NEW to \in {"call", "exit"}, next = [to |-> to, of |-> {c}] PROVE c \in live
        <5>1. next # Program
          BY <4>1 DEF Program
        <5>2. PICK fro \in {"call", "exit"}, d \in live : next = [to |-> fro, of |-> {d}]
          BY <1>i, <5>1 DEF TrapTypeOK
        <5>3. next.of = {c} /\ next.of = {d}
          BY <4>1, <5>2
        <5> QED
          BY <5>3
      <4> QED
        BY <4>1
    <3>2. "traps" \in uses \/ c \in live
      BY <1>1, <3>1 DEF HandleExtendedTrap, call_handler, return_handler, exit_handler
    <3> QED
      BY <3>2 DEF TrapInv
  <2>3. CASE HandleExtendedTrap(c) \/ return_handler(c)
    <3>1. intmask' = Levels /\ UNCHANGED <<spcflags, t1>>
      BY <2>3 DEF HandleExtendedTrap, return_handler, GoesOn
    <3> QED
      BY <1>i, <2>1, <2>2, <3>1 DEF CpuTypeOK, ExactInv
  <2>4. CASE call_handler(c)
    <3>1. intmask = Levels /\ intmask' = saved_regs[c].intmask /\ UNCHANGED <<spcflags, t1>>
      BY <2>4 DEF call_handler
    <3> QED
      BY <1>i, <1>r, <2>2, <3>1 DEF CpuTypeOK, ExactInv
  <2>5. CASE exit_handler(c)
    <3>1. /\ intmask = Levels /\ spcflags' = saved_regs[c].spcflags
          /\ intmask' = saved_regs[c].intmask /\ t1' = saved_regs[c].t1
      BY <2>5 DEF exit_handler
    <3>2. exact => "DOINT" \notin saved_regs[c].spcflags
      BY DEF TrapInv
    <3> QED
      BY <1>r, <2>2, <3>1, <3>2
  <2> QED
    BY <1>1, <2>3, <2>4, <2>5
<1>7. /\ at' = "cycles" /\ exact' = exact /\ uses' = uses
      /\ \A l \in Line : l \notin Due \cap Due' => late'[l] = 0
  BY <1>2 DEF Instruction
<1>8. Due = {} \/ Due' = {}
  <2>1. intmask = Levels => Due = {}
    <3>1. imask \subseteq 1..Levels
      BY <1>i, LevelFacts DEF imask, CpuTypeOK
    <3>2. Due \subseteq imask /\ \A l \in Due : l > intmask
      BY DEF Due
    <3> QED
      BY <3>1, <3>2, LevelFacts
  <2>2. intmask' = Levels => Due' = {}
    <3>1. Due' \subseteq intreq' /\ intreq' \subseteq Line
      BY <1>i, <1>3, NextDueFacts DEF CpuTypeOK
    <3>2. \A l \in Due' : l > intmask'
      BY DEF Due
    <3> QED
      BY <3>1, <3>2, LevelFacts
  <2> QED
    BY <1>6, <2>1, <2>2
<1>9. \A l \in Line : late'[l] = 0
  BY <1>7, <1>8
<1>10. Due' \subseteq Line
  BY <1>i, <1>3, NextDueFacts DEF CpuTypeOK
<1>11. CpuTypeOK'
  <2>1. passed' \subseteq Line
    BY <1>3, <1>10
  <2> QED
    BY <1>i, <1>3, <1>4, <1>5, <1>6, <2>1 DEF CpuTypeOK, At
<1>12. Flagged' /\ ExactInv' /\ GapsAreKnown' /\ FetchInv' /\ ServedSoon'
  BY <1>3, <1>6, <1>7, <1>9 DEF Flagged, ExactInv, GapsAreKnown, FetchInv, ServedSoon
<1>13. RunInv'
  BY <1>9 DEF RunInv
<1> QED
  BY <1>11, <1>12, <1>13 DEF CpuInv

(* What the contexts of extended traps hold comes from the 68k's registers.  *)
LEMMA ContextStep == ASSUME CpuInv, TrapInv, [M68kNext]_m68kVars PROVE TrapInv'
<1>i. TrapTypeOK /\ CpuTypeOK /\ ExactInv
  BY DEF CpuInv, TrapInv
<1>e. exact' = exact /\ uses' = uses
  BY DEF M68kNext, m68kVars, Computes, WritesIntreq, WritesIntena, MovesToSR, STOPs, Excepts,
     RESETs, ExtendedTraps, HandleExtendedTrap, call_handler, return_handler, exit_handler,
     Calltrap, Executes, Instruction, Device, Breaks, CyclesEnd, Special, StopEnds,
     RestNoInterrupt, service_interrupt, Resumes, m68k_reset, RestoresState
<1>1. CASE UNCHANGED trapVars
  BY <1>e, <1>1 DEF TrapInv, TrapTypeOK, trapVars
<1>2. CASE NoTraps
  <2>1. live' = {} /\ saved_regs' = [c \in Contexts |-> NoRegs] /\ next' = Program
    BY <1>2 DEF NoTraps
  <2> QED
    BY <1>i, <1>e, <2>1, NoRegsFacts DEF TrapInv, TrapTypeOK
<1>3. CASE ExtendedTraps
  <2>1. PICK c \in Contexts :
          HandleExtendedTrap(c) \/ call_handler(c) \/ return_handler(c) \/ exit_handler(c)
    BY <1>3 DEF ExtendedTraps
  <2>2. CASE HandleExtendedTrap(c)
    <3>1. /\ live' = live \cup {c} /\ "traps" \in uses
          /\ saved_regs' = [saved_regs EXCEPT ![c] = CurrentRegs]
          /\ \E to \in {"call", "exit"} : next' = [to |-> to, of |-> {c}]
      BY <2>2 DEF HandleExtendedTrap, GoesOn
    <3>2. /\ CurrentRegs \in [spcflags : SUBSET Flag, intmask : Mask, t1 : BOOLEAN]
          /\ exact => "DOINT" \notin CurrentRegs.spcflags
      BY <1>i DEF CurrentRegs, CpuTypeOK, ExactInv
    <3>3. /\ saved_regs' \in [Contexts -> [spcflags : SUBSET Flag, intmask : Mask, t1 : BOOLEAN]]
          /\ exact => \A d \in Contexts : "DOINT" \notin saved_regs'[d].spcflags
      BY <1>i, <3>1, <3>2 DEF TrapInv, TrapTypeOK
    <3> QED
      BY <1>i, <1>e, <3>1, <3>3 DEF TrapInv, TrapTypeOK
  <2>3. CASE return_handler(c)
    <3>1. /\ UNCHANGED <<live, saved_regs>> /\ c \in live
          /\ \E to \in {"call", "exit"} : next' = [to |-> to, of |-> {c}]
      BY <2>3 DEF return_handler, GoesOn
    <3> QED
      BY <1>e, <3>1 DEF TrapInv, TrapTypeOK
  <2>4. CASE call_handler(c)
    <3>1. next' = Program /\ UNCHANGED <<live, saved_regs>>
      BY <2>4 DEF call_handler
    <3> QED
      BY <1>e, <3>1 DEF TrapInv, TrapTypeOK
  <2>5. CASE exit_handler(c)
    <3>1. /\ live' = live \ {c} /\ next' = Program
          /\ saved_regs' = [saved_regs EXCEPT ![c] = NoRegs]
      BY <2>5 DEF exit_handler
    <3>2. /\ saved_regs' \in [Contexts -> [spcflags : SUBSET Flag, intmask : Mask, t1 : BOOLEAN]]
          /\ exact => \A d \in Contexts : "DOINT" \notin saved_regs'[d].spcflags
      BY <1>i, <3>1, NoRegsFacts DEF TrapInv, TrapTypeOK
    <3> QED
      BY <1>e, <3>1, <3>2 DEF TrapInv, TrapTypeOK
  <2> QED
    BY <2>1, <2>2, <2>3, <2>4, <2>5
<1> QED
  BY <1>1, <1>2, <1>3 DEF M68kNext, m68kVars, Computes, WritesIntreq, WritesIntena, MovesToSR,
     STOPs, Excepts, RESETs, Executes, Device, Breaks, CyclesEnd, Special, StopEnds,
     RestNoInterrupt, service_interrupt, Resumes, m68k_reset, RestoresState

(* Every step of M68kNext keeps M68kInv: its induction step.                 *)
LEMMA M68kInductive == ASSUME M68kInv, [M68kNext]_m68kVars PROVE M68kInv'
<1>i. CpuInv /\ TrapInv
  BY DEF M68kInv
<1>1. CpuInv'
  <2>1. CASE UNCHANGED m68kVars
    <3>1. /\ UNCHANGED <<exact, uses, intreq, intena, master, onWay, spcflags, intmask, t1,
                         passed, late>>
          /\ at' = at
      BY <2>1 DEF m68kVars, lineVars, srVars
    <3>2. Due' = Due
      BY <3>1 DEF Due, imask
    <3> QED
      BY <1>i, <3>1, <3>2 DEF CpuInv, CpuTypeOK, Flagged, ExactInv, GapsAreKnown, ServedSoon,
         FetchInv, RunInv
  <2>2. CASE M68kNext
    BY <1>i, <2>2, ProgramStep, TrapStep, MachineStep, NoInterruptStep, ServiceStep,
       OutsideStep DEF M68kNext
  <2> QED
    BY <2>1, <2>2
<1>2. TrapInv'
  BY <1>i, ContextStep
<1> QED
  BY <1>1, <1>2 DEF M68kInv

(* The invariant of the interpreter holds in every reachable state.          *)
THEOREM M68kInvariant == M68kSpec => []M68kInv
<1>1. M68kInit => M68kInv
  BY M68kInitially
<1>2. M68kInv /\ [M68kNext]_m68kVars => M68kInv'
  BY M68kInductive
<1> QED
  BY <1>1, <1>2, PTL DEF M68kSpec

(* Types of the interpreter's state (newcpu.c, custom.c, traps.c).           *)
THEOREM M68kTypes == M68kSpec => []M68kTypeOK
<1>1. M68kInv => M68kTypeOK
  BY DEF M68kInv, CpuInv, TrapInv, M68kTypeOK
<1> QED
  BY <1>1, M68kInvariant, PTL

(* A request that the priority lets through has a flag that will have it     *)
(* served, whoever made it due; one instruction separates it from its        *)
(* service, in cycle-exact mode at most two; and the gaps in which it has no *)
(* flag are those of cycle-exact mode, of saved states and of extended traps *)
(* (newcpu.c, do_trace to do_specialties; custom.c, doint; traps.c, the      *)
(* calltrap handlers).                                                       *)
THEOREM InterruptsAreKept == M68kSpec => []InterruptsKept
<1>1. CpuInv => NoInterruptForgotten
  BY DEF CpuInv, Flagged, NoInterruptForgotten, Looks
<1>2. M68kInv => InterruptsKept
  BY <1>1 DEF M68kInv, CpuInv, TrapInv, M68kTypeOK, InterruptsKept
<1> QED
  BY <1>2, M68kInvariant, PTL
=============================================================================
