--------------------------- MODULE RingServerProof ---------------------------
(*****************************************************************************)
(* Proofs about RingServer, for any number of threads, slots and             *)
(* connections.                                                              *)
(*****************************************************************************)
EXTENDS RingServerProps, FiniteSetTheorems, TLAPS

(* The threads are finitely many. *)
LEMMA ThreadsFinite == IsFiniteSet(Threads)
BY FS_Interval, RingAssumption DEF Threads

(* Names of threads are not the sentinels of the model. *)
LEMMA RingTypes ==
  /\ Slots \subseteq Int
  /\ \A k \in Slots : NextSlot(k) \in Slots
BY RingAssumption DEF Slots, NextSlot

(* The ring in numbers: its size is below MAXNCLI, the slots of the first    *)
(* MAXNCLI positions are different, and the next free one is iput.           *)
LEMMA RingGeometry ==
  ASSUME iput \in Slots, iget \in Slots
  PROVE  /\ Size \in 0 .. MAXNCLI - 1
         /\ \A k \in 1 .. MAXNCLI : Slot(k) \in Slots
         /\ \A j, k \in 1 .. MAXNCLI : Slot(j) = Slot(k) => j = k
         /\ Slot(Size + 1) = iput
         /\ Slot(1) = iget
         /\ Size = 0 <=> iget = iput
BY RingAssumption DEF Slots, Size, Slot

(* How a put and a get move the window. *)
LEMMA PutGeometry ==
  ASSUME iput \in Slots, iget \in Slots, iput' = NextSlot(iput), iget' = iget
  PROVE  /\ \A k \in 1 .. MAXNCLI : Slot(k)' = Slot(k)
         /\ ~Overflow => Size' = Size + 1
         /\ Overflow => Size = MAXNCLI - 1
BY RingAssumption DEF Slots, Size, Slot, NextSlot, Overflow

LEMMA GetGeometry ==
  ASSUME iput \in Slots, iget \in Slots, iget # iput,
         iput' = iput, iget' = NextSlot(iget)
  PROVE  /\ Size' = Size - 1
         /\ \A k \in 1 .. MAXNCLI - 1 : Slot(k)' = Slot(k + 1)
BY RingAssumption DEF Slots, Size, Slot, NextSlot
(* The oldest connection in a ring that is not empty is the first one that   *)
(* was put and not taken.                                                    *)
LEMMA InRing ==
  ASSUME IndInv, Running, iget # iput
  PROVE  /\ Size \in 1 .. MAXNCLI - 1
         /\ PutCount \in Nat
         /\ Size <= PutCount
         /\ clifd[iget] = PutCount - Size + 1
         /\ clifd[iget] > 0
<1> USE DEF IndInv
<1>1. Size \in 1 .. MAXNCLI - 1 /\ Slot(1) = iget
  BY RingGeometry DEF TypeOK
<1>2. clifd[iget] = PutCount - Size + 1
  BY <1>1 DEF RingAccounting, Waiting
<1>3. PutCount \in Nat
  BY DEF PutCount, TypeOK, InHand, None
<1>4. Size <= PutCount
  BY DEF InHand
<1> QED
  BY <1>1, <1>2, <1>3, <1>4
-------------------------------------------------------------------------------
(* The initial states.                                                       *)

LEMMA InitInv == Init => IndInv
<1> SUFFICES ASSUME Init PROVE IndInv
  OBVIOUS
<1>1. TypeOK
  BY RingAssumption DEF Init, TypeOK, Slots, Main, NoOwner, None
<1>3. Size = 0 /\ PutCount = 0
  BY DEF Init, Size, PutCount
<1>2. InHand /\ OverflowIsFull
  BY <1>3 DEF Init, InHand, OverflowIsFull, None
<1>4. Taken = {}
  BY DEF Init, Taken, None
<1>5. RingAccounting
  BY <1>3, <1>4 DEF RingAccounting, Init
<1>6. WakeupPerConn
  BY DEF Init, WakeupPerConn
<1> QED
  BY <1>1, <1>2, <1>5, <1>6 DEF IndInv
-------------------------------------------------------------------------------
(* Types, and who has a connection in hand.                                  *)

LEMMA TypeStep == IndInv /\ [Next]_vars => TypeOK'
<1> SUFFICES ASSUME IndInv, [Next]_vars PROVE TypeOK'
  OBVIOUS
<1> USE DEF IndInv
<1>1. CASE Accept
  BY <1>1 DEF Accept, TypeOK, ringVars
<1>2. CASE Put
  <2>1. mconn \in 1 .. accepted
    BY <1>2 DEF Put, InHand, TypeOK, None
  <2>2. pc' \in [Threads -> {"lock", "blocked", "unlock", "serve"}]
    BY <1>2 DEF Put, PutSignal, Signal, TypeOK
  <2> QED
    BY <1>2, <2>1, <2>2, RingTypes DEF Put, TypeOK, None, Main
<1>3. CASE PutUnlock
  BY <1>3 DEF PutUnlock, TypeOK, ringVars
<1>4. CASE SigInt
  BY <1>4 DEF SigInt, TypeOK, ringVars
<1>5. ASSUME NEW t \in Threads, Get(t) PROVE TypeOK'
  BY <1>5, RingTypes DEF Get, TypeOK
<1>6. ASSUME NEW t \in Threads, GetUnlock(t) PROVE TypeOK'
  BY <1>6 DEF GetUnlock, TypeOK, ringVars
<1>7. ASSUME NEW t \in Threads, ServeReturn(t) PROVE TypeOK'
  <2>1. conn[t] \in 1 .. accepted
    BY <1>7 DEF ServeReturn, InHand, TypeOK, None
  <2>2. served' \subseteq 1 .. accepted
    BY <1>7, <2>1 DEF ServeReturn, TypeOK
  <2> QED
    BY <1>7, <2>2 DEF ServeReturn, TypeOK, ringVars, None
<1>8. ASSUME NEW t \in Threads, ServeFails(t) PROVE TypeOK'
  BY <1>8 DEF ServeFails, TypeOK, ringVars
<1>9. ASSUME NEW t \in Threads, SpuriousWakeup(t) PROVE TypeOK'
  BY <1>9 DEF SpuriousWakeup, TypeOK, ringVars
<1>10. CASE UNCHANGED vars
  BY <1>10 DEF vars, TypeOK, ringVars
<1>11. Next \/ UNCHANGED vars
  OBVIOUS
<1> QED
  BY ONLY Zenon, <1>1, <1>2, <1>3, <1>4, <1>5, <1>6, <1>7, <1>8, <1>9, <1>10, <1>11
  DEF Next, MainStep, ThreadStep

(* A process that has ended does not run again. *)
LEMMA StillRunning == [Next]_vars /\ Running' => Running
BY DEF Running, Next, Accept, MainStep, Put, PutUnlock, SigInt, ThreadStep, Get,
       GetUnlock, ServeReturn, ServeFails, SpuriousWakeup, vars

LEMMA HandStep == IndInv /\ [Next]_vars => InHand'
<1> SUFFICES ASSUME IndInv, [Next]_vars, Running' PROVE InHand'
  BY DEF InHand
<1> USE DEF IndInv, None
<1>0. Running
  BY StillRunning
<1>1. CASE Accept
  BY <1>0, <1>1 DEF Accept, InHand, TypeOK, Size, PutCount, ringVars
<1>2. CASE Put
  <2>1. \A t \in Threads :
          pc'[t] \in {"unlock", "serve"} <=> pc[t] \in {"unlock", "serve"}
    BY <1>2 DEF Put, PutSignal, Signal, TypeOK
  <2>2. mpc' = "unlock" /\ mconn' = 0 /\ conn' = conn
    BY <1>2 DEF Put, Running
  <2>3. Size' = Size + 1 /\ PutCount' = PutCount + 1
    BY <1>0, <1>2, PutGeometry DEF Put, Running, TypeOK, InHand, PutCount
  <2>4. Size \in Int /\ PutCount \in Int
    BY RingGeometry DEF TypeOK, PutCount
  <2> QED
    BY <1>0, <1>2, <2>1, <2>2, <2>3, <2>4 DEF InHand, Put
<1>3. CASE PutUnlock
  BY <1>0, <1>3 DEF PutUnlock, InHand, Size, PutCount, ringVars
<1>4. CASE SigInt
  BY <1>4 DEF SigInt, Running
<1>5. ASSUME NEW t \in Threads, Get(t) PROVE InHand'
  <2>1. CASE iget = iput
    BY <1>0, <1>5, <2>1 DEF Get, InHand, TypeOK, Size, PutCount
  <2>2. CASE iget # iput
    <3>1. clifd[iget] # 0
      BY <1>0, <2>2, InRing
    <3>2. Size' = Size - 1 /\ PutCount' = PutCount
      BY <1>5, <2>2, GetGeometry DEF Get, TypeOK, PutCount
    <3>3. Size' <= PutCount'
      BY <1>0, <2>2, <3>2, InRing
    <3> QED
      BY <1>0, <1>5, <2>2, <3>1, <3>3 DEF Get, InHand, TypeOK
  <2> QED
    BY <2>1, <2>2
<1>6. ASSUME NEW t \in Threads, GetUnlock(t) PROVE InHand'
  BY <1>0, <1>6 DEF GetUnlock, InHand, TypeOK, Size, PutCount, ringVars
<1>7. ASSUME NEW t \in Threads, ServeReturn(t) PROVE InHand'
  BY <1>0, <1>7 DEF ServeReturn, InHand, TypeOK, Size, PutCount, ringVars
<1>8. ASSUME NEW t \in Threads, ServeFails(t) PROVE InHand'
  BY <1>8 DEF ServeFails, Running
<1>9. ASSUME NEW t \in Threads, SpuriousWakeup(t) PROVE InHand'
  BY <1>0, <1>9 DEF SpuriousWakeup, InHand, TypeOK, Size, PutCount, ringVars
<1>10. CASE UNCHANGED vars
  BY <1>0, <1>10 DEF vars, InHand, Size, PutCount, ringVars
<1>11. Next \/ UNCHANGED vars
  OBVIOUS
<1> QED
  BY ONLY Zenon, <1>1, <1>2, <1>3, <1>4, <1>5, <1>6, <1>7, <1>8, <1>9, <1>10, <1>11
  DEF Next, MainStep, ThreadStep
-------------------------------------------------------------------------------
(* The contents of the ring.                                                 *)

LEMMA AccountingStep == IndInv /\ [Next]_vars => RingAccounting'
<1> SUFFICES ASSUME IndInv, [Next]_vars, Running' PROVE RingAccounting'
  BY DEF RingAccounting
<1> USE DEF IndInv, None
<1>0. Running
  BY StillRunning
<1>a. /\ Size \in 0 .. MAXNCLI - 1
      /\ PutCount \in Nat
      /\ \A k \in 1 .. MAXNCLI : Slot(k) \in Slots
  BY <1>0, RingGeometry DEF TypeOK, PutCount, InHand
<1>b. ASSUME UNCHANGED <<iput, iget, clifd, conn, served>>, PutCount' = PutCount
      PROVE  RingAccounting'
  BY <1>0, <1>b DEF RingAccounting, Size, Waiting, Slot, Taken
<1>1. CASE Accept
  <2>1. PutCount' = PutCount
    BY <1>0, <1>1 DEF Accept, PutCount, InHand, TypeOK
  <2> QED
    BY <1>1, <1>b, <2>1 DEF Accept, ringVars
<1>2. CASE Put
  <2>1. /\ Size' = Size + 1
        /\ PutCount' = PutCount + 1
        /\ PutCount' = mconn
        /\ \A k \in 1 .. MAXNCLI : Slot(k)' = Slot(k)
    BY <1>0, <1>2, PutGeometry DEF Put, Running, TypeOK, InHand, PutCount
  <2>2. \A k \in 1 .. Size' : clifd'[Slot(k)'] = PutCount' - Size' + k
    <3> SUFFICES ASSUME NEW k \in 1 .. Size + 1
                 PROVE  clifd'[Slot(k)] = PutCount - Size + k
      BY <1>a, <2>1, RingAssumption
    <3>1. CASE k = Size + 1
      <4>1. Slot(k) = iput
        BY <3>1, RingGeometry DEF TypeOK
      <4> QED
        BY <1>2, <1>a, <2>1, <3>1, <4>1 DEF Put, TypeOK
    <3>2. CASE k # Size + 1
      <4>1. k \in 1 .. Size /\ k \in 1 .. MAXNCLI /\ Size + 1 \in 1 .. MAXNCLI
        BY <1>a, <3>2, RingAssumption
      <4>2. Slot(k) # iput
        BY <3>2, <4>1, RingGeometry DEF TypeOK
      <4>3. clifd'[Slot(k)] = clifd[Slot(k)]
        BY <1>2, <1>a, <4>1, <4>2 DEF Put, TypeOK
      <4> QED
        BY <1>0, <4>1, <4>3 DEF RingAccounting, Waiting
    <3> QED
      BY <3>1, <3>2
  <2>3. \A k \in 1 .. Size' : Waiting'[k] = PutCount' - Size' + k
    BY <2>2 DEF Waiting
  <2>4. Taken' = Taken /\ PutCount' - Size' = PutCount - Size
    BY <1>2, <1>a, <2>1 DEF Put, Taken
  <2> QED
    BY <1>0, <1>2, <2>3, <2>4 DEF RingAccounting, Put
<1>3. CASE PutUnlock
  BY <1>3, <1>b DEF PutUnlock, PutCount, ringVars
<1>4. CASE SigInt
  BY <1>4 DEF SigInt, Running
<1>5. ASSUME NEW t \in Threads, Get(t) PROVE RingAccounting'
  <2>1. CASE iget = iput
    BY <1>5, <1>b, <2>1 DEF Get, PutCount
  <2>2. CASE iget # iput
    <3>1. /\ Size' = Size - 1
          /\ PutCount' = PutCount
          /\ \A k \in 1 .. MAXNCLI - 1 : Slot(k)' = Slot(k + 1)
      BY <1>5, <2>2, GetGeometry DEF Get, TypeOK, PutCount
    <3>2. \A k \in 1 .. Size' : Waiting'[k] = PutCount' - Size' + k
      <4> SUFFICES ASSUME NEW k \in 1 .. Size - 1
                   PROVE  clifd[Slot(k + 1)] = PutCount - Size + 1 + k
        BY <1>5, <1>a, <2>2, <3>1, RingAssumption DEF Waiting, Get
      <4> QED
        BY <1>0, <1>a DEF RingAccounting, Waiting
    <3>3. conn[t] = 0 /\ conn' = [conn EXCEPT ![t] = clifd[iget]]
      BY <1>0, <1>5, <2>2 DEF Get, InHand
    <3>4. clifd[iget] = PutCount - Size + 1 /\ clifd[iget] > 0
      BY <1>0, <2>2, InRing
    <3>5. Taken' = Taken \cup {clifd[iget]}
      <4>1. \A u \in Threads : conn'[u] = IF u = t THEN clifd[iget] ELSE conn[u]
        BY <3>3 DEF TypeOK
      <4>2. clifd[iget] # 0
        BY <3>4
      <4> QED
        BY ONLY <3>3, <4>1, <4>2, t \in Threads DEF Taken, None
    <3>6. clifd[iget] \notin Taken \cup served
      BY <1>0, <1>a, <3>4 DEF RingAccounting
    <3>7. Taken' \cup served' = 1 .. (PutCount' - Size')
      BY <1>0, <1>5, <1>a, <2>2, <3>1, <3>4, <3>5, InRing DEF RingAccounting, Get
    <3>8. \A u, w \in Threads : u # w /\ conn'[u] = conn'[w] => conn'[u] = 0
      BY <1>0, <3>3, <3>6 DEF RingAccounting, Taken, TypeOK
    <3> QED
      BY <1>0, <1>5, <3>2, <3>5, <3>6, <3>7, <3>8 DEF RingAccounting, Get
  <2> QED
    BY <2>1, <2>2
<1>6. ASSUME NEW t \in Threads, GetUnlock(t) PROVE RingAccounting'
  BY <1>6, <1>b DEF GetUnlock, PutCount, ringVars
<1>7. ASSUME NEW t \in Threads, ServeReturn(t) PROVE RingAccounting'
  <2>1. conn[t] # 0
    BY <1>0, <1>7 DEF ServeReturn, InHand
  <2>2. Taken' = Taken \ {conn[t]}
    BY <1>0, <1>7, <2>1 DEF ServeReturn, RingAccounting, Taken, TypeOK
  <2>3. served' = served \cup {conn[t]} /\ conn[t] \in Taken
    BY <1>7, <2>1 DEF ServeReturn, Taken
  <2>4. PutCount' = PutCount /\ Size' = Size /\ Waiting' = Waiting
    BY <1>7 DEF ServeReturn, PutCount, Size, Waiting, Slot, ringVars
  <2>5. \A u, w \in Threads : u # w /\ conn'[u] = conn'[w] => conn'[u] = 0
    BY <1>0, <1>7 DEF ServeReturn, RingAccounting, TypeOK
  <2> QED
    BY <1>0, <2>2, <2>3, <2>4, <2>5 DEF RingAccounting
<1>8. ASSUME NEW t \in Threads, ServeFails(t) PROVE RingAccounting'
  BY <1>8 DEF ServeFails, Running
<1>9. ASSUME NEW t \in Threads, SpuriousWakeup(t) PROVE RingAccounting'
  BY <1>9, <1>b DEF SpuriousWakeup, PutCount, ringVars
<1>10. CASE UNCHANGED vars
  BY <1>10, <1>b DEF vars, PutCount, ringVars
<1>11. Next \/ UNCHANGED vars
  OBVIOUS
<1> QED
  BY ONLY Zenon, <1>1, <1>2, <1>3, <1>4, <1>5, <1>6, <1>7, <1>8, <1>9, <1>10, <1>11
  DEF Next, MainStep, ThreadStep
-------------------------------------------------------------------------------
(* Wakeups.                                                                  *)

Locking == {t \in Threads : pc[t] = "lock"}
Blocked == {t \in Threads : pc[t] = "blocked"}

(* The number of threads on their way to the ring, when one joins or leaves. *)
LEMMA LockingCount ==
  /\ Cardinality(Locking) \in Nat
  /\ \A t \in Threads :
       /\ t \notin Locking => Cardinality(Locking \cup {t}) = Cardinality(Locking) + 1
       /\ t \in Locking => Cardinality(Locking \ {t}) = Cardinality(Locking) - 1
<1>1. IsFiniteSet(Locking)
  BY ThreadsFinite, FS_Subset DEF Locking
<1> QED
  BY <1>1, FS_CardinalityType, FS_AddElement, FS_RemoveElement

LEMMA WakeupStep == IndInv /\ [Next]_vars => WakeupPerConn'
<1> SUFFICES ASSUME IndInv, [Next]_vars, Running', Blocked' # {}
             PROVE  Size' <= Cardinality(Locking')
  BY DEF WakeupPerConn, Locking, Blocked
<1> USE DEF IndInv
<1>0. Running
  BY StillRunning
<1>a. Size \in Nat /\ Cardinality(Locking) \in Nat
  BY RingGeometry, LockingCount DEF TypeOK
<1>b. Blocked # {} => Size <= Cardinality(Locking)
  BY <1>0 DEF WakeupPerConn, Blocked, Locking
<1>c. ASSUME UNCHANGED <<iput, iget>>, Blocked' = Blocked, Locking' = Locking
      PROVE  Size' <= Cardinality(Locking')
  BY <1>b, <1>c DEF Size
<1>1. CASE Accept
  BY <1>1, <1>c DEF Accept, Blocked, Locking, ringVars
<1>2. CASE Put
  <2>1. Size' = Size + 1
    BY <1>2, PutGeometry DEF Put, Running, TypeOK
  <2>2. PICK t \in Blocked : pc' = [pc EXCEPT ![t] = "lock"]
    BY <1>2 DEF Put, PutSignal, Signal, Running, Blocked
  <2>3. Locking' = Locking \cup {t} /\ t \notin Locking
    BY <2>2 DEF Blocked, Locking, TypeOK
  <2>4. Cardinality(Locking') = Cardinality(Locking) + 1
    BY <2>3, LockingCount DEF Blocked
  <2> QED
    BY <1>a, <1>b, <2>1, <2>2, <2>4
<1>3. CASE PutUnlock
  BY <1>3, <1>c DEF PutUnlock, Blocked, Locking, ringVars
<1>4. CASE SigInt
  BY <1>4 DEF SigInt, Running
<1>5. ASSUME NEW t \in Threads, Get(t) PROVE Size' <= Cardinality(Locking')
  <2>1. CASE iget = iput
    <3>1. Size' = 0
      BY <1>5, <2>1, RingGeometry DEF Get, TypeOK, Size
    <3>2. IsFiniteSet(Locking')
      BY ThreadsFinite, FS_Subset DEF Locking
    <3> QED
      BY <3>1, <3>2, FS_CardinalityType
  <2>2. CASE iget # iput
    <3>1. Size' = Size - 1
      BY <1>5, <2>2, GetGeometry DEF Get, TypeOK
    <3>2. Locking' = Locking \ {t} /\ t \in Locking /\ Blocked' = Blocked
      BY <1>5, <2>2 DEF Get, Locking, Blocked, TypeOK
    <3>3. Cardinality(Locking') = Cardinality(Locking) - 1
      BY <3>2, LockingCount
    <3> QED
      BY <1>a, <1>b, <3>1, <3>2, <3>3
  <2> QED
    BY <2>1, <2>2
<1>6. ASSUME NEW t \in Threads, GetUnlock(t) PROVE Size' <= Cardinality(Locking')
  BY <1>6, <1>c DEF GetUnlock, Blocked, Locking, ringVars, TypeOK
<1>d. ASSUME NEW t \in Threads, t \notin Locking, pc' = [pc EXCEPT ![t] = "lock"],
             UNCHANGED <<iput, iget>>
      PROVE  Size' <= Cardinality(Locking')
  <2>1. Locking' = Locking \cup {t} /\ Blocked' \subseteq Blocked
    BY <1>d DEF Locking, Blocked, TypeOK
  <2>2. Cardinality(Locking') = Cardinality(Locking) + 1
    BY <1>d, <2>1, LockingCount
  <2>3. Size' = Size
    BY <1>d DEF Size
  <2> QED
    BY <1>a, <1>b, <2>1, <2>2, <2>3
<1>7. ASSUME NEW t \in Threads, ServeReturn(t) PROVE Size' <= Cardinality(Locking')
  BY <1>7, <1>d DEF ServeReturn, Locking, ringVars
<1>8. ASSUME NEW t \in Threads, ServeFails(t) PROVE Size' <= Cardinality(Locking')
  BY <1>8 DEF ServeFails, Running
<1>9. ASSUME NEW t \in Threads, SpuriousWakeup(t) PROVE Size' <= Cardinality(Locking')
  BY <1>9, <1>d DEF SpuriousWakeup, Locking, ringVars
<1>10. CASE UNCHANGED vars
  BY <1>10, <1>c DEF vars, Blocked, Locking, ringVars
<1>11. Next \/ UNCHANGED vars
  OBVIOUS
<1> QED
  BY ONLY Zenon, <1>1, <1>2, <1>3, <1>4, <1>5, <1>6, <1>7, <1>8, <1>9, <1>10, <1>11
  DEF Next, MainStep, ThreadStep
-------------------------------------------------------------------------------
(* Overflow.                                                                 *)

LEMMA OverflowStep == IndInv /\ [Next]_vars => OverflowIsFull'
<1> SUFFICES ASSUME IndInv, [Next]_vars, process' = "overflow" PROVE OverflowIsFull'
  BY DEF OverflowIsFull
<1> USE DEF IndInv
<1>1. CASE process = "overflow"
  <2>1. UNCHANGED <<clifd, iput, iget, accepted>>
    BY <1>1 DEF Running, Next, Accept, MainStep, Put, PutUnlock, SigInt, ThreadStep,
                Get, GetUnlock, ServeReturn, ServeFails, SpuriousWakeup, vars, ringVars
  <2> QED
    BY <1>1, <2>1 DEF OverflowIsFull, Slot
<1>2. CASE process # "overflow"
  <2>1. Put /\ Overflow /\ Running
    BY <1>2 DEF Next, Accept, MainStep, Put, PutUnlock, SigInt, ThreadStep,
                Get, GetUnlock, ServeReturn, ServeFails, SpuriousWakeup, vars, ringVars
  <2>2. /\ Size = MAXNCLI - 1
        /\ \A k \in 1 .. MAXNCLI : Slot(k)' = Slot(k)
    BY <2>1, PutGeometry DEF Put, TypeOK
  <2>3. /\ PutCount = accepted - 1
        /\ mconn = accepted
        /\ accepted \in Nat
    BY <2>1 DEF Put, InHand, PutCount, TypeOK
  <2>4. ASSUME NEW k \in 1 .. MAXNCLI
        PROVE  clifd'[Slot(k)] = accepted - MAXNCLI + k
    <3>1. Slot(MAXNCLI) = iput /\ Slot(k) \in Slots
      BY <2>2, RingGeometry, RingAssumption DEF TypeOK
    <3>2. CASE k = MAXNCLI
      BY <2>1, <2>3, <3>1, <3>2, RingAssumption DEF Put, TypeOK
    <3>3. CASE k # MAXNCLI
      <4>1. k \in 1 .. Size /\ MAXNCLI \in 1 .. MAXNCLI
        BY <2>2, <3>3, RingAssumption
      <4>2. Slot(k) # iput
        BY <3>1, <3>3, <4>1, RingGeometry DEF TypeOK
      <4>3. clifd'[Slot(k)] = clifd[Slot(k)]
        BY <2>1, <3>1, <4>2 DEF Put, TypeOK
      <4>4. clifd[Slot(k)] = PutCount - Size + k
        BY <2>1, <4>1 DEF RingAccounting, Waiting
      <4> QED
        BY <2>2, <2>3, <4>3, <4>4, RingAssumption
    <3> QED
      BY <3>2, <3>3
  <2>5. iput' = iget' /\ accepted' = accepted
    BY <2>1 DEF Put, Overflow
  <2> QED
    BY <2>2, <2>4, <2>5 DEF OverflowIsFull
<1> QED
  BY <1>1, <1>2
-------------------------------------------------------------------------------
(* The theorems.                                                             *)

(* The inductive invariant holds for every number of threads, slots and      *)
(* connections of serv08.c.                                                  *)
THEOREM RingInvariance == Spec => []IndInv
<1>1. IndInv /\ [Next]_vars => IndInv'
  BY TypeStep, HandStep, AccountingStep, WakeupStep, OverflowStep DEF IndInv
<1> QED
  BY <1>1, InitInv, PTL DEF Spec

(* The types, for any size of the ring and any number of threads. *)
THEOREM RingIsTyped == Spec => []TypeOK
<1>1. IndInv => TypeOK
  BY DEF IndInv
<1> QED
  BY <1>1, RingInvariance, PTL

(* Connections are taken first in, first out, and each is in one place.      *)
THEOREM RingIsFifo == Spec => []RingAccounting
<1>1. IndInv => RingAccounting
  BY DEF IndInv
<1> QED
  BY <1>1, RingInvariance, PTL

(* No signal of serv08.c:45 is lost: a thread sleeps only if enough others   *)
(* are on their way to the ring.                                             *)
THEOREM NoLostSignal == Spec => []WakeupPerConn
<1>1. IndInv => WakeupPerConn
  BY DEF IndInv
<1> QED
  BY <1>1, RingInvariance, PTL

(* err_quit at serv08.c:44 is reached only with MAXNCLI connections waiting. *)
THEOREM OverflowOnlyWhenFull == Spec => []OverflowIsFull
<1>1. IndInv => OverflowIsFull
  BY DEF IndInv
<1> QED
  BY <1>1, RingInvariance, PTL
-------------------------------------------------------------------------------
(* The ring implements the bounded queue.                                    *)

(* The ring as a sequence. *)
WaitingOK ==
  /\ Size \in 0 .. MAXNCLI - 1
  /\ PutCount \in Int
  /\ Waiting \in Seq(Int)
  /\ Len(Waiting) = Size

LEMMA WaitingSeq == IndInv => WaitingOK
<1> SUFFICES ASSUME IndInv PROVE WaitingOK
  OBVIOUS
<1>1. Size \in 0 .. MAXNCLI - 1 /\ \A k \in 1 .. MAXNCLI : Slot(k) \in Slots
  BY RingGeometry DEF IndInv, TypeOK
<1>2. \A k \in 1 .. Size : clifd[Slot(k)] \in Int
  BY <1>1, RingAssumption DEF IndInv, TypeOK
<1>3. PutCount \in Int
  BY DEF IndInv, TypeOK, PutCount
<1> QED
  BY <1>1, <1>2, <1>3 DEF Waiting, WaitingOK

(* The same of the next state. *)
LEMMA WaitingSeqNext == IndInv' => WaitingOK'
BY WaitingSeq, PTL

(* Sequences with the same elements are equal. *)
LEMMA SameSeq ==
  ASSUME NEW s \in Seq(Int), NEW r \in Seq(Int), Len(s) = Len(r),
         \A k \in 1 .. Len(s) : s[k] = r[k]
  PROVE  s = r
OBVIOUS

LEMMA StepRefines ==
  IndInv /\ IndInv' /\ [Next]_vars => [Queue!Next]_(Queue!vars)
<1> SUFFICES ASSUME IndInv, IndInv', [Next]_vars
             PROVE  Queue!Next \/ UNCHANGED Queue!vars
  OBVIOUS
<1>a. ASSUME UNCHANGED <<iput, iget, clifd, process>>, PutCount' = PutCount
      PROVE  UNCHANGED Queue!vars
  BY <1>a DEF Queue!vars, Running, Waiting, Size, Slot
<1>b. ASSUME Running, ~Running', PutCount' = PutCount PROVE Queue!Next
  BY <1>b DEF Queue!Next, Queue!Close
<1>1. CASE Accept
  <2>1. PutCount' = PutCount
    BY <1>1 DEF Accept, PutCount, IndInv, InHand, TypeOK, None
  <2> QED
    BY <1>1, <1>a, <2>1 DEF Accept, ringVars
<1>2. CASE Put
  <2>1. CASE Overflow
    BY <1>2, <1>b, <2>1 DEF Put, Running, PutCount
  <2>2. CASE ~Overflow
    <3>1. /\ Running /\ Running'
          /\ Size' = Size + 1
          /\ PutCount' = PutCount + 1
      BY <1>2, <2>2, PutGeometry DEF Put, Running, IndInv, TypeOK, InHand, PutCount, None
    <3>2. /\ Waiting \in Seq(Int) /\ Len(Waiting) = Size
          /\ Waiting' \in Seq(Int) /\ Len(Waiting') = Size'
          /\ Size \in Nat /\ PutCount \in Int /\ Size' <= MAXNCLI - 1
      BY WaitingSeq, WaitingSeqNext, RingAssumption DEF WaitingOK
    <3>3. /\ \A k \in 1 .. Size : Waiting[k] = PutCount - Size + k
          /\ \A k \in 1 .. Size' : Waiting'[k] = PutCount' - Size' + k
      BY <3>1 DEF IndInv, RingAccounting
    <3>4. Waiting' = Append(Waiting, PutCount')
      <4> DEFINE w == Append(Waiting, PutCount')
      <4>1. w \in Seq(Int) /\ Len(w) = Size + 1 /\ Waiting' \in Seq(Int)
        BY <3>1, <3>2
      <4>2. \A k \in 1 .. Size + 1 : Waiting'[k] = w[k]
        BY <3>1, <3>2, <3>3
      <4> HIDE DEF w
      <4>3. Waiting' = w
        BY <3>1, <3>2, <4>1, <4>2, SameSeq
      <4> QED
        BY <4>3 DEF w
    <3>5. Size < MAXNCLI - 1
      BY <3>1, <3>2, RingAssumption
    <3>6. Queue!Enqueue
      BY <3>1, <3>2, <3>4, <3>5 DEF Queue!Enqueue
    <3> QED
      BY <3>6 DEF Queue!Next
  <2> QED
    BY <2>1, <2>2
<1>3. CASE PutUnlock
  BY <1>3, <1>a DEF PutUnlock, PutCount, ringVars
<1>4. CASE SigInt
  BY <1>4, <1>b DEF SigInt, Running, PutCount
<1>5. ASSUME NEW t \in Threads, Get(t) PROVE Queue!Next \/ UNCHANGED Queue!vars
  <2>1. CASE iget = iput
    BY <1>5, <1>a, <2>1 DEF Get, PutCount
  <2>2. CASE iget # iput
    <3>1. /\ Running /\ Running'
          /\ Size' = Size - 1
          /\ PutCount' = PutCount
      BY <1>5, <2>2, GetGeometry DEF Get, Running, IndInv, TypeOK, PutCount
    <3>2. /\ Waiting \in Seq(Int) /\ Len(Waiting) = Size
          /\ Waiting' \in Seq(Int) /\ Len(Waiting') = Size'
          /\ Size \in Nat \ {0} /\ PutCount \in Int
      BY <2>2, <3>1, WaitingSeq, WaitingSeqNext, InRing DEF WaitingOK
    <3>3. /\ \A k \in 1 .. Size : Waiting[k] = PutCount - Size + k
          /\ \A k \in 1 .. Size' : Waiting'[k] = PutCount' - Size' + k
      BY <3>1 DEF IndInv, RingAccounting
    <3>4. Waiting' = Tail(Waiting)
      <4> DEFINE w == Tail(Waiting)
      <4>1. w \in Seq(Int) /\ Len(w) = Size - 1 /\ Waiting' \in Seq(Int)
        BY <3>1, <3>2
      <4>2. \A k \in 1 .. Size - 1 : Waiting'[k] = w[k]
        BY <3>1, <3>2, <3>3
      <4> HIDE DEF w
      <4>3. Waiting' = w
        BY <3>1, <3>2, <4>1, <4>2, SameSeq
      <4> QED
        BY <4>3 DEF w
    <3>5. Waiting # << >>
      BY <3>2
    <3>6. Queue!Dequeue
      BY <3>1, <3>4, <3>5 DEF Queue!Dequeue
    <3> QED
      BY <3>6 DEF Queue!Next
  <2> QED
    BY <2>1, <2>2
<1>6. ASSUME NEW t \in Threads, GetUnlock(t) PROVE UNCHANGED Queue!vars
  BY <1>6, <1>a DEF GetUnlock, PutCount, ringVars
<1>7. ASSUME NEW t \in Threads, ServeReturn(t) PROVE UNCHANGED Queue!vars
  BY <1>7, <1>a DEF ServeReturn, PutCount, ringVars
<1>8. ASSUME NEW t \in Threads, ServeFails(t) PROVE Queue!Next
  BY <1>8, <1>b DEF ServeFails, Running, PutCount
<1>9. ASSUME NEW t \in Threads, SpuriousWakeup(t) PROVE UNCHANGED Queue!vars
  BY <1>9, <1>a DEF SpuriousWakeup, PutCount, ringVars
<1>10. CASE UNCHANGED vars
  BY <1>10, <1>a DEF vars, PutCount, ringVars
<1>11. Next \/ UNCHANGED vars
  OBVIOUS
<1> QED
  BY ONLY Zenon, <1>1, <1>2, <1>3, <1>4, <1>5, <1>6, <1>7, <1>8, <1>9, <1>10, <1>11
  DEF Next, MainStep, ThreadStep

(* serv08.c implements the bounded queue of ConnQueue.                       *)
THEOREM RingRefinement == Spec => ImplementsConnQueue
<1>1. Init => Queue!Init
  <2> SUFFICES ASSUME Init PROVE Queue!Init
    OBVIOUS
  <2>1. Size = 0 /\ PutCount = 0 /\ Running
    BY DEF Init, Size, PutCount, Running
  <2>2. Waiting = << >>
    BY <2>1 DEF Waiting
  <2> QED
    BY <2>1, <2>2 DEF Queue!Init
<1> QED
  BY <1>1, StepRefines, RingInvariance, PTL DEF Spec, ImplementsConnQueue, Queue!Spec
===============================================================================
