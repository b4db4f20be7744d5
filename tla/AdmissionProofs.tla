-------------------------- MODULE AdmissionProofs --------------------------
(* Admission never lets the host exceed MaxVMs, for any number of Create   *)
(* calls and any limit.                                                    *)
EXTENDS Admission, FiniteSetTheorems, TLAPS

(* Whoever scans or checks holds the mutex. *)
MutexHeld == \A c \in Calls : at[c] \in {"list", "count"} <=> mu = c

(* A scan misses no running VM that is not already accounted for as        *)
(* pending: it is still to be looked at or was found running.              *)
ScanCovers == \A c \in Calls : at[c] = "count" => live \ Pending \subseteq counted \cup todo

Inv == TypeOK /\ MutexHeld /\ ScanCovers /\ PendingExact /\ CapacityRespected

LEMMA FiniteCalls ==
    ASSUME NEW S, S \subseteq Calls
    PROVE  IsFiniteSet(S) /\ Cardinality(S) \in Nat
BY CallsAssumption, FS_Subset, FS_CardinalityType

LEMMA SmallerSet ==
    ASSUME NEW S, S \subseteq Calls, NEW T, T \subseteq S
    PROVE  Cardinality(T) <= Cardinality(S)
BY FiniteCalls, FS_Subset

LEMMA AdmissionInit == Init => Inv
<1> SUFFICES ASSUME Init PROVE Inv
    OBVIOUS
<1>1. Pending = {}
    BY DEF Init, Pending
<1>2. Cardinality({}) = 0
    BY FS_EmptySet
<1>3. live \cup Pending = {}
    BY <1>1 DEF Init
<1>4. PendingExact
    BY <1>1, <1>2 DEF Init, PendingExact
<1>5. CapacityRespected
    BY <1>2, <1>3, LimitAssumption DEF CapacityRespected
<1> QED BY <1>4, <1>5, CallsAssumption DEF Init, Inv, TypeOK, MutexHeld, ScanCovers

(* A step that changes neither the admitted calls nor their number, and    *)
(* starts no VM, keeps the count.                                          *)
LEMMA KeepsCount ==
    ASSUME Inv, TypeOK', Pending' = Pending, UNCHANGED pendingCreates, live' \subseteq live \cup Pending
    PROVE  PendingExact' /\ CapacityRespected'
<1>1. PendingExact'
    BY DEF Inv, PendingExact
<1>2. live' \cup Pending' \subseteq live \cup Pending /\ live \cup Pending \subseteq Calls
    BY DEF Inv, TypeOK, Pending
<1>3. live' \cup Pending' \subseteq Calls
    BY <1>2
<1>4. Cardinality(live' \cup Pending') <= Cardinality(live \cup Pending)
    BY <1>2, SmallerSet
<1>5. Cardinality(live' \cup Pending') \in Nat /\ Cardinality(live \cup Pending) \in Nat
    BY <1>2, <1>3, FiniteCalls
<1>6. CapacityRespected'
    BY <1>4, <1>5, LimitAssumption DEF Inv, CapacityRespected
<1> QED BY <1>1, <1>6

(* The step that matters: the scan and the pending calls bound what runs   *)
(* or may start, and the guard leaves room for one more.                   *)
LEMMA AdmitInv ==
    ASSUME NEW c \in Calls, Inv, Admit(c)
    PROVE  Inv'
<1> USE DEF Inv
<1>1. mu = c /\ at[c] = "count"
    BY DEF Admit, MutexHeld
<1>2. c \notin Pending /\ Pending' = Pending \cup {c}
    BY <1>1 DEF Admit, Go, Pending, TypeOK
<1>3. Budget(c) \in Nat
    BY MemoryAssumption DEF Budget
<1>4. TypeOK'
    BY <1>3 DEF TypeOK, Admit, Unlock, Go, host
<1>5. MutexHeld'
    BY <1>1, CallsAssumption DEF MutexHeld, Admit, Unlock, Go, TypeOK
<1>6. ScanCovers'
    BY <1>5, CallsAssumption DEF MutexHeld, ScanCovers, Admit, Unlock
<1>7. Pending \subseteq Calls /\ counted \subseteq Calls /\ live \subseteq Calls
    BY DEF Pending, TypeOK
<1>8. Cardinality(Pending \cup {c}) = Cardinality(Pending) + 1
    BY <1>2, <1>7, FiniteCalls, FS_AddElement
<1>9. PendingExact'
    BY <1>2, <1>8 DEF PendingExact, Admit
<1>10. CapacityRespected'
    <2>1. live' \cup Pending' \subseteq (counted \cup Pending) \cup {c}
        BY <1>1, <1>2 DEF ScanCovers, Admit, host
    <2>2. Cardinality((counted \cup Pending) \cup {c}) <= Cardinality(counted \cup Pending) + 1
        BY <1>7, FiniteCalls, FS_AddElement
    <2>3. Cardinality(counted \cup Pending) <= Cardinality(counted) + Cardinality(Pending)
        <3>1. IsFiniteSet(counted) /\ IsFiniteSet(Pending) /\ IsFiniteSet(counted \cap Pending)
            BY <1>7, FiniteCalls
        <3>2. Cardinality(counted \cup Pending)
                = Cardinality(counted) + Cardinality(Pending) - Cardinality(counted \cap Pending)
            BY <3>1, FS_Union
        <3> QED BY <3>1, <3>2, FS_CardinalityType
    <2>4. Cardinality(live' \cup Pending') <= Cardinality((counted \cup Pending) \cup {c})
        BY <2>1, <1>7, SmallerSet
    <2>5. Cardinality(counted) + Cardinality(Pending) < MaxVMs
        BY DEF Admit, Fits, PendingExact
    <2>6. /\ Cardinality(live' \cup Pending') \in Nat
          /\ Cardinality((counted \cup Pending) \cup {c}) \in Nat
          /\ Cardinality(counted \cup Pending) \in Nat
          /\ Cardinality(counted) \in Nat /\ Cardinality(Pending) \in Nat
        <3>1. live' \cup Pending' \subseteq Calls
            BY <2>1, <1>7
        <3> QED BY <3>1, <1>7, FiniteCalls
    <2> QED BY <2>2, <2>3, <2>4, <2>5, <2>6, LimitAssumption DEF CapacityRespected
<1> QED BY <1>4, <1>5, <1>6, <1>9, <1>10

(* A release never leaves a running VM uncounted: no scan is under way. *)
LEMMA ReleaseInv ==
    ASSUME NEW c \in Calls, Inv, Release(c)
    PROVE  Inv'
<1> USE DEF Inv
<1>1. c \in Pending /\ Pending' = Pending \ {c} /\ Pending \subseteq Calls /\ live \subseteq Calls
    BY DEF Release, Go, Pending, TypeOK
<1>2. Budget(c) \in Nat
    BY MemoryAssumption DEF Budget
<1>3. Cardinality(Pending \ {c}) = Cardinality(Pending) - 1 /\ Cardinality(Pending \ {c}) \in Nat
    BY <1>1, FiniteCalls, FS_RemoveElement
<1>4. PendingExact'
    BY <1>1, <1>3 DEF PendingExact, Release
<1>5. TypeOK'
    BY <1>2, <1>3 DEF TypeOK, Release, Go, host, scan, PendingExact
<1>6. MutexHeld'
    BY CallsAssumption DEF MutexHeld, Release, Go, TypeOK
<1>7. ScanCovers'
    BY <1>6, CallsAssumption DEF MutexHeld, ScanCovers, Release
<1>8. CapacityRespected'
    <2>1. live' \cup Pending' \subseteq live \cup Pending /\ live \cup Pending \subseteq Calls
        BY <1>1 DEF Release, host
    <2>2. live' \cup Pending' \subseteq Calls
        BY <2>1
    <2>3. Cardinality(live' \cup Pending') <= Cardinality(live \cup Pending)
        BY <2>1, SmallerSet
    <2> QED BY <2>1, <2>2, <2>3, FiniteCalls, LimitAssumption DEF CapacityRespected
<1> QED BY <1>4, <1>5, <1>6, <1>7, <1>8

LEMMA CrashInv == ASSUME Inv, Crash PROVE Inv'
<1> USE DEF Inv
<1>1. Pending' = {} /\ live' \cup Pending' = live
    BY DEF Crash, Pending, host
<1>2. TypeOK'
    BY DEF TypeOK, Crash, Unlock, host
<1>3. MutexHeld' /\ ScanCovers'
    BY CallsAssumption DEF MutexHeld, ScanCovers, Crash, Unlock
<1>4. PendingExact'
    BY <1>1, FS_EmptySet DEF PendingExact, Crash
<1>5. CapacityRespected'
    <2>1. live \cup Pending \subseteq Calls /\ live \subseteq live \cup Pending
        BY DEF TypeOK, Pending
    <2>2. Cardinality(live) <= Cardinality(live \cup Pending)
        BY <2>1, SmallerSet
    <2>3. Cardinality(live) \in Nat /\ Cardinality(live \cup Pending) \in Nat
        <3>1. live \subseteq Calls
            BY <2>1
        <3> QED BY <2>1, <3>1, FiniteCalls
    <2> QED BY <1>1, <2>2, <2>3, LimitAssumption DEF CapacityRespected
<1> QED BY <1>2, <1>3, <1>4, <1>5

LEMMA AdmissionStep == ASSUME NEW c \in Calls, Inv, Step(c) PROVE Inv'
<1> USE CallsAssumption DEF Inv
<1>1. CASE Lock(c)
    <2>1. TypeOK' /\ Pending' = Pending
        BY <1>1 DEF TypeOK, Lock, Go, Pending, scan, budget, host
    <2>2. MutexHeld'
        BY <1>1 DEF TypeOK, Lock, Go, MutexHeld
    <2>3. ScanCovers'
        BY <1>1, <2>1 DEF TypeOK, Lock, Go, ScanCovers, scan, host
    <2> QED BY <1>1, <2>1, <2>2, <2>3, KeepsCount DEF Lock, budget, host
<1>2. CASE ListContainers(c)
    <2>1. TypeOK' /\ Pending' = Pending
        BY <1>2 DEF TypeOK, ListContainers, Go, Pending, budget, host
    <2>2. MutexHeld'
        BY <1>2 DEF TypeOK, ListContainers, Go, MutexHeld
    <2>3. ScanCovers'
        BY <1>2, <2>1 DEF TypeOK, ListContainers, ScanCovers, host
    <2> QED BY <1>2, <2>1, <2>2, <2>3, KeepsCount DEF ListContainers, budget, host
<1>3. CASE CountOne(c)
    <2>1. TypeOK' /\ Pending' = Pending
        BY <1>3 DEF TypeOK, CountOne, Pending, budget, host
    <2>2. MutexHeld'
        BY <1>3 DEF CountOne, MutexHeld
    <2>3. ScanCovers'
        BY <1>3, <2>1 DEF TypeOK, CountOne, ScanCovers, host
    <2> QED BY <1>3, <2>1, <2>2, <2>3, KeepsCount DEF CountOne, budget, host
<1>4. CASE Admit(c)
    BY <1>4, AdmitInv
<1>5. CASE Reject(c)
    <2>1. TypeOK' /\ Pending' = Pending
        BY <1>5 DEF TypeOK, Reject, Unlock, Go, Pending, budget, host
    <2>2. MutexHeld'
        BY <1>5 DEF TypeOK, Reject, Unlock, Go, MutexHeld
    <2>3. ScanCovers'
        BY <1>5, <2>2 DEF Reject, Unlock, ScanCovers, MutexHeld
    <2> QED BY <1>5, <2>1, <2>2, <2>3, KeepsCount DEF Reject, budget, host
<1>6. CASE Release(c)
    BY <1>6, ReleaseInv
<1>7. CASE NewContainer(c)
    <2>1. TypeOK' /\ Pending' = Pending /\ MutexHeld' /\ ScanCovers'
        BY <1>7 DEF TypeOK, NewContainer, Pending, MutexHeld, ScanCovers, scan, budget
    <2> QED BY <1>7, <2>1, KeepsCount DEF NewContainer, budget
<1>8. CASE Start(c)
    <2>1. TypeOK' /\ Pending' = Pending /\ MutexHeld' /\ live' \subseteq live \cup Pending
        BY <1>8 DEF TypeOK, Start, Pending, MutexHeld, scan, budget
    <2>2. ScanCovers'
        BY <1>8, <2>1 DEF Start, ScanCovers, scan
    <2> QED BY <1>8, <2>1, <2>2, KeepsCount DEF Start, budget
<1>9. CASE Stop(c)
    <2>1. TypeOK' /\ Pending' = Pending /\ MutexHeld' /\ ScanCovers'
        BY <1>9 DEF TypeOK, Stop, Pending, MutexHeld, ScanCovers, scan, budget
    <2> QED BY <1>9, <2>1, KeepsCount DEF Stop, budget
<1>10. CASE Remove(c)
    <2>1. TypeOK' /\ Pending' = Pending /\ MutexHeld' /\ ScanCovers'
        BY <1>10 DEF TypeOK, Remove, Pending, MutexHeld, ScanCovers, scan, budget
    <2> QED BY <1>10, <2>1, KeepsCount DEF Remove, budget
<1> QED BY <1>1, <1>2, <1>3, <1>4, <1>5, <1>6, <1>7, <1>8, <1>9, <1>10 DEF Step

LEMMA AdmissionInductive == Inv /\ [Next]_vars => Inv'
<1> SUFFICES ASSUME Inv, [Next]_vars PROVE Inv'
    OBVIOUS
<1>1. CASE Next
    BY <1>1, AdmissionStep, CrashInv DEF Next
<1>2. CASE UNCHANGED vars
    BY <1>2 DEF vars, Inv, TypeOK, MutexHeld, ScanCovers, PendingExact, CapacityRespected, Pending
<1> QED BY <1>1, <1>2

(* running + pending never exceeds MaxVMs, whatever the interleaving of    *)
(* scans, boots, stops, releases and restarts.                             *)
THEOREM CapacityAlwaysRespected == Spec => []CapacityRespected
<1>1. Inv => CapacityRespected
    BY DEF Inv
<1> QED BY <1>1, AdmissionInit, AdmissionInductive, PTL DEF Spec

(* The pending counter is exact. *)
THEOREM PendingAlwaysExact == Spec => []PendingExact
<1>1. Inv => PendingExact
    BY DEF Inv
<1> QED BY <1>1, AdmissionInit, AdmissionInductive, PTL DEF Spec

(* Every variable of admit keeps its domain: the count of pending creates  *)
(* never goes below zero although release subtracts without a test, and a  *)
(* VM runs only inside a container.                                        *)
THEOREM AdmissionTypes == Spec => []TypeOK
<1>1. Inv => TypeOK
    BY DEF Inv
<1> QED BY <1>1, AdmissionInit, AdmissionInductive, PTL DEF Spec
---------------------------------------------------------------------------
(* The memory budget. *)

LEMMA BudgetSlice ==
    ASSUME NEW c \in Calls
    PROVE  /\ Budget(c) \in Nat
           /\ IsFiniteSet({c} \X (1..Budget(c))) /\ Cardinality({c} \X (1..Budget(c))) = Budget(c)
<1>1. Budget(c) \in Nat
    BY MemoryAssumption DEF Budget
<1>2. IsFiniteSet(1..Budget(c)) /\ Cardinality(1..Budget(c)) = Budget(c)
    BY <1>1, FS_Interval
<1>3. IsFiniteSet({c}) /\ Cardinality({c}) = 1
    BY FS_Singleton
<1>4. /\ IsFiniteSet({c} \X (1..Budget(c)))
      /\ Cardinality({c} \X (1..Budget(c))) = Cardinality({c}) * Cardinality(1..Budget(c))
    BY <1>2, <1>3, FS_Product
<1> QED BY <1>1, <1>2, <1>3, <1>4

(* One call more, or less, changes the reserved memory by its budget. *)
LEMMA OneCallMore ==
    ASSUME NEW S \in SUBSET Calls, NEW c \in Calls \ S
    PROVE  /\ IsFiniteSet(Reserved(S)) <=> IsFiniteSet(Reserved(S \cup {c}))
           /\ IsFiniteSet(Reserved(S)) => Cardinality(Reserved(S \cup {c})) = Cardinality(Reserved(S)) + Budget(c)
<1> DEFINE T == {c} \X (1..Budget(c))
<1>1. Reserved(S \cup {c}) = Reserved(S) \cup T /\ Reserved(S) \cap T = {}
    BY DEF Reserved
<1>2. IsFiniteSet(T) /\ Cardinality(T) = Budget(c) /\ Budget(c) \in Nat
    BY BudgetSlice
<1> HIDE DEF T
<1>3. IsFiniteSet(Reserved(S \cup {c})) => IsFiniteSet(Reserved(S))
    BY <1>1, FS_Subset
<1>4. IsFiniteSet(Reserved(S)) =>
          /\ IsFiniteSet(Reserved(S) \cup T)
          /\ Cardinality(Reserved(S) \cup T) = Cardinality(Reserved(S)) + Cardinality(T) - Cardinality({})
    BY <1>1, <1>2, FS_Union
<1>5. Cardinality({}) = 0
    BY FS_EmptySet
<1>6. IsFiniteSet(Reserved(S)) => Cardinality(Reserved(S)) \in Nat
    BY FS_CardinalityType
<1>7. IsFiniteSet(Reserved(S)) <=> IsFiniteSet(Reserved(S \cup {c}))
    BY <1>1, <1>3, <1>4
<1>8. ASSUME IsFiniteSet(Reserved(S))
      PROVE  Cardinality(Reserved(S \cup {c})) = Cardinality(Reserved(S)) + Budget(c)
    <2>1. Cardinality(Reserved(S \cup {c})) = Cardinality(Reserved(S)) + Cardinality(T) - Cardinality({})
        BY <1>1, <1>4, <1>8
    <2>2. Cardinality(Reserved(S)) \in Nat
        BY <1>6, <1>8
    <2> QED BY <1>2, <1>5, <2>1, <2>2
<1> QED BY <1>7, <1>8

MemoryInv == IsFiniteSet(Reserved(Pending)) /\ PendingMiBExact

LEMMA NothingReserved == ASSUME Pending = {}, pendingMiB = 0 PROVE MemoryInv
<1>1. Reserved(Pending) = {}
    BY DEF Reserved
<1> QED BY <1>1, FS_EmptySet DEF MemoryInv, PendingMiBExact

LEMMA MemoryStep == ASSUME Inv, MemoryInv, [Next]_vars PROVE MemoryInv'
<1> USE DEF Inv
<1>1. Pending \in SUBSET Calls /\ pendingMiB \in Int
    BY DEF Pending, TypeOK
<1>2. ASSUME UNCHANGED pendingMiB, Pending' = Pending PROVE MemoryInv'
    BY <1>2 DEF MemoryInv, PendingMiBExact, Reserved, Budget
<1>3. ASSUME NEW c \in Calls, Admit(c) PROVE MemoryInv'
    <2>1. c \in Calls \ Pending /\ Pending' = Pending \cup {c} /\ pendingMiB' = pendingMiB + Budget(c)
        BY <1>3 DEF Admit, Go, Pending, TypeOK
    <2> QED BY <1>1, <2>1, OneCallMore DEF MemoryInv, PendingMiBExact
<1>4. ASSUME NEW c \in Calls, Release(c) PROVE MemoryInv'
    <2>1. c \in Pending /\ Pending' = Pending \ {c} /\ pendingMiB' = pendingMiB - Budget(c)
        BY <1>4 DEF Release, Go, Pending, TypeOK
    <2>2. Pending' \in SUBSET Calls /\ c \in Calls \ Pending' /\ Pending = Pending' \cup {c}
        BY <1>1, <2>1
    <2>3. IsFiniteSet(Reserved(Pending')) /\ Cardinality(Reserved(Pending)) = Cardinality(Reserved(Pending')) + Budget(c)
        BY <2>2, OneCallMore DEF MemoryInv
    <2>4. Cardinality(Reserved(Pending')) \in Nat /\ Budget(c) \in Nat
        BY <2>3, FS_CardinalityType, BudgetSlice
    <2>5. pendingMiB' = Cardinality(Reserved(Pending'))
        BY <2>1, <2>3, <2>4 DEF MemoryInv, PendingMiBExact
    <2> QED BY <2>3, <2>5 DEF MemoryInv, PendingMiBExact, Reserved, Budget
<1>5. ASSUME NEW c \in Calls, Lock(c) \/ ListContainers(c) \/ CountOne(c) \/ Reject(c) PROVE MemoryInv'
    <2>1. UNCHANGED pendingMiB /\ Pending' = Pending
        BY <1>5 DEF Lock, ListContainers, CountOne, Reject, Go, Pending, budget, TypeOK
    <2> QED BY <1>2, <2>1
<1>6. ASSUME NEW c \in Calls, NewContainer(c) \/ Start(c) \/ Stop(c) \/ Remove(c) PROVE MemoryInv'
    BY <1>2, <1>6 DEF NewContainer, Start, Stop, Remove, Pending, budget
<1>7. CASE Crash
    <2>1. Pending' = {} /\ pendingMiB' = 0
        BY <1>7 DEF Crash, Pending
    <2> QED BY <2>1, FS_EmptySet DEF MemoryInv, PendingMiBExact, Reserved
<1>8. CASE UNCHANGED vars
    BY <1>2, <1>8 DEF vars, Pending
<1> QED BY <1>3, <1>4, <1>5, <1>6, <1>7, <1>8 DEF Next, Step

(* The memory counter is exact: release gives back what admit took, and    *)
(* never more, so the unsigned counter does not wrap.                      *)
THEOREM MemoryAlwaysExact == Spec => []PendingMiBExact
<1>1. Init => MemoryInv
    BY NothingReserved DEF Init, Pending
<1>2. Inv /\ MemoryInv /\ [Next]_vars => MemoryInv'
    BY MemoryStep
<1>3. MemoryInv => PendingMiBExact
    BY DEF MemoryInv
<1> QED BY <1>1, <1>2, <1>3, AdmissionInit, AdmissionInductive, PTL DEF Spec
=============================================================================
