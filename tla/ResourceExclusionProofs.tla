----------------------- MODULE ResourceExclusionProofs -----------------------
(* Proofs about the abstract exclusion of one resource.                      *)
EXTENDS ResourceExclusion, TLAPS

\* In the abstract specification nobody but the holder writes, and nobody at all
\* writes to a resource that is free, lapsed or frozen.
THEOREM ExclusionIsSafe == Spec => [](TypeOK /\ OnlyHolderWrites)
<1>1. Init => TypeOK /\ OnlyHolderWrites
  BY DEF Init, TypeOK, OnlyHolderWrites
<1>2. TypeOK /\ OnlyHolderWrites /\ [Next]_vars => (TypeOK /\ OnlyHolderWrites)'
  <2> SUFFICES ASSUME TypeOK, OnlyHolderWrites, [Next]_vars
               PROVE  (TypeOK /\ OnlyHolderWrites)'
    OBVIOUS
  <2>1. ASSUME NEW a \in Actions, Grant(a) PROVE (TypeOK /\ OnlyHolderWrites)'
    BY <2>1 DEF Grant, TypeOK, OnlyHolderWrites
  <2>2. ASSUME NEW a \in Actions, StartWriting(a) PROVE (TypeOK /\ OnlyHolderWrites)'
    BY <2>2 DEF StartWriting, TypeOK, OnlyHolderWrites
  <2>3. CASE StopWriting
    BY <2>3 DEF StopWriting, TypeOK, OnlyHolderWrites
  <2>4. CASE Lapse \/ GiveBack
    BY <2>4 DEF Lapse, GiveBack, TypeOK, OnlyHolderWrites
  <2>5. CASE Freeze \/ Thaw
    BY <2>5 DEF Freeze, Thaw, TypeOK, OnlyHolderWrites
  <2>6. CASE UNCHANGED vars
    BY <2>6 DEF vars, TypeOK, OnlyHolderWrites
  <2> QED
    BY <2>1, <2>2, <2>3, <2>4, <2>5, <2>6 DEF Next
<1> QED
  BY <1>1, <1>2, PTL DEF Spec
=============================================================================
