-------------------------- MODULE IapDriverProofs ---------------------------
(***************************************************************************)
(* Proofs about IapDriver for any flash, any pages and any interrupts: no  *)
(* handler runs while the boot ROM works, and the driver implements        *)
(* FlashStore however the ROM fails.                                       *)
(***************************************************************************)
EXTENDS IapDriver, TLAPS

(***************************************************************************)
(* The calls.                                                              *)
(***************************************************************************)
\* A call is a write or an erase and names pages of the flash.
LEMMA CallKinds ==
    ASSUME call \in Calls
    PROVE  call.op \in {"write", "erase"} /\ Target \subseteq Pages
BY DEF Calls, WriteCall, EraseCall, EraseSectors, Target

\* A write that finds its sector is a write of a page of the flash.
LEMMA WritesInside ==
    ASSUME call \in Calls, call.op = "write", Valid
    PROVE  call.page \in Pages /\ Target = {call.page}
<1>1. PICK p \in 0..Size : call = WriteCall(p)
  BY DEF Calls, EraseCall, EraseSectors
<1>2. call.page = p /\ call.last = Get_Sec_Num(p)
  BY <1>1 DEF WriteCall
<1>3. Size \in Int
  BY GeometryAssumption DEF Size
<1>4. p # Size
  <2> SUFFICES ASSUME p = Size PROVE FALSE
    OBVIOUS
  <2>1. Smalls * SmallPages \in Nat /\ Size >= Smalls * SmallPages
    BY GeometryAssumption DEF Size
  <2>2. Get_Sec_Num(p) = NoSector
    BY <2>1, <1>3 DEF Get_Sec_Num
  <2>3. QED
    BY <1>2, <2>2, GeometryAssumption DEF Valid, NoSector
<1>5. call.page \in Pages
  BY <1>2, <1>3, <1>4 DEF Pages
<1>6. QED
  BY <1>5 DEF Target

\* What a command does, to its end or not, moves the bits the right way.
LEMMA Moves ==
    ASSUME call \in Calls, flash \in [Pages -> SUBSET Bits],
           my_bl_data \in SUBSET Bits, NEW p \in Pages
    PROVE  /\ Full(flash[p]) \in SUBSET Bits
           /\ \A new \in Partly(flash[p]) :
                /\ call.op = "write" => /\ flash[p] \cap my_bl_data \subseteq new
                                        /\ new \subseteq flash[p]
                /\ call.op = "erase" => flash[p] \subseteq new
           /\ Full(flash[p]) \in Partly(flash[p])
BY CallKinds DEF Full, Partly

(***************************************************************************)
(* The inductive invariant.                                                *)
(***************************************************************************)
\* What a call has saved is everything, it changes what it has prepared, and
\* there is no result before it returns.
Begun == /\ pc \in Inside => buffer_vic = Lines
         /\ pc # "idle" => result = None
         /\ pc = "change" => Valid /\ Sectors \subseteq prepared

\* What flash holds, while no command failed, when it is verified.
Done == pc = "verify" /\ faults = 0 =>
            /\ Valid
            /\ call.op = "write" => flash[call.page] \subseteq my_bl_data
            /\ call.op = "erase" => IsBlank

IInv == TypeOK /\ Masked /\ Begun /\ Done /\ FaultlessCalls

LEMMA InitIInv == Init => IInv
<1> SUFFICES ASSUME Init PROVE IInv
  OBVIOUS
<1>1. Size \in Nat
  BY GeometryAssumption DEF Size
<1>2. call \in Calls
  BY <1>1 DEF Init, Calls
<1>3. TypeOK
  BY <1>2, FaultsAssumption DEF Init, TypeOK, None
<1>4. Masked /\ Begun /\ Done /\ FaultlessCalls
  BY DEF Init, Masked, Begun, Done, FaultlessCalls, Inside
<1>5. QED
  BY <1>3, <1>4 DEF IInv

LEMMA StepIInv == IInv /\ [Next]_vars => IInv'
<1> SUFFICES ASSUME IInv, [Next]_vars PROVE IInv'
  OBVIOUS
<1> USE FaultsAssumption DEF IInv
<1>1. CASE Begin
  <2>1. TypeOK'
    BY <1>1 DEF Begin, store, TypeOK, Inside
  <2>2. Masked' /\ Begun'
    BY <1>1 DEF Begin, store, TypeOK, Masked, Begun, Inside, Valid, Sectors
  <2>3. Done' /\ FaultlessCalls'
    BY <1>1 DEF Begin, store, TypeOK, Done, FaultlessCalls, Begun, Inside, Valid, Sectors, IsBlank, None
  <2>4. QED
    BY <2>1, <2>2, <2>3
<1>2. CASE Mask
  <2>1. TypeOK'
    BY <1>2 DEF Mask, store, TypeOK, Inside
  <2>2. Masked' /\ Begun'
    BY <1>2 DEF Mask, store, TypeOK, Masked, Begun, Inside, Valid, Sectors
  <2>3. Done' /\ FaultlessCalls'
    BY <1>2 DEF Mask, store, TypeOK, Done, FaultlessCalls, Begun, Inside, Valid, Sectors, IsBlank, None
  <2>4. QED
    BY <2>1, <2>2, <2>3
<1>3. CASE Check
  <2>1. TypeOK'
    BY <1>3 DEF Check, Return, Continue, store, TypeOK, Inside
  <2>2. Masked' /\ Begun'
    BY <1>3 DEF Check, Return, Continue, store, TypeOK, Masked, Begun, Inside, Valid, Sectors
  <2>3. Done' /\ FaultlessCalls'
    BY <1>3 DEF Check, Return, Continue, store, TypeOK, Done, FaultlessCalls, Begun, Inside, Valid, Sectors, IsBlank, None
  <2>4. QED
    BY <2>1, <2>2, <2>3
<1>4. CASE Prepare
  <2>1. TypeOK'
    BY <1>4 DEF Prepare, Return, Continue, Fault, store, TypeOK, Inside
  <2>2. Masked' /\ Begun'
    BY <1>4 DEF Prepare, Return, Continue, Fault, store, TypeOK, Masked, Begun, Inside, Valid, Sectors
  <2>3. UNCHANGED <<call, flash, my_bl_data>> /\ pc' # "verify"
    BY <1>4 DEF Prepare, Return, Continue
  <2>4. Valid' = Valid
    BY <2>3 DEF Valid
  <2>5. pc' = "idle" /\ faults' = 0 => ~Valid' /\ result' = 2
    <3>1. faults \in Nat
      BY DEF TypeOK
    <3>2. QED
      BY <1>4, <2>4, <3>1 DEF Prepare, Return, Continue, Fault
  <2>6. Done' /\ FaultlessCalls'
    BY <2>3, <2>5 DEF Done, FaultlessCalls
  <2>7. QED
    BY <2>1, <2>2, <2>6
<1>5. CASE Change
  <2>1. TypeOK'
    BY <1>5, Moves, CallKinds DEF Change, Return, Continue, Fault, Torn, store, TypeOK, Inside
  <2>2. Masked' /\ Begun'
    BY <1>5 DEF Change, Return, Continue, Fault, Torn, store, TypeOK, Masked, Begun, Inside, Valid, Sectors
  <2>3. UNCHANGED <<call, my_bl_data>> /\ Valid' = Valid /\ Valid
    BY <1>5 DEF Change, Return, Continue, Valid, Begun
  <2>4. Sectors \subseteq prepared
    BY <1>5 DEF Change, Begun
  <2>5. FaultlessCalls'
    <3>1. pc' = "idle" => faults' # 0
      <4>1. faults \in Nat
        BY DEF TypeOK
      <4>2. QED
        BY <1>5, <2>4, <4>1 DEF Change, Return, Continue, Fault
    <3>2. QED
      BY <3>1 DEF FaultlessCalls
  <2>6. Done'
    <3> SUFFICES ASSUME faults' = 0
                 PROVE  /\ call.op = "write" => flash'[call.page] \subseteq my_bl_data
                        /\ call.op = "erase" => IsBlank'
      BY <2>3 DEF Done
    <3>1. flash' = [p \in Pages |-> IF p \in Target THEN Full(flash[p]) ELSE flash[p]]
      <4>1. faults \in Nat
        BY DEF TypeOK
      <4>2. QED
        BY <1>5, <2>4, <4>1 DEF Change, Return, Continue, Fault
    <3>2. ASSUME call.op = "write" PROVE flash'[call.page] \subseteq my_bl_data
      BY <3>1, <3>2, <2>3, WritesInside DEF Full, TypeOK
    <3>3. ASSUME call.op = "erase" PROVE IsBlank'
      <4>1. \A p \in Pages : Get_Sec_Num(p) \in Sectors => p \in Target
        BY <3>3 DEF Target
      <4>2. \A p \in Pages : p \in Target => flash'[p] = Bits
        BY <3>1, <3>3 DEF Full
      <4>3. Sectors' = Sectors
        BY <2>3 DEF Sectors
      <4>4. QED
        BY <4>1, <4>2, <4>3 DEF IsBlank
    <3>4. QED
      BY <3>2, <3>3
  <2>7. QED
    BY <2>1, <2>2, <2>5, <2>6
<1>6. CASE Verify
  <2>1. TypeOK'
    BY <1>6, CallKinds DEF Verify, Return, Matches, store, TypeOK, Inside
  <2>2. Masked' /\ Begun'
    BY <1>6 DEF Verify, Return, Matches, store, TypeOK, Masked, Begun, Inside, Valid, Sectors
  <2>3. UNCHANGED <<call, flash, my_bl_data, faults>> /\ pc' = "idle"
    BY <1>6 DEF Verify, Return, store
  <2>4. Valid' = Valid /\ call.page' = call.page
    BY <2>3 DEF Valid
  <2>5. result' = IF Matches THEN 0 ELSE 4
    BY <1>6 DEF Verify, Return
  <2>6. ASSUME faults = 0 PROVE FaultlessCalls'
    <3>1. Valid /\ call.op \in {"write", "erase"} /\ call' = call
      BY <1>6, <2>3, <2>6, CallKinds DEF Verify, Done, TypeOK
    <3>2. CASE call.op = "erase"
      <4>1. Matches
        BY <1>6, <2>6, <3>2 DEF Verify, Done, Matches
      <4>2. QED
        BY <2>4, <2>5, <3>1, <3>2, <4>1 DEF FaultlessCalls
    <3>3. CASE call.op = "write"
      <4>1. ~Matches => ~(my_bl_data \subseteq flash[call.page])
        BY <1>6, <2>6, <3>3 DEF Verify, Done, Matches
      <4>2. QED
        BY <2>3, <2>4, <2>5, <3>1, <3>3, <4>1 DEF FaultlessCalls
    <3>4. QED
      BY <3>1, <3>2, <3>3
  <2>7. Done' /\ FaultlessCalls'
    BY <2>3, <2>6 DEF Done, FaultlessCalls
  <2>8. QED
    BY <2>1, <2>2, <2>7
<1>7. CASE \E l \in Lines : Raise(l)
  <2>1. TypeOK'
    BY <1>7 DEF Raise, store, TypeOK, Inside
  <2>2. Masked' /\ Begun'
    BY <1>7 DEF Raise, store, TypeOK, Masked, Begun, Inside, Valid, Sectors
  <2>3. UNCHANGED <<call, flash, my_bl_data, faults, result>>
    BY <1>7 DEF Raise, store
  <2>4. Valid' = Valid /\ IsBlank' = IsBlank /\ call.page' = call.page
    BY <2>3 DEF Valid, IsBlank, Sectors
  <2>5. Done' /\ FaultlessCalls'
    BY <1>7, <2>3, <2>4 DEF Raise, Done, FaultlessCalls
  <2>6. QED
    BY <2>1, <2>2, <2>5
<1>8. CASE \E l \in Lines : Handle(l)
  <2>1. TypeOK'
    BY <1>8 DEF Handle, store, TypeOK, Inside
  <2>2. Masked' /\ Begun'
    BY <1>8 DEF Handle, store, TypeOK, Masked, Begun, Inside, Valid, Sectors
  <2>3. UNCHANGED <<call, flash, my_bl_data, faults, result>>
    BY <1>8 DEF Handle, store
  <2>4. Valid' = Valid /\ IsBlank' = IsBlank /\ call.page' = call.page
    BY <2>3 DEF Valid, IsBlank, Sectors
  <2>5. Done' /\ FaultlessCalls'
    BY <1>8, <2>3, <2>4 DEF Handle, Done, FaultlessCalls
  <2>6. QED
    BY <2>1, <2>2, <2>5
<1>9. CASE PowerFails
  <2>1. TypeOK'
    BY <1>9, Moves DEF PowerFails, Fault, Torn, store, TypeOK, Inside
  <2>2. Masked' /\ Begun'
    BY <1>9 DEF PowerFails, Fault, Torn, store, TypeOK, Masked, Begun, Inside, Valid, Sectors
  <2>3. Done' /\ FaultlessCalls'
    BY <1>9, Moves DEF PowerFails, Fault, Torn, store, TypeOK, Done, FaultlessCalls, Begun, Inside, Valid, Sectors, IsBlank, None
  <2>4. QED
    BY <2>1, <2>2, <2>3
<1>10. CASE Boot
  <2>1. TypeOK'
    BY <1>10 DEF Boot, store, TypeOK, Inside
  <2>2. Masked' /\ Begun'
    BY <1>10 DEF Boot, store, TypeOK, Masked, Begun, Inside, Valid, Sectors
  <2>3. UNCHANGED <<call, flash, my_bl_data, faults, result>>
    BY <1>10 DEF Boot, store
  <2>4. Valid' = Valid /\ IsBlank' = IsBlank /\ call.page' = call.page
    BY <2>3 DEF Valid, IsBlank, Sectors
  <2>5. Done' /\ FaultlessCalls'
    BY <1>10, <2>3, <2>4 DEF Boot, Done, FaultlessCalls, Begun
  <2>6. QED
    BY <2>1, <2>2, <2>5
<1>11. CASE UNCHANGED vars
  BY <1>11 DEF vars, store, TypeOK, Masked, Begun, Done, FaultlessCalls, Valid, Sectors, IsBlank
<1>12. QED
  BY <1>1, <1>2, <1>3, <1>4, <1>5, <1>6, <1>7, <1>8, <1>9, <1>10, <1>11 DEF Next, Driver

(***************************************************************************)
(* The refinement.                                                         *)
(***************************************************************************)
\* Inside a call there is a job, and it stays the same.
LEMMA JobInside ==
    ASSUME TypeOK, pc \in Inside
    PROVE  /\ Job # Store!NoJob /\ Job \in Store!Jobs
           /\ Job.op = call.op /\ Job.pages = Target
           /\ call.op = "write" => Job.content = my_bl_data
<1>1. call.op \in {"write", "erase"} /\ Target \subseteq Pages
  BY CallKinds DEF TypeOK
<1>2. Job = [op |-> call.op, pages |-> Target,
             content |-> IF call.op = "write" THEN my_bl_data ELSE {}]
  BY DEF Job
<1>3. Job \in Store!Jobs
  BY <1>1, <1>2 DEF TypeOK, Store!Jobs
<1>4. QED
  BY <1>1, <1>2, <1>3 DEF Store!NoJob

LEMMA JobTyped == TypeOK /\ pc \in Inside => Job \in Store!Jobs
BY JobInside

LEMMA JobOutside == pc \notin Inside => Job = Store!NoJob
BY DEF Job, Store!NoJob

LEMMA JobKept ==
    ASSUME UNCHANGED <<call, my_bl_data>>, pc \in Inside, pc' \in Inside
    PROVE  Job' = Job
<1>1. Target' = Target
  BY DEF Target, Sectors
<1>2. QED
  BY <1>1 DEF Job

\* What the ROM leaves behind is on the way to what the job asks for.
LEMMA TornMoves ==
    ASSUME TypeOK, pc \in Inside, flash' \in Torn
    PROVE  Store!Moved
<1>1. /\ flash' \in [Pages -> SUBSET Bits]
      /\ \A p \in Pages : flash'[p] \in IF p \in Target THEN Partly(flash[p])
                                       ELSE {flash[p]}
  BY DEF Torn
<1>2. \A p \in Pages : p \in Target => Store!OnTheWay(flash[p], flash'[p])
  <2> SUFFICES ASSUME NEW p \in Pages, p \in Target
               PROVE  Store!OnTheWay(flash[p], flash'[p])
    OBVIOUS
  <2>1. /\ call.op = "write" => /\ flash[p] \cap my_bl_data \subseteq flash'[p]
                                /\ flash'[p] \subseteq flash[p]
        /\ call.op = "erase" => flash[p] \subseteq flash'[p]
    BY <1>1, Moves DEF TypeOK
  <2>2. QED
    BY <2>1, JobInside, CallKinds DEF TypeOK, Store!OnTheWay
<1>3. QED
  BY <1>1, <1>2, JobInside DEF Store!Moved

\* A command that runs to its end is the last of the ways it may go.
LEMMA FullIsTorn ==
    ASSUME TypeOK,
           flash' = [p \in Pages |-> IF p \in Target THEN Full(flash[p]) ELSE flash[p]]
    PROVE  flash' \in Torn
BY Moves DEF TypeOK, Torn

LEMMA NothingMoves ==
    ASSUME TypeOK, UNCHANGED flash
    PROVE  Store!Moved
<1>1. \A p \in Pages : Store!OnTheWay(flash[p], flash[p])
  BY DEF Store!OnTheWay
<1>2. QED
  BY <1>1 DEF TypeOK, Store!Moved

LEMMA StepRefines == IInv /\ [Next]_vars => [Store!Next]_(Store!vars)
<1> SUFFICES ASSUME IInv, [Next]_vars PROVE [Store!Next]_(Store!vars)
  OBVIOUS
<1>0. TypeOK /\ IInv'
  BY StepIInv DEF IInv
<1> USE DEF Inside
<1>1. CASE Begin
  <2>1. pc \notin Inside /\ pc' \in Inside /\ result' = None /\ UNCHANGED flash
    BY <1>1 DEF Begin
  <2>2. (TypeOK /\ pc \in Inside)' => (Job \in Store!Jobs)'
    BY JobTyped, PTL
  <2>3. Store!Ask
    BY <2>1, <2>2, <1>0, JobOutside DEF IInv, Store!Ask, None, Store!None
  <2>4. QED
    BY <2>3 DEF Store!Next
<1>2. CASE Mask
  <2>1. UNCHANGED <<flash, Job, result>>
    BY <1>2, JobKept DEF Mask, store
  <2>2. QED
    BY <2>1 DEF Store!vars
<1>3. ASSUME pc \in Inside, UNCHANGED <<call, flash, my_bl_data>>, NEW r \in 0..4,
             Return(r), Store!Honest(r)
      PROVE  Store!Next
  <2>1. Job # Store!NoJob /\ Job' = Store!NoJob
    BY <1>0, <1>3, JobInside DEF Return, Job, Store!NoJob
  <2>2. Store!Answer
    BY <2>1, <1>0, <1>3, NothingMoves DEF Return, Store!Answer
  <2>3. QED
    BY <2>2 DEF Store!Next
<1>4. ASSUME pc \in Inside, UNCHANGED <<call, flash, my_bl_data>>,
             NEW step \in Inside, Continue(step)
      PROVE  UNCHANGED Store!vars
  BY <1>4, JobKept DEF Continue, Store!vars
<1>5. CASE Check
  <2>1. CASE Return(1)
    <3>1. call.op = "erase" /\ IsBlank
      BY <1>5, <2>1 DEF Check, Return, Continue
    <3>2. Store!Honest(1)
      BY <3>1, <1>0, <1>5, JobInside DEF Store!Honest, Check, Target, IsBlank
    <3>3. QED
      BY <2>1, <3>2, <1>3, <1>5 DEF Check, Return, store
  <2>2. QED
    BY <1>4, <1>5, <2>1 DEF Check, Continue, store
<1>6. CASE Prepare
  <2>1. Store!Honest(2)
    BY DEF Store!Honest
  <2>2. QED
    BY <1>3, <1>4, <1>6, <2>1 DEF Prepare, Return, Continue
<1>7. CASE Change
  <2>1. pc \in Inside /\ UNCHANGED my_bl_data /\ (Return(3) \/ Continue("verify"))
    BY <1>7 DEF Change
  <2>2. Store!Moved
    BY <1>0, <1>7, <2>1, TornMoves, FullIsTorn, NothingMoves DEF Change
  <2>3. CASE Return(3)
    <3>1. Job # Store!NoJob /\ Job' = Store!NoJob /\ result' = 3
      BY <1>0, <2>1, <2>3, JobInside DEF Return, Job, Store!NoJob
    <3>2. Store!Answer
      BY <2>2, <3>1 DEF Store!Answer, Store!Honest
    <3>3. QED
      BY <3>2 DEF Store!Next
  <2>4. CASE Continue("verify")
    <3>1. Job # Store!NoJob /\ Job' = Job /\ UNCHANGED result
      BY <1>0, <2>1, <2>4, JobInside, JobKept DEF Continue
    <3>2. Store!Work
      BY <2>2, <3>1 DEF Store!Work
    <3>3. QED
      BY <3>2 DEF Store!Next
  <2>5. QED
    BY <2>1, <2>3, <2>4
<1>8. CASE Verify
  <2>1. pc \in Inside /\ UNCHANGED <<call, flash, my_bl_data>>
    BY <1>8 DEF Verify, Return, store
  <2>2. CASE Matches /\ Return(0)
    <3>1. ASSUME call.op = "write" PROVE \A p \in Target : flash[p] = my_bl_data
      BY <2>2, <3>1 DEF Matches, Target
    <3>2. ASSUME call.op # "write" PROVE \A p \in Target : flash[p] = Bits
      BY <2>2, <3>2 DEF Matches, Target, IsBlank
    <3>3. Store!Honest(0)
      BY <2>1, <3>1, <3>2, <1>0, JobInside DEF Store!Honest
    <3>4. QED
      BY <1>3, <2>1, <2>2, <3>3
  <2>3. CASE Return(4)
    <3>1. Store!Honest(4)
      BY DEF Store!Honest
    <3>2. QED
      BY <1>3, <2>1, <2>3, <3>1
  <2>4. QED
    BY <1>8, <2>2, <2>3 DEF Verify
<1>9. CASE \E l \in Lines : Raise(l) \/ Handle(l)
  <2>1. UNCHANGED <<flash, result, call, my_bl_data, pc>>
    BY <1>9 DEF Raise, Handle, store
  <2>2. UNCHANGED Job
    BY <2>1 DEF Job, Target, Sectors
  <2>3. QED
    BY <2>1, <2>2 DEF Store!vars
<1>10. CASE PowerFails
  <2>1. Store!Moved
    BY <1>0, <1>10, TornMoves, NothingMoves DEF PowerFails
  <2>2. Job' = Store!NoJob /\ result' = None
    BY <1>10 DEF PowerFails, Job, Store!NoJob
  <2>3. Store!PowerFails
    BY <2>1, <2>2 DEF Store!PowerFails, None, Store!None
  <2>4. QED
    BY <2>3 DEF Store!Next
<1>11. CASE Boot
  <2>1. UNCHANGED <<flash, result>> /\ Job = Store!NoJob /\ Job' = Store!NoJob
    BY <1>11 DEF Boot, store, Job, Store!NoJob
  <2>2. QED
    BY <2>1 DEF Store!vars
<1>12. CASE UNCHANGED vars
  <2>1. UNCHANGED <<flash, result, call, my_bl_data, pc>>
    BY <1>12 DEF vars, store
  <2>2. UNCHANGED Job
    BY <2>1 DEF Job, Target, Sectors
  <2>3. QED
    BY <2>1, <2>2 DEF Store!vars
<1>13. QED
  BY <1>1, <1>2, <1>5, <1>6, <1>7, <1>8, <1>9, <1>10, <1>11, <1>12 DEF Next, Driver

(***************************************************************************)
(* The theorems.                                                           *)
(***************************************************************************)
THEOREM Invariance == Spec => []IInv
<1>1. Init => IInv
  BY InitIInv
<1>2. IInv /\ [Next]_vars => IInv'
  BY StepIInv
<1>3. QED
  BY <1>1, <1>2, PTL DEF Spec

\* The driver's state keeps its types, and every call returns 0 to 4.
THEOREM TypeCorrect == Spec => []TypeOK
<1>1. IInv => TypeOK
  BY DEF IInv
<1>2. QED
  BY <1>1, Invariance, PTL

\* No handler runs while the boot ROM works, and every return of iap_Write(),
\* iap_Erase_sector() and iap_Erase() enables what was enabled.
THEOREM MaskedAlways == Spec => []Masked
<1>1. IInv => Masked
  BY DEF IInv
<1>2. QED
  BY <1>1, Invariance, PTL

\* While no command fails, 2 means no such sector and 4 a page that was not
\* erased; 3 is never returned.
THEOREM FaultlessResults == Spec => []FaultlessCalls
<1>1. IInv => FaultlessCalls
  BY DEF IInv
<1>2. QED
  BY <1>1, Invariance, PTL

\* iap.c implements FlashStore: only the pages of the call change, bits move the
\* way of the call, and 0 and 1 are returned only when flash is as asked.
THEOREM Refinement == Spec => Implements
<1>1. Init => Store!Init
  BY DEF Init, Store!Init, Job, Inside, None, Store!None, Store!NoJob
<1>2. IInv /\ [Next]_vars => [Store!Next]_(Store!vars)
  BY StepRefines
<1>3. QED
  BY <1>1, <1>2, Invariance, PTL DEF Spec, Implements, Store!Spec
=============================================================================
