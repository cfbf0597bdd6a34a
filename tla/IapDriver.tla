----------------------------- MODULE IapDriver ------------------------------
(***************************************************************************)
(* iap.c: iap_Write(), iap_Erase_sector() and iap_Erase() program and      *)
(* erase flash through the boot ROM, with every interrupt masked since     *)
(* flash, where the handlers are, cannot be read meanwhile.                *)
(*                                                                         *)
(* A page is what one iap_Write() programs: 256 bytes.  The commands of    *)
(* the ROM are external: they are modelled as the comments above their     *)
(* wrappers describe them.                                                 *)
(***************************************************************************)
EXTENDS Integers

CONSTANTS
    Smalls,         \* sectors of 4 KB (8)
    SmallPages,     \* pages of one of them (16)
    LargePages,     \* pages of the sector behind them (128)
    Bits,           \* the bits of a page
    Lines,          \* interrupts that are in use
    Faults          \* refused or incomplete commands, and power failures

ASSUME GeometryAssumption == /\ Smalls \in 0..254 /\ SmallPages \in Nat \ {0}
                             /\ LargePages \in Nat
ASSUME FaultsAssumption == Faults \in Nat

VARIABLES
    flash,          \* the bits of each page that are 1
    my_bl_data,     \* the page to write
    prepared,       \* the ROM: sectors that may be changed
    pc,             \* the next step of the call; "off" without power
    call,           \* its arguments
    result,         \* of the last call, or None
    vic,            \* VICIntEnable
    buffer_vic,     \* its saved copy
    latched,        \* interrupts that wait for their handler
    faults          \* how many so far

store == <<flash, my_bl_data, prepared>>
vars  == <<store, pc, call, result, vic, buffer_vic, latched, faults>>

Size  == Smalls * SmallPages + LargePages
Pages == 0..(Size - 1)
NoSector == 255

\* No call has returned.
None == 255

Get_Sec_Num(page) ==
    CASE page < Smalls * SmallPages -> page \div SmallPages
      [] page \in (Smalls * SmallPages)..(Size - 1) -> Smalls
      [] OTHER -> NoSector

\* The three functions: iap_Write() and iap_Erase() take an address, which may
\* lie behind the flash, iap_Erase_sector() two sector numbers.
WriteCall(page) == [op |-> "write", page |-> page,
                    first |-> Get_Sec_Num(page), last |-> Get_Sec_Num(page)]
EraseSectors(first, last) == [op |-> "erase", page |-> 0, first |-> first, last |-> last]
EraseCall(page) == EraseSectors(Get_Sec_Num(page), Get_Sec_Num(page))

Calls == {WriteCall(p) : p \in 0..Size} \cup {EraseCall(p) : p \in 0..Size}
         \cup {EraseSectors(s, t) : s, t \in 0..Smalls}

Sectors == call.first..call.last
Valid   == call.first <= call.last /\ call.last <= Smalls
Target  == IF call.op = "write" THEN {call.page} \cap Pages
           ELSE {p \in Pages : Get_Sec_Num(p) \in Sectors}
IsBlank == \A p \in Pages : Get_Sec_Num(p) \in Sectors => flash[p] = Bits

Inside == {"mask", "check", "prepare", "change", "verify"}

TypeOK ==
    /\ flash \in [Pages -> SUBSET Bits]
    /\ my_bl_data \in SUBSET Bits
    /\ pc \in Inside \cup {"idle", "off"}
    /\ call \in Calls
    /\ result \in 0..4 \cup {None}
    /\ vic \in SUBSET Lines /\ buffer_vic \in SUBSET Lines
    /\ latched \in SUBSET Lines
    /\ faults \in 0..Faults

Init ==
    /\ flash = [p \in Pages |-> Bits] /\ my_bl_data = {} /\ prepared = {}
    /\ pc = "idle" /\ call = WriteCall(0) /\ result = None
    /\ vic = Lines /\ buffer_vic = {} /\ latched = {}
    /\ faults = 0

Fault == faults < Faults /\ faults' = faults + 1

\* A handler that is due runs before the next instruction of the main loop.
NotInterrupted == latched \cap vic = {}

(***************************************************************************)
(* The driver                                                              *)
(***************************************************************************)
\* The caller has filled my_bl_data; the interrupts in use are noted.
Begin ==
    /\ pc = "idle" /\ NotInterrupted
    /\ call' \in Calls
    /\ my_bl_data' \in IF call'.op = "write" THEN SUBSET Bits ELSE {my_bl_data}
    /\ pc' = "mask" /\ result' = None
    /\ buffer_vic' = vic
    /\ UNCHANGED <<flash, prepared, vic, latched, faults>>

Mask ==
    /\ pc = "mask" /\ NotInterrupted
    /\ pc' = "check" /\ vic' = {}
    /\ UNCHANGED <<store, call, result, buffer_vic, latched, faults>>

\* VICIntEnable = buffer_vic, which sets bits only, and return.
Return(r) ==
    /\ pc' = "idle" /\ result' = r
    /\ vic' = vic \cup buffer_vic
    /\ UNCHANGED <<call, buffer_vic, latched>>

Continue(step) ==
    /\ pc' = step
    /\ UNCHANGED <<call, result, vic, buffer_vic, latched>>

\* Mutant: the warning of iap_Write() is taken for an error.
Check_WarningFails ==
    /\ pc = "check"
    /\ \/ call.op = "erase" /\ Valid /\ IsBlank /\ Return(1)
       \/ call.op = "write" /\ Valid /\ ~IsBlank /\ Return(2)
       \/ call.op = "erase" /\ ~(Valid /\ IsBlank) /\ Continue("prepare")
       \/ call.op = "write" /\ (Valid => IsBlank) /\ Continue("prepare")
    /\ UNCHANGED <<store, faults>>

\* Blank_Check_Sector(): an erase ends here when there is nothing to erase, a
\* write goes on in any case.
Check ==
    /\ pc = "check"
    /\ \/ call.op = "erase" /\ Valid /\ IsBlank /\ Return(1)
       \/ ~(call.op = "erase" /\ Valid /\ IsBlank) /\ Continue("prepare")
    /\ UNCHANGED <<store, faults>>

\* Prepare_Sectors()
Prepare ==
    /\ pc = "prepare"
    /\ \/ /\ Valid /\ prepared' = Sectors /\ Continue("change")
          /\ UNCHANGED faults
       \/ /\ Valid => Fault
          /\ ~Valid => UNCHANGED faults
          /\ Return(2) /\ UNCHANGED prepared
    /\ UNCHANGED <<flash, my_bl_data>>

\* What a command does to a page when it runs to its end ...
Full(old) == IF call.op = "write" THEN old \cap my_bl_data ELSE Bits

\* ... and where it may leave the page when it does not.
Partly(old) == IF call.op = "write"
               THEN {new \in SUBSET old : old \cap my_bl_data \subseteq new}
               ELSE {new \in SUBSET Bits : old \subseteq new}

Torn == {f \in [Pages -> SUBSET Bits] : \A p \in Pages :
            f[p] \in IF p \in Target THEN Partly(flash[p]) ELSE {flash[p]}}

\* Copy_RAM_To_Flash() or Erase_Sectors(): refused when not prepared.
Change ==
    /\ pc = "change" /\ UNCHANGED my_bl_data
    /\ \/ /\ Sectors \subseteq prepared /\ prepared' = {}
          /\ flash' = [p \in Pages |-> IF p \in Target THEN Full(flash[p]) ELSE flash[p]]
          /\ Continue("verify") /\ UNCHANGED faults
       \/ /\ Fault /\ Sectors \subseteq prepared
          /\ flash' \in Torn
          /\ \/ prepared' = {} /\ Continue("verify")
             \/ UNCHANGED prepared /\ Return(3)
       \/ /\ ~(Sectors \subseteq prepared)
          /\ Return(3) /\ UNCHANGED <<flash, prepared, faults>>

Matches == IF call.op = "write" THEN flash[call.page] = my_bl_data ELSE IsBlank

\* Mutant: a mismatch returns with the interrupts still masked.
Verify_StaysMasked ==
    /\ pc = "verify"
    /\ \/ Matches /\ Return(0)
       \/ /\ ~Matches /\ pc' = "idle" /\ result' = 4
          /\ UNCHANGED <<call, vic, buffer_vic, latched>>
    /\ UNCHANGED <<store, faults>>

\* Mutant: success without a look at flash.
Verify_Trusting ==
    /\ pc = "verify" /\ Return(0)
    /\ UNCHANGED <<store, faults>>

\* Mutant: the status of the ROM is handed on.
Verify_RawStatus ==
    /\ pc = "verify"
    /\ \/ Matches /\ Return(0)
       \/ ~Matches /\ Return(IF call.op = "write" THEN 10 ELSE 8)
    /\ UNCHANGED <<store, faults>>

\* Compare() or the second Blank_Check_Sector()
Verify ==
    /\ pc = "verify"
    /\ \/ Matches /\ Return(0)
       \/ ~Matches /\ Return(4)
    /\ UNCHANGED <<store, faults>>

(***************************************************************************)
(* Interrupts and the power                                                *)
(***************************************************************************)
Raise(l) ==
    /\ pc # "off" /\ latched' = latched \cup {l}
    /\ UNCHANGED <<store, pc, call, result, vic, buffer_vic, faults>>

Handle(l) ==
    /\ l \in latched \cap vic /\ latched' = latched \ {l}
    /\ UNCHANGED <<store, pc, call, result, vic, buffer_vic, faults>>

PowerFails ==
    /\ pc # "off" /\ Fault
    /\ pc' = "off" /\ result' = None
    /\ flash' \in IF pc = "change" THEN Torn ELSE {flash}
    /\ prepared' = {} /\ my_bl_data' = {}
    /\ vic' = {} /\ buffer_vic' = {} /\ latched' = {}
    /\ UNCHANGED call

Boot ==
    /\ pc = "off" /\ pc' = "idle"
    /\ vic' = Lines
    /\ UNCHANGED <<store, call, result, buffer_vic, latched, faults>>

Driver == Mask \/ Check \/ Prepare \/ Change \/ Verify

Next == \/ Begin \/ Driver
        \/ \E l \in Lines : Raise(l) \/ Handle(l)
        \/ PowerFails \/ Boot

Spec == Init /\ [][Next]_vars

\* A call runs on and a handler that may run does.
Fairness == WF_vars(Driver) /\ \A l \in Lines : WF_vars(Handle(l))

FairSpec == Spec /\ Fairness

(***************************************************************************)
(* Properties.                                                             *)
(***************************************************************************)
\* The driver does what FlashStore promises: a call changes the pages it names
\* and no others, and 0 and 1 are returned only when flash holds what was asked
\* for, whatever the ROM reports or leaves behind.
Job == IF pc \in Inside
       THEN [op |-> call.op, pages |-> Target,
             content |-> IF call.op = "write" THEN my_bl_data ELSE {}]
       ELSE [op |-> "none", pages |-> {}, content |-> {}]

Store == INSTANCE FlashStore WITH job <- Job, answer <- result

Implements == Store!Spec

\* No handler can run while the ROM works, and all of them can between calls:
\* every return, the early ones too, has enabled what was enabled before.
Masked == /\ pc \in Inside \ {"mask"} => vic = {}
          /\ pc = "idle" => vic = Lines

\* An interrupt that comes during a call, as the one of the full hour may, is
\* handled afterwards (power failures apart).
Served == \A l \in Lines : l \in latched ~> l \notin latched

\* What the results mean when no command fails: a write into the flash ends with
\* 0, or with 4 if the page lacks a bit the data needs, that is, if it was not
\* erased; an erase with 0 or 1; a call for a sector that is not there with 2.
FaultlessCalls ==
    pc = "idle" /\ result # None /\ faults = 0 =>
        CASE ~Valid -> result = 2
          [] Valid /\ call.op = "erase" -> result \in {0, 1}
          [] Valid /\ call.op = "write" ->
                \/ result = 0
                \/ result = 4 /\ ~(my_bl_data \subseteq flash[call.page])
=============================================================================
