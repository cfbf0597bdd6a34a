----------------------------- MODULE FlashStore -----------------------------
(***************************************************************************)
(* What the callers of the in-application programming driver may rely on:  *)
(* one job at a time, pages that are not the job's are left alone, bits    *)
(* move one way, and the answer says what is in flash.  A job that is cut  *)
(* short by a power failure leaves its pages anywhere on the way.          *)
(***************************************************************************)
EXTENDS Integers

CONSTANTS
    Pages,
    Bits        \* the bits of a page

VARIABLES
    flash,      \* the bits of each page that are 1
    job,        \* what is being done, or NoJob
    answer      \* to the last job, or None

vars == <<flash, job, answer>>

None  == 255
NoJob == [op |-> "none", pages |-> {}, content |-> {}]
Jobs  == [op : {"write", "erase"}, pages : SUBSET Pages, content : SUBSET Bits]

Init == flash = [p \in Pages |-> Bits] /\ job = NoJob /\ answer = None

\* Programming clears bits that the content has clear, erasing sets bits.
OnTheWay(old, new) ==
    CASE job.op = "write" -> old \cap job.content \subseteq new /\ new \subseteq old
      [] job.op = "erase" -> old \subseteq new
      [] OTHER            -> new = old

Moved == /\ flash' \in [Pages -> SUBSET Bits]
         /\ \A p \in Pages : IF p \in job.pages THEN OnTheWay(flash[p], flash'[p])
                             ELSE flash'[p] = flash[p]

Ask == job = NoJob /\ job' \in Jobs /\ answer' = None /\ UNCHANGED flash

Work == job # NoJob /\ Moved /\ UNCHANGED <<job, answer>>

\* 0: done; 1: there was nothing to erase; 2 to 4: not known to be done.
Honest(a) ==
    /\ a = 0 => \A p \in job.pages :
                    flash[p] = IF job.op = "write" THEN job.content ELSE Bits
    /\ a = 1 => job.op = "erase" /\ \A p \in job.pages : flash[p] = Bits

\* The last work may coincide with a refusal.
Answer == /\ job # NoJob /\ job' = NoJob
          /\ answer' \in 0..4 /\ Honest(answer')
          /\ Moved /\ (answer' \in 0..1 => UNCHANGED flash)

PowerFails == Moved /\ job' = NoJob /\ answer' = None

Next == Ask \/ Work \/ Answer \/ PowerFails

Spec == Init /\ [][Next]_vars
=============================================================================
