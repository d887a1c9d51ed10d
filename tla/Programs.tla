------------------------------- MODULE Programs -------------------------------
(***************************************************************************)
(* A points program under its administrators: it is created, patched and   *)
(* switched off and on, while others adjust the accounts it has.  Each     *)
(* call is a transaction that reads first and writes at its end; of the    *)
(* program's row no version is checked when it is written.  The program is *)
(* one no registered behavior uses: the others are never switched off.     *)
(***************************************************************************)
EXTENDS Integers, FiniteSets

CONSTANTS
    Stewards,        \* calls that may be open at one time
    Holders,         \* subjects that may have an account
    Units,           \* units of the program
    MaxStewardCalls  \* bound: calls

ASSUME ProgramsAssumption == Units # {} /\ MaxStewardCalls \in Nat

VARIABLES
    program,       \* the row in points_programs
    held,          \* the accounts, each with its balance, and the unit it was opened in
    steward,       \* the open calls
    crossed,       \* a call on the program and one on an account overlapped
    stewardCalls

programsVars == <<program, held, steward, crossed, stewardCalls>>

NoProgram == [status |-> "absent"]
NotOpened == [version |-> 0]
NoTask == [does |-> "nothing"]
OnOff == {"active", "inactive"}

ProgramsTypeOK ==
    /\ program \in {NoProgram} \union [status : OnOff, unit : Units, version : Nat \ {0}]
    /\ \A h \in Holders :
         held[h] \in {NotOpened} \union [version : Nat \ {0}, balance : Int, unit : Units]
    /\ \A s \in Stewards : steward[s].does \in {"nothing", "update", "status", "adjust"}

ProgramsInit ==
    /\ program = NoProgram
    /\ held = [h \in Holders |-> NotOpened]
    /\ steward = [s \in Stewards |-> NoTask]
    /\ crossed = FALSE
    /\ stewardCalls = 0

-----------------------------------------------------------------------------
Accounts == {h \in Holders : held[h] # NotOpened}
OnAccounts(s) == steward[s].does = "adjust"
OnProgram(s) == steward[s].does \in {"update", "status"}

(* A call that reads; it counts as crossed if it overlaps one of the other *)
(* kind.                                                                   *)
OpensTask(s, task) ==
    /\ steward[s] = NoTask /\ stewardCalls < MaxStewardCalls
    /\ stewardCalls' = stewardCalls + 1
    /\ steward' = [steward EXCEPT ![s] = task]
    /\ crossed' = (crossed \/ \E o \in Stewards :
                      IF task.does = "adjust" THEN OnProgram(o) ELSE OnAccounts(o))
    /\ UNCHANGED <<program, held>>

ClosesTask(s) ==
    /\ steward' = [steward EXCEPT ![s] = NoTask]
    /\ UNCHANGED <<crossed, stewardCalls>>

CreateProgram ==
    /\ program = NoProgram
    /\ \E unit \in Units : program' = [status |-> "active", unit |-> unit, version |-> 1]
    /\ UNCHANGED <<held, steward, crossed, stewardCalls>>

(* The caller's expected version is compared with the row that was read:   *)
(* with another one the call ends there.                                   *)
Exists == program # NoProgram

UpdateProgramReads(s) ==
    /\ Exists
    /\ \E unit \in Units :
         /\ unit # program.unit => Accounts = {}
         /\ OpensTask(s, [does |-> "update", saw |-> program, unit |-> unit])

UpdateProgram(s) ==
    /\ steward[s].does = "update"
    /\ program' = [program EXCEPT !.version = steward[s].saw.version + 1,
                                  !.unit = IF steward[s].unit = steward[s].saw.unit THEN @
                                           ELSE steward[s].unit]
    /\ ClosesTask(s) /\ UNCHANGED held

(* A program is switched off only without points: a debt counts, too.      *)
WithoutCredit == \A h \in Accounts : held[h].balance <= 0  \* mutant of WithoutPoints
WithoutPoints == \A h \in Accounts : held[h].balance = 0

SetStatusReads(s) ==
    /\ Exists
    /\ \E status \in OnOff :
         /\ status = "inactive" => WithoutPoints
         /\ OpensTask(s, [does |-> "status", saw |-> program, status |-> status])

SetProgramStatus(s) ==
    /\ steward[s].does = "status"
    /\ program' = [program EXCEPT !.version = steward[s].saw.version + 1,
                                  !.status = IF steward[s].status = steward[s].saw.status THEN @
                                             ELSE steward[s].status]
    /\ ClosesTask(s) /\ UNCHANGED held

(* AdjustPoints: under an active program only, the balance with its        *)
(* version; a first adjustment opens the account.                          *)
RequireProgram == Exists /\ program.status = "active"

AdjustReads(s) ==
    /\ RequireProgram
    /\ \E h \in Holders, points \in {-1, 1} :
         OpensTask(s, [does |-> "adjust", holder |-> h, saw |-> held[h], points |-> points,
                       unit |-> program.unit])

AdjustPoints(s) ==
    /\ steward[s].does = "adjust"
    /\ LET task == steward[s]
           first == [version |-> 1, balance |-> task.points, unit |-> task.unit]
           next == [task.saw EXCEPT !.version = @ + 1, !.balance = @ + task.points]
       IN /\ held[task.holder] = task.saw
          /\ held' = [held EXCEPT ![task.holder] = IF task.saw = NotOpened THEN first ELSE next]
    /\ ClosesTask(s) /\ UNCHANGED program

(* A conflict of versions, or the end of the process.                      *)
AbandonTask(s) ==
    /\ steward[s] # NoTask
    /\ ClosesTask(s) /\ UNCHANGED <<program, held>>

ProgramsNext ==
    \/ CreateProgram
    \/ \E s \in Stewards :
         \/ UpdateProgramReads(s) \/ UpdateProgram(s)
         \/ SetStatusReads(s) \/ SetProgramStatus(s)
         \/ AdjustReads(s) \/ AdjustPoints(s)
         \/ AbandonTask(s)

ProgramsSpec == ProgramsInit /\ [][ProgramsNext]_programsVars

-----------------------------------------------------------------------------
(* "Program cannot be deactivated while balances are non-zero", and its    *)
(* "unit cannot change after accounts exist" (points/admin.py): however    *)
(* administrators' patches overwrite each other, both hold as long as none *)
(* of them overlaps a command on an account.                               *)
OffMeansEmpty ==
    ~crossed =>
        /\ program.status = "inactive" => \A h \in Accounts : held[h].balance = 0
        /\ \A h \in Accounts : held[h].unit = program.unit
=============================================================================
