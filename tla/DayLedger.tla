------------------------------ MODULE DayLedger ------------------------------
(***************************************************************************)
(* What the gate promises of one person's day, with neither requests nor   *)
(* handlers: a ledger in which the arrival, the departure and Ashar are    *)
(* each written once and never changed, and a departure not without its    *)
(* reason.  GateServer implements it (GateServerProofs, MCGateDay).        *)
(***************************************************************************)
EXTENDS Integers

CONSTANTS
    MinStay,   \* MIN_GATE_STAY_MINUTES
    None

VARIABLES
    arrival,   \* when the person came
    departure, \* when the person left, and by what right
    prayed,    \* when Ashar was scanned
    excused,   \* the times the emergency mode was declared for
    duty       \* TRUE: a student who has to pray Ashar before leaving

ledgerVars == <<arrival, departure, prayed, excused, duty>>

LedgerInit ==
    /\ arrival = None /\ departure = None /\ prayed = None
    /\ excused = {}
    /\ duty \in BOOLEAN

Arrive ==
    /\ arrival = None
    /\ arrival' \in Nat
    /\ UNCHANGED <<departure, prayed, excused, duty>>

Depart(why) ==
    /\ departure = None
    /\ departure' \in [at : Nat, why : {why}]
    /\ UNCHANGED <<arrival, prayed, excused, duty>>

\* The person came, stayed the minimum (in half minutes, rounded) and prayed.
Leave ==
    /\ Depart("plain")
    /\ arrival # None
    /\ (departure'.at - arrival + 1) \div 2 >= MinStay
    /\ duty => prayed # None

\* The person came, and is sent home by the emergency mode.
LeaveEarly ==
    /\ Depart("emergency")
    /\ arrival # None
    /\ departure'.at \in excused

\* An AttendanceOverride stands for whatever is missing.
LeaveByOverride == Depart("override")

Pray ==
    /\ prayed = None
    /\ prayed' \in Nat
    /\ UNCHANGED <<arrival, departure, excused, duty>>

\* What was excused once stays excused.
Declare ==
    /\ excused \subseteq excused'
    /\ UNCHANGED <<arrival, departure, prayed, duty>>

LedgerNext == Arrive \/ Leave \/ LeaveEarly \/ LeaveByOverride \/ Pray \/ Declare

LedgerSpec == LedgerInit /\ [][LedgerNext]_ledgerVars
=============================================================================
