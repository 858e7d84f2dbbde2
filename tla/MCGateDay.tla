------------------------------ MODULE MCGateDay ------------------------------
(* A day at the gate for TLC, in three scenes, of which a behaviour has one: *)
(* students whose requests reach the server in any order (GateServer, phones *)
(* with the split menu), personnel at card readers (GateServer, signed       *)
(* events), and one phone and the server with the link between them          *)
(* (ScanDelivery; what the scenes do not name is as it is there).            *)
EXTENDS ScanDelivery, TLC

CONSTANTS
    PhoneKind,    \* what each scan of the students' phones asks for
    PhoneUnstamped, \* which of them carry no clientScannedAt
    CardKind,     \* what each signed event of the card readers asks for
    RepeatWindow, \* duplicateScanWindowMinutes there, in half minutes
    PrayerWindow, \* when a student's MUSHOLA scan counts as Ashar
    ExitWindow,   \* when personnel may leave
    CardFaults,   \* bound: requests of the card readers that end in a 5xx
    Emergencies   \* bound: times the emergency mode is switched on

VARIABLE scene

\* An older phone with the single menu; a student's two gate scans and one at
\* the prayer reader; a card read on the way in and on the way out.
MCKind      == (1 :> "GERBANG") @@ (2 :> "GERBANG")
MCPhoneKind == (1 :> "GATE_IN") @@ (2 :> "GATE_OUT") @@ (3 :> "MUSHOLA")
MCCardKind  == (1 :> "IN") @@ (2 :> "OUT")

\* Students who have to pray Ashar; their scans arrive queued, in any order
\* and any number of times.
Phones == INSTANCE GateServer WITH
    Scan <- DOMAIN PhoneKind, Kind <- PhoneKind, HasEventId <- {}, Unstamped <- PhoneUnstamped,
    Student <- TRUE, AsharRequired <- TRUE, DupWindow <- RepeatWindow,
    AsharWindow <- PrayerWindow, MaxEmergency <- Emergencies

\* Personnel at card readers that send an event again; requests may fail.
Cards == INSTANCE GateServer WITH
    Scan <- DOMAIN CardKind, Kind <- CardKind, HasEventId <- DOMAIN CardKind, Unstamped <- {},
    Student <- FALSE, AsharRequired <- FALSE, DupWindow <- RepeatWindow,
    OutWindow <- ExitWindow, MaxFaults <- CardFaults, MaxEmergency <- Emergencies

ASSUME DayAssumption == Phones!GateAssumption /\ Cards!GateAssumption

DayInit ==
    /\ Phone!QueueInit
    /\ serving = [c \in Phone!Channel |-> None] /\ late = {}
    /\ \/ scene = "phones" /\ Phones!Init
       \/ scene = "cards"  /\ Cards!Init
       \/ scene = "link"   /\ Server!Init

DayNext ==
    /\ UNCHANGED scene
    /\ \/ scene = "phones" /\ Phones!Next /\ UNCHANGED <<phoneVars, linkVars>>
       \/ scene = "cards"  /\ Cards!Next  /\ UNCHANGED <<phoneVars, linkVars>>
       \/ scene = "link"   /\ Next

DaySpec == DayInit /\ [][DayNext]_<<vars, scene>>

-----------------------------------------------------------------------------
\* The types of the variables in each scene.
DayTypeOK ==
    CASE scene = "phones" -> Phones!TypeOK
      [] scene = "cards"  -> Cards!TypeOK
      [] scene = "link"   -> TypeOK

\* Whoever is recorded as gone came first, and stayed or was excused, at
\* either gate (GateServer's OutJustified).
OutJustified ==
    /\ scene = "phones" => Phones!OutJustified
    /\ scene = "cards"  => Cards!OutJustified

\* A student recorded as gone has prayed Ashar or was excused (GateServer's
\* AsharOnRecord; personnel need not).
AsharOnRecord ==
    /\ scene = "phones" => Phones!AsharOnRecord
    /\ scene = "cards"  => Cards!AsharOnRecord

\* A scan answered ok left the row it asked for, at either gate
\* (GateServer's OkMeansRecorded).
OkMeansRecorded ==
    /\ scene = "phones" => Phones!OkMeansRecorded
    /\ scene = "cards"  => Cards!OkMeansRecorded

\* The day of every scene as a ledger: its entries, the hours that are excused,
\* and whether the person has to pray.
Ledger == INSTANCE DayLedger WITH
    arrival   <- IF logs["IN"] = None THEN None ELSE logs["IN"].at,
    departure <- IF logs["OUT"] = None THEN None
                 ELSE [at |-> logs["OUT"].at, why |-> logs["OUT"].why],
    prayed    <- ashar,
    excused   <- {t \in 0 .. (MaxTime + Skew) :
                     \E e \in emergency : e.from <= t /\ t < e.until},
    duty      <- scene = "phones" \/ (scene = "link" /\ Student /\ AsharRequired)

\* The ledger's entries are written once each, and the departure for a reason
\* that holds when it is written, however the handlers read and insert in between
\* each other (the unique indexes of GateLog and PrayerAttendanceLog, and the
\* checks of ensureGateScanAllowed and ensureStudentAsharBeforeCheckout).
LedgerKept == Ledger!LedgerSpec

HandlerSymmetry == Permutations(Handler)

\* A state as TLC tells it from others: what the history told so far, without
\* how much of that it still shows.  No step but its clearing depends on the
\* rest, and no property of this run does.
DayView == <<Phone!Told, taken, out, queue, tries, plan, note, row, excused, trouble,
             serverVars, linkVars, stamp, scene>>
=============================================================================
