--------------------------- MODULE ReaderDevices ---------------------------
(***************************************************************************)
(* The reader registry: DeviceReaderService over the DeviceReader table.   *)
(* An activation code is issued for a reader and traded by one phone for   *)
(* the reader's secret; administrators rotate, switch and revoke.          *)
(*                                                                         *)
(* Every handler reads the row, decides, and writes it in a transaction    *)
(* later.  Only the trade of the code checks the row again as it writes.   *)
(*                                                                         *)
(* A reader becomes REVOKED in two ways.  The revoke endpoint also sets    *)
(* revokedAt, which nothing ever clears, and takes the secret and the code *)
(* away; updateStatus accepts every DeviceReaderStatus and writes nothing  *)
(* but the status.                                                         *)
(***************************************************************************)
EXTENDS Integers, FiniteSets

CONSTANTS
    Reader,     \* DeviceReader rows of type QR_ANDROID
    Admin,      \* requests the API serves side by side
    MaxActive,  \* MAX_ACTIVE_ANDROID_READERS
    MaxIssued   \* bound: secrets and codes ever generated

ASSUME ReaderDevicesAssumption == {MaxActive, MaxIssued} \subseteq Nat

VARIABLES
    device,   \* the DeviceReader rows
    issued,   \* secrets and codes generated so far
    traded,   \* <<code, secret>> handed to phones
    admin     \* what each request has read and is about to write

devicesVars == <<device, issued, traded, admin>>

\* Secrets and codes are random: each is a number of its own, 0 is null.
Random == 0 .. MaxIssued
Device == [status : {"none", "ACTIVE", "INACTIVE", "REVOKED"}, revokedAt : BOOLEAN,
           secret : Random, code : Random, fresh : BOOLEAN]
Unborn == [status |-> "none", revokedAt |-> FALSE, secret |-> 0,
           code |-> 0, fresh |-> FALSE]
Vacant == [op |-> "idle"]
Errand == {Vacant}
    \cup [op : {"rotate", "revoke", "deactivate", "retire"}, id : Reader]
    \cup [op : {"create", "issue", "activate"}, id : Reader, counted : BOOLEAN]
    \cup [op : {"trade"}, id : Reader, code : Random, counted : BOOLEAN]

DevicesTypeOK ==
    /\ device \in [Reader -> Device]
    /\ issued \in Random
    /\ traded \subseteq Random \X Random
    /\ admin \in [Admin -> Errand]

InService == {r \in Reader : device[r].status = "ACTIVE"}

\* assertValidSignedReaderRequest: a request signed with secret s passes as
\* one of reader r.
Recognised(r, s) ==
    /\ device[r].status = "ACTIVE"
    /\ ~device[r].revokedAt
    /\ device[r].secret = s /\ s # 0

SetOff(w, j) == admin[w] = Vacant /\ admin' = [admin EXCEPT ![w] = j]
Return(w)    == admin' = [admin EXCEPT ![w] = Vacant]
Draw         == issued < MaxIssued /\ issued' = issued + 1

DevicesInit ==
    /\ device = [r \in Reader |-> Unborn]
    /\ issued = 0
    /\ traded = {}
    /\ admin = [w \in Admin |-> Vacant]

\* createReader for a production target: INACTIVE, without a secret.
CreateTarget(r) ==
    /\ device[r].status = "none"
    /\ device' = [device EXCEPT ![r].status = "INACTIVE"]
    /\ UNCHANGED <<issued, traded, admin>>

\* createReader otherwise: ACTIVE, with a secret that is shown once.
AskCreate(w, r) ==
    /\ device[r].status = "none"
    /\ SetOff(w, [op |-> "create", id |-> r, counted |-> FALSE])
    /\ UNCHANGED <<device, issued, traded>>

\* assertAndroidReaderActiveSlotAvailable: a count, without any lock.
CountSlots(w) ==
    /\ admin[w].op \in {"create", "issue", "activate", "trade"}
    /\ ~admin[w].counted
    /\ admin' = [admin EXCEPT ![w] =
           IF Cardinality(InService \ {@.id}) < MaxActive
           THEN [@ EXCEPT !.counted = TRUE] ELSE Vacant]
    /\ UNCHANGED <<device, issued, traded>>

Counted(w, op) == admin[w].op = op /\ admin[w].counted

CreateReader(w) ==
    /\ Counted(w, "create")
    /\ LET r == admin[w].id IN
       IF device[r].status = "none"              \* the device id is unique
       THEN /\ Draw
            /\ device' = [device EXCEPT ![r].status = "ACTIVE", ![r].secret = issued']
       ELSE UNCHANGED <<device, issued>>
    /\ Return(w)
    /\ UNCHANGED traded

\* The status updateStatus is asked to write: ACTIVE, INACTIVE or REVOKED.
Switch == {"activate", "deactivate", "retire"}

\* Mutant: only the status it has is refused, a revoked reader is not.
PickableAlways(r, op) ==
    /\ device[r].status # "none"
    /\ op = "activate" => device[r].status # "ACTIVE" /\ device[r].secret # 0
    /\ op = "deactivate" => device[r].status # "INACTIVE"

\* What issueAndroidProvisionCode, rotateApiKey, revoke and updateStatus want
\* of the row: a revoked reader is refused, and so is the status it has.
Pickable(r, op) ==
    /\ device[r].status \notin {"none", "REVOKED"}
    /\ op = "activate" => device[r].status = "INACTIVE" /\ device[r].secret # 0
    /\ op = "deactivate" => device[r].status = "ACTIVE"

Pick(w, r, op) ==
    /\ Pickable(r, op)
    /\ SetOff(w, IF op \in {"issue", "activate"}
                 THEN [op |-> op, id |-> r, counted |-> FALSE]
                 ELSE [op |-> op, id |-> r])
    /\ UNCHANGED <<device, issued, traded>>

IssueCode(w) ==
    /\ Counted(w, "issue")
    /\ Draw
    /\ device' = [device EXCEPT ![admin[w].id].code = issued', ![admin[w].id].fresh = TRUE]
    /\ Return(w)
    /\ UNCHANGED traded

RotateKey(w) ==
    /\ admin[w].op = "rotate"
    /\ Draw
    /\ device' = [device EXCEPT ![admin[w].id].secret = issued']
    /\ Return(w)
    /\ UNCHANGED traded

\* updateStatus writes the status whatever it has become since the read, and
\* nothing else: REVOKED leaves revokedAt, the secret and the code as they are.
SwitchReader(w) ==
    /\ \/ /\ Counted(w, "activate")
          /\ device' = [device EXCEPT ![admin[w].id].status = "ACTIVE"]
       \/ /\ admin[w].op = "deactivate"
          /\ device' = [device EXCEPT ![admin[w].id].status = "INACTIVE"]
       \/ /\ admin[w].op = "retire"
          /\ device' = [device EXCEPT ![admin[w].id].status = "REVOKED"]
    /\ Return(w)
    /\ UNCHANGED <<issued, traded>>

\* revoke also takes the secret and the code away.
RevokeReader(w) ==
    /\ admin[w].op = "revoke"
    /\ device' = [device EXCEPT ![admin[w].id] =
                     [Unborn EXCEPT !.status = "REVOKED", !.revokedAt = TRUE]]
    /\ Return(w)
    /\ UNCHANGED <<issued, traded>>

\* completeAndroidProvision finds the row of a code that has not expired.
Present(w, r) ==
    /\ device[r].code # 0 /\ device[r].fresh
    /\ device[r].status # "REVOKED"
    /\ SetOff(w, [op |-> "trade", id |-> r, code |-> device[r].code, counted |-> FALSE])
    /\ UNCHANGED <<device, issued, traded>>

\* Mutant: the row is claimed by its id.
ClaimableById(r, code) == device[r].status # "REVOKED"

\* The row as the updateMany's where clause wants it.  The expiry is compared
\* with the time of the request, so a code that was fresh then still counts.
Claimable(r, code) == device[r].status # "REVOKED" /\ device[r].code = code

Trade(w) ==
    /\ Counted(w, "trade")
    /\ LET r == admin[w].id
           code == admin[w].code IN
       IF Claimable(r, code)
       THEN /\ Draw
            /\ traded' = traded \cup {<<code, issued'>>}
            /\ device' = [device EXCEPT ![r].status = "ACTIVE", ![r].secret = issued',
                                        ![r].code = 0, ![r].fresh = FALSE]
       ELSE UNCHANGED <<device, issued, traded>>
    /\ Return(w)

\* provisioningExpiresAt passes.
Lapse(r) ==
    /\ device[r].fresh
    /\ device' = [device EXCEPT ![r].fresh = FALSE]
    /\ UNCHANGED <<issued, traded, admin>>

DevicesNext ==
    \/ \E r \in Reader : CreateTarget(r) \/ Lapse(r)
    \/ \E w \in Admin :
          \/ \E r \in Reader :
                \/ AskCreate(w, r) \/ Present(w, r)
                \/ \E op \in {"issue", "rotate", "revoke"} \cup Switch : Pick(w, r, op)
          \/ CountSlots(w) \/ CreateReader(w)
          \/ IssueCode(w) \/ RotateKey(w)
          \/ SwitchReader(w) \/ RevokeReader(w) \/ Trade(w)

DevicesSpec == DevicesInit /\ [][DevicesNext]_devicesVars

-----------------------------------------------------------------------------
(* Properties.                                                             *)

\* An activation code gives a secret to one phone, however many present it at
\* once (the conditional updateMany of completeAndroidProvision).
CodeTradedOnce ==
    \A p, q \in traded : p[1] = q[1] => p = q

\* A reader is out for good once revoke has marked it, and out for as long as
\* no switch decided earlier is still to be written if updateStatus has only
\* made it REVOKED.
Out(r) ==
    \/ device[r].revokedAt
    \/ /\ device[r].status = "REVOKED"
       /\ \A w \in Admin : admin[w].op \in {"activate", "deactivate"} => admin[w].id # r

\* No secret, old or new, passes for a reader that is out, and it stays out:
\* rotations, codes, trades and retirements that were decided on an older row
\* still write it afterwards, after revoke every switch does too.
RevokedForGood ==
    [][\A r \in Reader : Out(r) =>
          Out(r)' /\ \A s \in Random : ~Recognised(r, s) /\ ~Recognised(r, s)']_devicesVars
=============================================================================
