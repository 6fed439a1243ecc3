------------------------------ MODULE PayShapMock ------------------------------
(***************************************************************************)
(* payshap-mock: a simulated PayShap that makes QR codes, validates them,  *)
(* and takes payments behind an idempotency check. Each function is a      *)
(* statement of its own, and a check that fails lets the payment proceed.  *)
(***************************************************************************)
EXTENDS Integers, FiniteSets

CONSTANTS
    Codes,          \* qrCodeIds that the service makes
    Payers,         \* requests to /payshap/pay
    Pays,           \* per request its code, the code whose transactionId it names, its amount;
                    \* either may be one that the service has never made
    MaxDbFaults     \* bound: database calls that fail

VARIABLES
    qrPayment,  \* the row of each code: status, whether its expiresAt is over; "none" before
    payer,      \* where the handler of each request stands
    dbFaults

shapVars == <<qrPayment, payer, dbFaults>>

ShapInit ==
    /\ qrPayment = [q \in Codes |-> [status |-> "none", expired |-> FALSE]]
    /\ payer = [p \in Payers |-> "idle"]
    /\ dbFaults = 0

Exists(q) == q \in Codes /\ qrPayment[q].status # "none"
DbFault == dbFaults < MaxDbFaults /\ dbFaults' = dbFaults + 1
Goto(p, where) == payer' = [payer EXCEPT ![p] = where]
Mark(q, status) == qrPayment' = IF Exists(q) THEN [qrPayment EXCEPT ![q].status = status] ELSE qrPayment

\* POST /payshap/qr: recordQrPayment makes a PENDING row.
GenerateCode(q) ==
    /\ qrPayment[q].status = "none"
    /\ qrPayment' = [qrPayment EXCEPT ![q].status = "PENDING"]
    /\ UNCHANGED <<payer, dbFaults>>

\* Thirty minutes later.
ExpireCode(q) ==
    /\ Exists(q) /\ ~ qrPayment[q].expired
    /\ qrPayment' = [qrPayment EXCEPT ![q].expired = TRUE]
    /\ UNCHANGED <<payer, dbFaults>>

\* GET /payshap/qr/:id marks a code that has run out, even a completed one.
ValidateCode(q) ==
    /\ Exists(q) /\ qrPayment[q].expired
    /\ Mark(q, "EXPIRED")
    /\ UNCHANGED <<payer, dbFaults>>

\* The ids are uuids of the service: who names one of them has been told it.
Told(p) == \A q \in {Pays[p].code, Pays[p].transaction} \cap Codes : Exists(q)

\* checkQrIdempotency: any row of the code or of the transaction is a duplicate, the
\* PENDING one with which the code was made included.
CheckDuplicate(p) ==
    /\ payer[p] = "idle" /\ Told(p)
    /\ \/ Goto(p, IF Exists(Pays[p].code) \/ Exists(Pays[p].transaction) THEN "409" ELSE "expiry")
          /\ UNCHANGED dbFaults
       \/ Goto(p, "expiry") /\ DbFault
    /\ UNCHANGED qrPayment

\* isQrCodeExpired: what is not found has not expired, and so when the check fails.
CheckExpiry(p) ==
    /\ payer[p] = "expiry"
    /\ \/ Goto(p, IF Exists(Pays[p].code) /\ qrPayment[Pays[p].code].expired THEN "400" ELSE "find")
          /\ UNCHANGED dbFaults
       \/ Goto(p, "find") /\ DbFault
    /\ UNCHANGED qrPayment

\* The row, its amount; an error marks the code as FAILED before the answer.
FindCode(p) ==
    /\ payer[p] = "find"
    /\ \/ Goto(p, IF ~ Exists(Pays[p].code) THEN "404" ELSE IF Pays[p].right THEN "update" ELSE "400")
          /\ UNCHANGED dbFaults
       \/ Goto(p, "fail") /\ DbFault
    /\ UNCHANGED qrPayment

\* updateMany by the transactionId of the request, whichever row has it, or none.
CompleteCode(p) ==
    /\ payer[p] = "update"
    /\ \/ Mark(Pays[p].transaction, "COMPLETED") /\ Goto(p, "success") /\ UNCHANGED dbFaults
       \/ Goto(p, "fail") /\ DbFault /\ UNCHANGED qrPayment

FailCode(p) ==
    /\ payer[p] = "fail"
    /\ \/ Mark(Pays[p].code, "FAILED") /\ UNCHANGED dbFaults
       \/ DbFault /\ UNCHANGED qrPayment
    /\ Goto(p, "500")

ShapNext ==
    \/ \E q \in Codes : GenerateCode(q) \/ ExpireCode(q) \/ ValidateCode(q)
    \/ \E p \in Payers : CheckDuplicate(p) \/ CheckExpiry(p) \/ FindCode(p) \/ CompleteCode(p) \/ FailCode(p)

(***************************************************************************)
(* Properties.                                                             *)
(***************************************************************************)
\* "This QR code or transaction has already been processed": who is told so names a code
\* or a transaction that a payment has gone through with.
DuplicatesWereProcessed ==
    \A p \in Payers :
        payer[p] = "409" =>
            \E r \in Payers :
                /\ payer[r] = "success"
                /\ Pays[r].code = Pays[p].code \/ Pays[r].transaction = Pays[p].transaction
=============================================================================
