---------------------------- MODULE Certificates ----------------------------
(***************************************************************************)
(* The certificate the gateway serves (internal/tlscert): an uploaded one, *)
(* else the file's, else one it generates.  Upload, reset, regenerate and  *)
(* the hourly renewal change the two stored rows and the active pointer in *)
(* steps; nothing serialises them.  TLSOverlap says whether two overlap.   *)
(*                                                                         *)
(* A certificate is a number from a counter and the day it ends: Soon is   *)
(* within renewBefore of its end.  Settings, which the console changes     *)
(* live too, is extended to state what both promise (ConfigServed).        *)
(***************************************************************************)
EXTENDS Settings, FiniteSets

CONSTANTS
    TlsJobs,      \* goroutines: console requests and the renewal
    TLSOverlap,   \* BOOLEAN
    MaxCert,      \* bound: certificates made or uploaded
    MaxTlsErrors, \* bound: statements that fail
    MaxYears      \* bound: times a stored certificate ages

ASSUME CertificatesAssumption == MaxCert \in Nat \ {0} /\ MaxTlsErrors \in Nat /\ MaxYears \in Nat

VARIABLES
    file,     \* Manager.File is there
    slot,     \* tls_certificates: the uploaded and the generated row, 0 for none
    active,   \* Manager.active: its source and certificate
    aged,     \* certificates past their end, or generated ones near it
    issued,   \* certificates so far
    tls,      \* per goroutine: what it does and how far it is
    slips, years

certVars == <<file, slot, active, aged, issued, tls, slips, years>>

Certs == 1 .. MaxCert
NoJob == [op |-> "none", pc |-> "idle", cert |-> 0, replace |-> FALSE]
Loading == {"upload_row", "generated_row"}

CertTypeOK ==
    /\ file \in BOOLEAN
    /\ slot \in [{"uploaded", "generated"} -> 0 .. MaxCert]
    /\ active \in [source : {"uploaded", "file", "generated"}, cert : 0 .. MaxCert]
    /\ aged \subseteq Certs /\ issued \in 0 .. MaxCert
    /\ tls \in [TlsJobs -> [op : {"none", "upload", "reset", "regenerate", "renew", "start"},
                            pc : {"idle", "put", "set", "delete", "make", "look"} \cup Loading,
                            cert : 0 .. MaxCert, replace : BOOLEAN]]
    /\ slips \in 0 .. MaxTlsErrors /\ years \in 0 .. MaxYears

(* The first Load: with no file certificate, a generated one.              *)
CertInit ==
    /\ file \in BOOLEAN
    /\ slot = [uploaded |-> 0, generated |-> IF file THEN 0 ELSE 1]
    /\ active = IF file THEN [source |-> "file", cert |-> 0] ELSE [source |-> "generated", cert |-> 1]
    /\ issued = IF file THEN 0 ELSE 1
    /\ aged = {} /\ tls = [j \in TlsJobs |-> NoJob] /\ slips = 0 /\ years = 0

Begin(j, job) ==
    /\ tls[j] = NoJob /\ (TLSOverlap \/ \A k \in TlsJobs : tls[k] = NoJob)
    /\ tls' = [tls EXCEPT ![j] = job]
    /\ UNCHANGED <<file, slot, active, aged, slips, years>>
On(j, pc) == tls' = [tls EXCEPT ![j].pc = pc]
Off(j) == tls' = [tls EXCEPT ![j] = NoJob]
Starting == [NoJob EXCEPT !.op = "start", !.pc = "upload_row"]
\* A gateway whose start fails exits, and is started again.
Slip(j) == slips < MaxTlsErrors /\ slips' = slips + 1 /\ tls' = [tls EXCEPT ![j] = IF @.op = "start" THEN Starting ELSE NoJob]

(* Upload, once Parse accepted it: stored, then serves.                    *)
Upload(j) == issued < MaxCert /\ issued' = issued + 1
               /\ Begin(j, [op |-> "upload", pc |-> "put", cert |-> issued + 1, replace |-> TRUE])
Reset(j) == Begin(j, [NoJob EXCEPT !.op = "reset", !.pc = "delete"]) /\ UNCHANGED issued
Regenerate(j) == Begin(j, [NoJob EXCEPT !.op = "regenerate", !.pc = "make"]) /\ UNCHANGED issued
(* The gateway starts again: what was under way is gone, and Load runs     *)
(* before it listens.                                                      *)
Starts(j) == tls' = [k \in TlsJobs |-> IF k = j THEN Starting ELSE NoJob] /\ UNCHANGED <<file, slot, active, aged, issued, slips, years>>
(* Renew looks at the certificate that serves.                             *)
Renew(j) == active.source = "generated" /\ active.cert \in aged
              /\ Begin(j, [NoJob EXCEPT !.op = "renew", !.pc = "upload_row"]) /\ UNCHANGED issued

Kind(j) == IF tls[j].op = "upload" THEN "uploaded" ELSE "generated"
Put(j) ==
    /\ tls[j].pc = "put"
    /\ \/ slot' = [slot EXCEPT ![Kind(j)] = tls[j].cert] /\ On(j, IF tls[j].replace THEN "set" ELSE "look") /\ UNCHANGED slips
       \/ Slip(j) /\ UNCHANGED slot
    /\ UNCHANGED <<file, active, aged, issued, years>>
Serve(j) ==
    /\ tls[j].pc = "set"
    /\ active' = [source |-> Kind(j), cert |-> tls[j].cert]
    /\ Off(j)
    /\ UNCHANGED <<file, slot, aged, issued, slips, years>>

(* Delete; then Load, whose failure leaves what served before.             *)
Delete(j) ==
    /\ tls[j].pc = "delete"
    /\ \/ slot' = [slot EXCEPT !["uploaded"] = 0] /\ On(j, "upload_row") /\ UNCHANGED slips
       \/ Slip(j) /\ UNCHANGED slot
    /\ UNCHANGED <<file, active, aged, issued, years>>

(* loadActive: the upload if it can serve, else the file, else the         *)
(* generated row unless it is near its end or lacks a name configured      *)
(* before this start, else a new one.                                      *)
LoadUpload(j) ==
    /\ tls[j].pc = "upload_row"
    /\ IF slot["uploaded"] \notin aged \cup {0}
       THEN active' = [source |-> "uploaded", cert |-> slot["uploaded"]] /\ Off(j)
       ELSE IF file THEN active' = [source |-> "file", cert |-> 0] /\ Off(j)
       ELSE On(j, "generated_row") /\ UNCHANGED active
    /\ UNCHANGED <<file, slot, aged, issued, slips, years>>
LoadGenerated(j) ==
    /\ tls[j].pc = "generated_row"
    /\ \/ /\ slot["generated"] \notin aged \cup {0}
          /\ active' = [source |-> "generated", cert |-> slot["generated"]] /\ Off(j)
       \/ /\ slot["generated"] \in aged \cup {0} \/ tls[j].op = "start"
          /\ tls' = [tls EXCEPT ![j].pc = "make", ![j].replace = TRUE] /\ UNCHANGED active
    /\ UNCHANGED <<file, slot, aged, issued, slips, years>>
LoadFails(j) ==
    /\ tls[j].pc \in Loading /\ Slip(j)
    /\ UNCHANGED <<file, slot, active, aged, issued, years>>

(* regenerate: SelfSign, Put; without replace, a look at what serves.      *)
Make(j) ==
    /\ tls[j].pc = "make" /\ issued < MaxCert
    /\ issued' = issued + 1
    /\ tls' = [tls EXCEPT ![j].pc = "put", ![j].cert = issued + 1]
    /\ UNCHANGED <<file, slot, active, aged, slips, years>>
LookMut(j) ==
    /\ tls[j].pc = "look" /\ On(j, "set")
    /\ UNCHANGED <<file, slot, active, aged, issued, slips, years>>
Look(j) ==
    /\ tls[j].pc = "look"
    /\ IF active.source = "generated" THEN On(j, "set") ELSE Off(j)
    /\ UNCHANGED <<file, slot, active, aged, issued, slips, years>>

(* Time passes for a certificate.                                          *)
Age(c) ==
    /\ c \in 1 .. issued /\ c \notin aged /\ years < MaxYears
    /\ aged' = aged \cup {c} /\ years' = years + 1
    /\ UNCHANGED <<file, slot, active, issued, tls, slips>>

CertNext == \/ \E c \in Certs : Age(c)
            \/ \E j \in TlsJobs : \/ Starts(j) \/ Upload(j) \/ Reset(j) \/ Regenerate(j) \/ Renew(j) \/ Put(j) \/ Serve(j) \/ Delete(j)
                                  \/ LoadUpload(j) \/ LoadGenerated(j) \/ LoadFails(j) \/ Make(j) \/ Look(j)

CertSpec == CertInit /\ [][CertNext]_certVars

-----------------------------------------------------------------------------

(* Precedence across failures and renewals: when nothing is in progress, a *)
(* stored upload that can serve is what serves; and with a file            *)
(* certificate a generated one serves never.                               *)
UploadTakesPrecedence ==
    (\A j \in TlsJobs : tls[j] = NoJob) =>
        /\ slot["uploaded"] \notin aged \cup {0} => active = [source |-> "uploaded", cert |-> slot["uploaded"]]
        /\ file => active.source # "generated"

\* A setting that was answered is in force (settings.go), and a stored upload
\* that can serve is what serves (tlscert.go).
ConfigServed == SettingTypeOK /\ CertTypeOK /\ ChangeApplies /\ UploadTakesPrecedence
=============================================================================
