--------------------------- MODULE WorkerIdentity ----------------------------
(* The identity of one worker: enrollment tokens, certificates and rotations   *)
(* at the daemon (workers/repository.py, service.py, pki.py) and the worker's  *)
(* own credential directory (workers/state.py).  A response may be lost and    *)
(* the worker may die between any two of its file writes.                      *)
EXTENDS Naturals, FiniteSets

CONSTANTS
  MaxKeys,           \* bound: private keys the worker generates
  MaxSerials,        \* bound: certificates the daemon stores
  MaxIdentityFaults  \* bound: lost responses, deaths and lapsed certificates

ASSUME IdentityAssumption == MaxKeys \in Nat /\ MaxSerials \in Nat /\ MaxIdentityFaults \in Nat

KeyIds == 1..MaxKeys
Serials == 1..MaxSerials

VARIABLES
  token,    \* WorkerEnrollmentTokenRow: its state, and whether its time is over
  ident,    \* WorkerIdentityRow
  certs,    \* WorkerCertificateRow by serial: state, certified key, still in its validity
  rotation, \* WorkerCertificateRotationRow by request; a request has a key of its own
  files,    \* the key, certificate and identity in the credential directory
  pending,  \* pending-rotation.json: the request's key and the answer, 0 for none
  identAt,  \* what the worker's enroll or rotate command does
  made,     \* private keys generated so far
  identSpent

identVars == <<token, ident, certs, rotation, files, pending, identAt, made, identSpent>>

Absent == [key |-> 0, cert |-> 0, identity |-> 0]
NoPending == [key |-> 0, bundle |-> 0]
Issued == {s \in Serials : certs[s].state # "none"}
NextSerial == Cardinality(Issued) + 1

IdentityTypeOK ==
  /\ token \in [state : {"none", "active", "consumed", "revoked", "expired"}, due : BOOLEAN]
  /\ ident \in [state : {"none", "active", "revoked"}, current : 0..MaxSerials, revision : Nat]
  /\ certs \in [Serials -> [state : {"none", "current", "superseded", "revoked"},
                            key : 0..MaxKeys, valid : BOOLEAN]]
  /\ rotation \in [KeyIds -> [prior : 0..MaxSerials, serial : 0..MaxSerials]]
  /\ files \in [key : 0..MaxKeys, cert : 0..MaxSerials, identity : 0..MaxSerials]
  /\ pending \in [key : 0..MaxKeys, bundle : 0..MaxSerials]
  /\ identAt \in {"idle", "enrolling", "enrolled", "asking", "answered", "key", "cert", "identity", "clear"}
  /\ made \in 0..MaxKeys /\ identSpent \in 0..MaxIdentityFaults

IdentityInit ==
  /\ token = [state |-> "none", due |-> FALSE]
  /\ ident = [state |-> "none", current |-> 0, revision |-> 0]
  /\ certs = [s \in Serials |-> [state |-> "none", key |-> 0, valid |-> FALSE]]
  /\ rotation = [k \in KeyIds |-> [prior |-> 0, serial |-> 0]]
  /\ files = Absent /\ pending = NoPending /\ identAt = "idle" /\ made = 0 /\ identSpent = 0

IdentityFault == identSpent < MaxIdentityFaults /\ identSpent' = identSpent + 1

-----------------------------------------------------------------------------
(* Enrollment.                                                                *)

CreateEnrollment ==
  /\ token.state = "none"
  /\ token' = [token EXCEPT !.state = "active"]
  /\ UNCHANGED <<ident, certs, rotation, files, pending, identAt, made, identSpent>>

RevokeEnrollment ==
  /\ token.state \in {"active", "expired"}
  /\ token' = [token EXCEPT !.state = "revoked"]
  /\ UNCHANGED <<ident, certs, rotation, files, pending, identAt, made, identSpent>>

TokenDue ==
  /\ token.state = "active" /\ ~token.due
  /\ token' = [token EXCEPT !.due = TRUE]
  /\ UNCHANGED <<ident, certs, rotation, files, pending, identAt, made, identSpent>>

\* initialize: refused once the directory exists; the key lives in memory.
EnrollBegins ==
  /\ identAt = "idle" /\ files = Absent /\ made < MaxKeys
  /\ made' = made + 1
  /\ identAt' = "enrolling"
  /\ UNCHANGED <<token, ident, certs, rotation, files, pending, identSpent>>

\* What enroll asks of the token and the identity.
TokenUsable == token.state = "active" /\ ~token.due /\ ident.state = "none"

\* enroll: the identity, its certificate and the consumed token in one transaction;
\* an expired token is marked before it is refused.
Enroll ==
  /\ identAt = "enrolling" /\ NextSerial \in Serials
  /\ IF TokenUsable
     THEN /\ ident' = [state |-> "active", current |-> NextSerial, revision |-> 1]
          /\ certs' = [certs EXCEPT ![NextSerial] = [state |-> "current", key |-> made, valid |-> TRUE]]
          /\ token' = [token EXCEPT !.state = "consumed"]
          /\ identAt' = "enrolled"
     ELSE /\ token' = [token EXCEPT !.state = IF @ = "active" /\ token.due THEN "expired" ELSE @]
          /\ identAt' = "idle"
          /\ UNCHANGED <<ident, certs>>
  /\ UNCHANGED <<rotation, files, pending, made, identSpent>>

\* The staged directory is renamed into place.
EnrollSaves ==
  /\ identAt = "enrolled"
  /\ files' = [key |-> made, cert |-> ident.current, identity |-> ident.current]
  /\ identAt' = "idle"
  /\ UNCHANGED <<token, ident, certs, rotation, pending, made, identSpent>>

-----------------------------------------------------------------------------
(* Rotation.                                                                  *)

\* Mutant: the request's key is kept in memory until the answer.
PendingInMemory == pending

\* _pending_rotation: the request and its key are saved before they are used.
PendingSaved == [key |-> made + 1, bundle |-> 0]

RotateBegins ==
  /\ identAt = "idle" /\ files # Absent
  /\ IF pending = NoPending
     THEN /\ made < MaxKeys /\ made' = made + 1
          /\ pending' = PendingSaved
          /\ identAt' = "asking"
     ELSE /\ identAt' = IF pending.bundle = 0 THEN "asking" ELSE "key"
          /\ UNCHANGED <<made, pending>>
  /\ UNCHANGED <<token, ident, certs, rotation, files, identSpent>>

\* The request in hand is the last one made or the one that was found pending.
Request == IF pending = NoPending THEN made ELSE pending.key

\* authenticate_rotation: the current certificate, or the one this very rotation
\* superseded.  A certificate only opens a connection with its own key.
RotationPeer ==
  LET s == files.cert r == rotation[Request] IN
    /\ certs[s].key = files.key /\ certs[s].valid /\ ident.state = "active"
    /\ \/ ident.current = s /\ certs[s].state = "current"
       \/ certs[s].state = "superseded" /\ r.prior = s /\ r.serial = ident.current

\* rotate answers a repeated request with the stored certificate.
KnownRotation(r) == rotation[r].serial # 0

Rotate ==
  /\ identAt = "asking" /\ RotationPeer
  /\ IF KnownRotation(Request)
     THEN /\ rotation[Request].prior = files.cert
          /\ UNCHANGED <<ident, certs, rotation>>
     ELSE /\ NextSerial \in Serials /\ ident.current = files.cert
          /\ certs' = [certs EXCEPT ![files.cert].state = "superseded",
                                    ![NextSerial] = [state |-> "current", key |-> Request, valid |-> TRUE]]
          /\ rotation' = [rotation EXCEPT ![Request] = [prior |-> files.cert, serial |-> NextSerial]]
          /\ ident' = [ident EXCEPT !.current = NextSerial, !.revision = @ + 1]
  /\ identAt' = "answered"
  /\ UNCHANGED <<token, files, pending, made, identSpent>>

RotateRefused ==
  /\ identAt = "asking" /\ ~RotationPeer
  /\ identAt' = "idle"
  /\ UNCHANGED <<token, ident, certs, rotation, files, pending, made, identSpent>>

SaveBundle ==
  /\ identAt = "answered"
  /\ pending' = [key |-> Request, bundle |-> rotation[Request].serial]
  /\ identAt' = "key"
  /\ UNCHANGED <<token, ident, certs, rotation, files, made, identSpent>>

\* The key, the certificate and the identity are three files.
Install ==
  /\ identAt \in {"key", "cert", "identity"}
  /\ \/ identAt = "key" /\ files' = [files EXCEPT !.key = pending.key] /\ identAt' = "cert"
     \/ identAt = "cert" /\ files' = [files EXCEPT !.cert = pending.bundle] /\ identAt' = "identity"
     \/ identAt = "identity" /\ files' = [files EXCEPT !.identity = pending.bundle] /\ identAt' = "clear"
  /\ UNCHANGED <<token, ident, certs, rotation, pending, made, identSpent>>

RotateEnds ==
  /\ identAt = "clear"
  /\ pending' = NoPending /\ identAt' = "idle"
  /\ UNCHANGED <<token, ident, certs, rotation, files, made, identSpent>>

-----------------------------------------------------------------------------
(* Revocation, time and faults.                                               *)

\* revoke_worker takes every certificate of the worker.
RevokesAll == [s \in Serials |-> IF s \in Issued THEN [certs[s] EXCEPT !.state = "revoked"] ELSE certs[s]]

RevokeIdentity ==
  /\ ident.state = "active" /\ files # Absent
  /\ ident' = [ident EXCEPT !.state = "revoked", !.revision = @ + 1]
  /\ certs' = RevokesAll
  /\ UNCHANGED <<token, rotation, files, pending, identAt, made, identSpent>>

CertificateLapses(s) ==
  /\ certs[s].valid /\ IdentityFault
  /\ certs' = [certs EXCEPT ![s].valid = FALSE]
  /\ UNCHANGED <<token, ident, rotation, files, pending, identAt, made>>

\* A lost response and the death of the worker look alike: the command is over.
CommandDies ==
  /\ identAt # "idle" /\ IdentityFault
  /\ identAt' = "idle"
  /\ UNCHANGED <<token, ident, certs, rotation, files, pending, made>>

IdentityNext ==
  \/ CreateEnrollment \/ RevokeEnrollment \/ TokenDue
  \/ EnrollBegins \/ Enroll \/ EnrollSaves
  \/ RotateBegins \/ Rotate \/ RotateRefused \/ SaveBundle \/ Install \/ RotateEnds
  \/ RevokeIdentity \/ CommandDies
  \/ \E s \in Serials : CertificateLapses(s)

IdentitySpec == IdentityInit /\ [][IdentityNext]_identVars

-----------------------------------------------------------------------------
(* Properties.                                                                *)

\* An active worker has one current certificate, the one its row names; a revoked
\* worker has none, whatever rotation was on its way (repository.py:215-285, 351-388).
OneCurrentCertificate ==
  {s \in Serials : certs[s].state = "current"} = IF ident.state = "active" THEN {ident.current} ELSE {}

\* A worker that has installed an identity never loses the private key of the
\* certificate the daemon holds current: wherever the rotation was interrupted, it
\* is in the credential directory (state.py:183-207).
KeyRecoverable ==
  files # Absent /\ identAt = "idle" => certs[ident.current].key \in {files.key, pending.key}

\* Whatever the rotation was interrupted by, files without a pending rotation
\* belong together.
FilesAgree ==
  files # Absent /\ pending = NoPending /\ identAt = "idle" =>
    files.cert = files.identity /\ certs[files.cert].key = files.key

\* A rotation request is answered with one certificate for its key, however often
\* it is sent (repository.py:233-244).
RotationAnswer ==
  /\ pending.bundle # 0 => certs[pending.bundle].key = pending.key
  /\ \A s, t \in Issued : certs[s].key = certs[t].key => s = t

\* After enrollment the current certificate changes by a recorded rotation only:
\* neither a second enrollment nor a replayed request replaces it.
RotationChain ==
  [][ ident.state # "none" /\ ident'.current # ident.current =>
        \E k \in KeyIds : rotation'[k] = [prior |-> ident.current, serial |-> ident'.current] ]_identVars

\* The daemon and the worker agree on one identity through every interrupted rotation.
IdentityWhole ==
  /\ [](IdentityTypeOK /\ OneCurrentCertificate /\ KeyRecoverable /\ FilesAgree /\ RotationAnswer)
  /\ RotationChain
=============================================================================
