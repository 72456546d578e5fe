----------------------------- MODULE Certificates -----------------------------
(***************************************************************************)
(* The names under which the box is reached and their certificates         *)
(* (components/tls, src/registration.rs).                                  *)
(*                                                                         *)
(* The box is identified by the fingerprint of a certificate that it signs *)
(* itself when it finds none.  The registrar derives a local and a remote  *)
(* name from it, has Let's Encrypt certify both, reloads the directory and *)
(* registers the names every minute.  Each panic ends the registrar for    *)
(* good; the box may stop and start again at any point, and finds in the   *)
(* directory whatever the last step left there.                            *)
(*                                                                         *)
(* One thread at a time uses the manager: the main thread until the        *)
(* registrar is started, then the registrar.  A box that has no address    *)
(* does not start it: here it stops before its first step.                 *)
(***************************************************************************)
CONSTANT Fingerprint

VARIABLES
  directory,    \* name -> the state of its directory of certificates
  ssl_hosts,    \* the names in the memory of the manager
  contexts,     \* the names for which SniSslContextProvider has a context
  registrar,    \* where the registrar is
  tls,          \* TLS is enabled
  registered,   \* the fingerprints that the registration server has received
  (* History, read by no action:                                           *)
  interrupted   \* Let's Encrypt's certificates were left half installed

certificateVars ==
  <<directory, ssl_hosts, contexts, registrar, tls, registered, interrupted>>

(* The directory foxbox.local holds the certificate of one fingerprint.     *)
Box(f) == <<"box", f>>
Local(f) == <<"local", f>>
Remote(f) == <<"remote", f>>
Name == {"box", "local", "remote"} \X Fingerprint

BoxFingerprints(names) == {f \in Fingerprint : Box(f) \in names}

(* `create_records_from_directory` fails on a directory without a readable  *)
(* certificate or without a key ("broken"), and does not read keys and      *)
(* chains ("partial").                                                      *)
Readable == \A n \in Name : directory[n] # "broken"
Records == {n \in Name : directory[n] \in {"partial", "complete"}}

(* `update` leaves out, with a log, a host whose context cannot be made.    *)
NotifyProvider == contexts' = {n \in ssl_hosts' : directory'[n] = "complete"}

(* Mutant: the provider is not told.                                        *)
ReloadQuietly ==
  /\ Readable
  /\ ssl_hosts' = Records
  /\ UNCHANGED <<directory, contexts>>

Reload ==
  /\ Readable
  /\ ssl_hosts' = Records
  /\ UNCHANGED directory
  /\ NotifyProvider

CertificatesInit ==
  /\ directory = [n \in Name |-> "absent"]
  /\ ssl_hosts = {} /\ contexts = {}
  /\ registrar = "box"
  /\ tls \in BOOLEAN
  /\ registered = {}
  /\ interrupted = FALSE

Panic ==
  /\ registrar' = "dead"
  /\ UNCHANGED <<ssl_hosts, contexts>>

-----------------------------------------------------------------------------
(* The certificate of the box.                                             *)

(* Mutant: what the directory holds is not read first.                      *)
GetBoxCertificateUnread ==
  /\ registrar = "box"
  /\ registrar' = "generate"
  /\ UNCHANGED <<directory, ssl_hosts, contexts, tls, registered, interrupted>>

(* `get_or_generate_self_signed_certificate`, the first time: the memory is *)
(* empty.  Later calls find it there.                                       *)
GetBoxCertificate ==
  /\ registrar = "box"
  /\ \/ /\ Reload
        /\ registrar' = IF BoxFingerprints(ssl_hosts') = {} THEN "generate" ELSE "certificates"
     \/ Panic /\ UNCHANGED directory
  /\ UNCHANGED <<tls, registered, interrupted>>

(* A new certificate has a fingerprint of its own.  Its directory and its   *)
(* key come first.                                                          *)
GenerateBox(f) ==
  /\ registrar = "generate"
  /\ f \notin registered
  /\ \A n \in {Box(f), Local(f), Remote(f)} : directory[n] = "absent"
  /\ directory' = [n \in Name |->
       IF n = Box(f) THEN "broken" ELSE IF n[1] = "box" THEN "absent" ELSE directory[n]]
  /\ registrar' = "write"
  /\ UNCHANGED <<ssl_hosts, contexts, tls, registered, interrupted>>

WriteBox(f) ==
  /\ registrar = "write"
  /\ directory[Box(f)] = "broken"
  /\ \/ /\ directory' = [directory EXCEPT ![Box(f)] = "complete"]
        /\ ssl_hosts' = ssl_hosts \cup {Box(f)}
        /\ NotifyProvider
        /\ registrar' = "certificates"
     \/ Panic /\ UNCHANGED directory
  /\ UNCHANGED <<tls, registered, interrupted>>

-----------------------------------------------------------------------------
(* `register_certificates`: `get_san_cert_for`, then `reload`.              *)

NeedsCertificates ==
  /\ registrar = "certificates"
  /\ registrar' =
       IF tls /\ (\E f \in BoxFingerprints(ssl_hosts) : Local(f) \notin ssl_hosts)
       THEN "client" ELSE "loop"
  /\ UNCHANGED <<directory, ssl_hosts, contexts, tls, registered, interrupted>>

(* The client succeeds and starts to copy what it got, or fails (no network,*)
(* no answer to the challenge): `rx.recv().unwrap().unwrap()` panics.       *)
CopyCertificates(f) ==
  /\ registrar = "client"
  /\ Box(f) \in ssl_hosts
  /\ \/ /\ \E state \in {"broken", "partial"} :
             directory' = [directory EXCEPT ![Local(f)] = state]
        /\ registrar' = "copy"
        /\ UNCHANGED <<ssl_hosts, contexts>>
     \/ Panic /\ UNCHANGED directory
  /\ UNCHANGED <<tls, registered, interrupted>>

EndInstall(f, name, next) ==
  /\ Box(f) \in ssl_hosts
  /\ \/ /\ directory' = [directory EXCEPT ![name] = "complete"]
        /\ registrar' = next
        /\ UNCHANGED <<ssl_hosts, contexts, interrupted>>
     \/ /\ Panic
        /\ interrupted' = TRUE
        /\ UNCHANGED directory
  /\ UNCHANGED <<tls, registered>>

EndCopyCertificates(f) == registrar = "copy" /\ EndInstall(f, Local(f), "link")

(* A symbolic link, remote -> local, which fails if there is one.           *)
LinkRemote(f) ==
  /\ registrar = "link"
  /\ directory[Remote(f)] = "absent"
  /\ EndInstall(f, Remote(f), "reload")

ReloadCertificates ==
  /\ registrar = "reload"
  /\ \/ Reload /\ registrar' = "loop"
     \/ Panic /\ UNCHANGED directory
  /\ UNCHANGED <<tls, registered, interrupted>>

-----------------------------------------------------------------------------
(* The loop.  A registration that fails is made again in a minute.          *)
Register(f) ==
  /\ registrar = "loop"
  /\ Box(f) \in ssl_hosts
  /\ registered' \in {registered, registered \cup {f}}
  /\ UNCHANGED <<directory, ssl_hosts, contexts, registrar, tls, interrupted>>

RestartBox ==
  /\ ssl_hosts' = {} /\ contexts' = {}
  /\ registrar' = "box"
  /\ tls' \in BOOLEAN
  /\ interrupted' = (interrupted \/ registrar \in {"copy", "link"})
  /\ UNCHANGED <<directory, registered>>

RegistrarStep ==
  \/ GetBoxCertificate
  \/ NeedsCertificates
  \/ ReloadCertificates
  \/ \E f \in Fingerprint :
       \/ GenerateBox(f) \/ WriteBox(f)
       \/ CopyCertificates(f) \/ EndCopyCertificates(f) \/ LinkRemote(f)
       \/ Register(f)

CertificatesNext == RegistrarStep \/ RestartBox

CertificatesSpec == CertificatesInit /\ [][CertificatesNext]_certificateVars

-----------------------------------------------------------------------------
(* Properties.  The type invariant:                                         *)
CertificatesTypeOK ==
  /\ directory \in [Name -> {"absent", "broken", "partial", "complete"}]
  /\ contexts \subseteq ssl_hosts /\ ssl_hosts \subseteq Name
  /\ registrar \in {"box", "generate", "write", "certificates", "client", "copy", "link",
                    "reload", "loop", "dead"}
  /\ tls \in BOOLEAN
  /\ registered \subseteq Fingerprint
  /\ interrupted \in BOOLEAN

(* "Reload before this operation so we don't overwrite any existing         *)
(* certificates": the box keeps the identity that it has registered, across *)
(* every restart and every failure on the way.                              *)
IdentityKept == \A f \in registered : directory[Box(f)] = "complete"

(* While the box registers its names with TLS on, a client that asks for    *)
(* one of them gets its certificate, whether this boot or an earlier one    *)
(* obtained it; unless an installation was once interrupted, which nothing  *)
(* repairs.                                                                 *)
NamesServed ==
  registrar = "loop" /\ tls /\ ~interrupted =>
    \E f \in Fingerprint : {Box(f), Local(f), Remote(f)} \subseteq contexts
=============================================================================
