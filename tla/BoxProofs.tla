------------------------------ MODULE BoxProofs -------------------------------
(***************************************************************************)
(* Proofs about parts of the box that share no state with one another: the *)
(* certificates, for any number of fingerprints; the IP cameras, for any   *)
(* number of cameras, threads, clients and images; the database of         *)
(* WebPush, for any users, callers and lists of resources; a managed       *)
(* process, for any process numbers and any threshold.  And about all of   *)
(* them together: the box of MCBox runs its parts, and keeps their types.  *)
(***************************************************************************)
EXTENDS MCBox, PhilipsHueProofs, ScriptManagerProofs, FiniteSetTheorems

-----------------------------------------------------------------------------
(* The certificates.  IdentityKept and NamesServed speak of a registrar    *)
(* that is in its loop: the inductive invariant says what is on the disk,   *)
(* in the memory of the manager and in the provider on the way there.      *)

(* Between two reloads the manager and the provider have what is on disk.   *)
HostsInv ==
  registrar \in {"generate", "write", "certificates", "client", "loop"} =>
    /\ ssl_hosts = Records
    /\ contexts = {n \in ssl_hosts : directory[n] = "complete"}

(* The box has at most one certificate of its own, which it keeps.          *)
BoxInv ==
  /\ \A f \in Fingerprint :
       /\ directory[Box(f)] # "partial"
       /\ Box(f) \in ssl_hosts => directory[Box(f)] = "complete"
  /\ \A f, g \in Fingerprint :
       directory[Box(f)] # "absent" /\ directory[Box(g)] # "absent" => f = g
  /\ registrar = "generate" => \A f \in Fingerprint : Box(f) \notin ssl_hosts
  /\ registrar \in {"certificates", "client", "copy", "link", "reload", "loop"} =>
       \E f \in Fingerprint : Box(f) \in ssl_hosts

(* Let's Encrypt's certificates come in pairs, but while one is installed.  *)
Pair(f) == <<directory[Local(f)], directory[Remote(f)]>>
PairsInv ==
  ~interrupted =>
    \A f \in Fingerprint :
      CASE registrar = "copy" /\ Box(f) \in ssl_hosts ->
             Pair(f) \in {<<"broken", "absent">>, <<"partial", "absent">>}
        [] registrar = "link" /\ Box(f) \in ssl_hosts -> Pair(f) = <<"complete", "absent">>
        [] registrar = "reload" /\ Box(f) \in ssl_hosts -> Pair(f) = <<"complete", "complete">>
        [] OTHER -> Pair(f) \in {<<"absent", "absent">>, <<"complete", "complete">>}

(* What the registrar has found when it needs certificates, and when not.   *)
WantedInv ==
  \A f \in Fingerprint :
    Box(f) \in ssl_hosts =>
      /\ registrar = "client" => Local(f) \notin ssl_hosts
      /\ registrar = "loop" /\ tls /\ ~interrupted => Local(f) \in ssl_hosts

CertificatesInv ==
  CertificatesTypeOK /\ HostsInv /\ BoxInv /\ PairsInv /\ WantedInv /\ IdentityKept

LEMMA NameFacts ==
  /\ \A f \in Fingerprint : Box(f) \in Name /\ Local(f) \in Name /\ Remote(f) \in Name
  /\ \A f, g \in Fingerprint :
       /\ Box(f) = Box(g) => f = g
       /\ Local(f) = Local(g) => f = g
       /\ Remote(f) = Remote(g) => f = g
       /\ Box(f) # Local(g) /\ Box(f) # Remote(g) /\ Local(f) # Remote(g)
  /\ \A f : Box(f)[1] = "box"
  /\ \A n \in Name : n[1] = "box" => \E f \in Fingerprint : n = Box(f)
  /\ \A f : Local(f)[1] # "box" /\ Remote(f)[1] # "box"
<1>1. \A f \in Fingerprint : Box(f) \in Name /\ Local(f) \in Name /\ Remote(f) \in Name
  BY DEF Box, Local, Remote, Name
<1>2. \A f, g \in Fingerprint :
        /\ Box(f) = Box(g) => f = g
        /\ Local(f) = Local(g) => f = g
        /\ Remote(f) = Remote(g) => f = g
        /\ Box(f) # Local(g) /\ Box(f) # Remote(g) /\ Local(f) # Remote(g)
  BY DEF Box, Local, Remote
<1>3. \A f : Box(f)[1] = "box" /\ Local(f)[1] # "box" /\ Remote(f)[1] # "box"
  BY DEF Box, Local, Remote
<1>4. \A n \in Name : n[1] = "box" => \E f \in Fingerprint : n = Box(f)
  BY DEF Box, Name
<1> QED  BY <1>1, <1>2, <1>3, <1>4

(* One name changes.                                                        *)
LEMMA DirectoryFacts ==
  ASSUME CertificatesTypeOK, NEW name \in Name, NEW state,
         directory' = [directory EXCEPT ![name] = state]
  PROVE  directory'[name] = state /\ \A n \in Name \ {name} : directory'[n] = directory[n]
  BY DEF CertificatesTypeOK

(* What is in memory when the box has read its directory.                   *)
LEMMA ReloadFacts ==
  ASSUME CertificatesInv, Reload
  PROVE  /\ UNCHANGED directory
         /\ ssl_hosts' = Records' /\ contexts' = {n \in ssl_hosts' : directory'[n] = "complete"}
         /\ ssl_hosts' \subseteq Name /\ contexts' \subseteq ssl_hosts'
         /\ \A f \in Fingerprint : /\ directory[Box(f)] \in {"absent", "complete"}
                                   /\ Box(f) \in ssl_hosts' <=> directory[Box(f)] = "complete"
                                   /\ directory[Local(f)] = "complete" => Local(f) \in ssl_hosts'
<1>1. /\ directory' = directory /\ ssl_hosts' = Records /\ Readable
      /\ contexts' = {n \in ssl_hosts' : directory'[n] = "complete"}
  BY DEF Reload, NotifyProvider
<1>2. Records' = Records  BY <1>1 DEF Records
<1>3. ASSUME NEW f \in Fingerprint
      PROVE  /\ directory[Box(f)] \in {"absent", "complete"}
             /\ Box(f) \in ssl_hosts' <=> directory[Box(f)] = "complete"
             /\ directory[Local(f)] = "complete" => Local(f) \in ssl_hosts'
  <2>1. Box(f) \in Name /\ Local(f) \in Name  BY NameFacts
  <2>2. directory[Box(f)] # "partial"  BY DEF CertificatesInv, BoxInv
  <2> QED  BY <1>1, <2>1, <2>2 DEF CertificatesInv, CertificatesTypeOK, Records, Readable
<1> QED  BY <1>1, <1>2, <1>3 DEF Records

(* Where the registrar gives up.                                            *)
LEMMA PanicKeeps ==
  ASSUME CertificatesInv, Panic, UNCHANGED <<directory, tls, registered>>,
         \/ interrupted'
         \/ UNCHANGED interrupted /\ registrar \notin {"copy", "link"}
  PROVE  CertificatesInv'
<1>1. registrar' = "dead" /\ UNCHANGED <<ssl_hosts, contexts>>  BY DEF Panic
<1>2. CertificatesTypeOK'  BY <1>1 DEF CertificatesInv, CertificatesTypeOK
<1>3. HostsInv' /\ BoxInv' /\ WantedInv'
  BY <1>1 DEF CertificatesInv, HostsInv, BoxInv, WantedInv
<1>4. PairsInv'
  BY <1>1 DEF CertificatesInv, PairsInv, Pair
<1>5. IdentityKept'  BY DEF CertificatesInv, IdentityKept
<1> QED  BY <1>2, <1>3, <1>4, <1>5 DEF CertificatesInv

LEMMA GetBoxCertificateKeeps ==
  ASSUME CertificatesInv, GetBoxCertificate
  PROVE  CertificatesInv'
<1>1. registrar = "box" /\ UNCHANGED <<tls, registered, interrupted>>
  BY DEF GetBoxCertificate
<1>2. CASE Panic /\ UNCHANGED directory
  BY <1>1, <1>2, PanicKeeps
<1>3. ASSUME Reload, registrar' = IF BoxFingerprints(ssl_hosts') = {} THEN "generate" ELSE "certificates"
      PROVE  CertificatesInv'
  <2>1. /\ directory' = directory
        /\ ssl_hosts' = Records' /\ contexts' = {n \in ssl_hosts' : directory'[n] = "complete"}
        /\ ssl_hosts' \subseteq Name /\ contexts' \subseteq ssl_hosts'
        /\ \A f \in Fingerprint : Box(f) \in ssl_hosts' <=> directory[Box(f)] = "complete"
    BY <1>3, ReloadFacts
  <2>2. \/ registrar' = "generate" /\ \A f \in Fingerprint : Box(f) \notin ssl_hosts'
        \/ registrar' = "certificates" /\ \E f \in Fingerprint : Box(f) \in ssl_hosts'
    BY <1>3 DEF BoxFingerprints
  <2>3. CertificatesTypeOK'  BY <1>1, <2>1, <2>2 DEF CertificatesInv, CertificatesTypeOK
  <2>4. HostsInv' /\ WantedInv'  BY <2>1, <2>2 DEF HostsInv, WantedInv
  <2>5. BoxInv'  BY <2>1, <2>2 DEF CertificatesInv, BoxInv
  <2>6. PairsInv'  BY <1>1, <2>1, <2>2 DEF CertificatesInv, PairsInv, Pair
  <2>7. IdentityKept'  BY <1>1, <2>1 DEF CertificatesInv, IdentityKept
  <2> QED  BY <2>3, <2>4, <2>5, <2>6, <2>7 DEF CertificatesInv
<1> QED  BY <1>2, <1>3 DEF GetBoxCertificate

(* A new certificate is generated only when the directory has none, hence   *)
(* none that was ever registered.                                           *)
LEMMA GenerateBoxKeeps ==
  ASSUME CertificatesInv, NEW f \in Fingerprint, GenerateBox(f)
  PROVE  CertificatesInv'
<1>1. /\ registrar = "generate" /\ registrar' = "write"
      /\ directory[Box(f)] = "absent" /\ f \notin registered
      /\ directory' = [n \in Name |->
           IF n = Box(f) THEN "broken" ELSE IF n[1] = "box" THEN "absent" ELSE directory[n]]
      /\ UNCHANGED <<ssl_hosts, contexts, tls, registered, interrupted>>
  BY DEF GenerateBox
<1>2. /\ directory'[Box(f)] = "broken"
      /\ \A g \in Fingerprint \ {f} : directory'[Box(g)] = "absent"
      /\ \A g \in Fingerprint : /\ directory'[Local(g)] = directory[Local(g)]
                                /\ directory'[Remote(g)] = directory[Remote(g)]
  BY <1>1, NameFacts
<1>3. \A g \in Fingerprint : Box(g) \notin ssl_hosts  BY <1>1 DEF CertificatesInv, BoxInv
<1>4. ssl_hosts = Records /\ contexts = {n \in ssl_hosts : directory[n] = "complete"}
  BY <1>1 DEF CertificatesInv, HostsInv
<1>5. ASSUME NEW n \in Name
      PROVE  directory'[n] # directory[n] =>
               directory'[n] \in {"absent", "broken"} /\ directory[n] \notin {"partial", "complete"}
  <2>1. CASE n[1] = "box"
    <3>1. PICK g \in Fingerprint : n = Box(g)  BY <2>1, NameFacts
    <3>2. directory[n] \notin {"partial", "complete"}  BY <1>3, <1>4, <3>1 DEF Records
    <3> QED  BY <1>2, <3>1, <3>2
  <2>2. CASE n[1] # "box"
    <3>1. n # Box(f)  BY <2>2, NameFacts
    <3> QED  BY <1>1, <2>2, <3>1
  <2> QED  BY <2>1, <2>2
<1>6. Records' = Records /\ {n \in ssl_hosts' : directory'[n] = "complete"} = contexts'
  BY <1>1, <1>4, <1>5 DEF Records, CertificatesInv, CertificatesTypeOK
<1>7. CertificatesTypeOK'
  <2>1. directory' \in [Name -> {"absent", "broken", "partial", "complete"}]
    BY <1>1 DEF CertificatesInv, CertificatesTypeOK
  <2> QED  BY <1>1, <2>1 DEF CertificatesInv, CertificatesTypeOK
<1>8. HostsInv'  BY <1>1, <1>4, <1>6 DEF HostsInv
<1>9. BoxInv' /\ WantedInv'
  BY <1>1, <1>2, <1>3 DEF BoxInv, WantedInv
<1>10. PairsInv'
  BY <1>1, <1>2 DEF CertificatesInv, PairsInv, Pair
<1>11. IdentityKept'
  <2>1. registered = {}
    <3>1. ASSUME NEW g \in registered PROVE FALSE
      <4>1. g \in Fingerprint  BY DEF CertificatesInv, CertificatesTypeOK
      <4>2. Box(g) \in Records  BY <4>1, NameFacts DEF CertificatesInv, IdentityKept, Records
      <4> QED  BY <1>3, <1>4, <4>1, <4>2
    <3> QED  BY <3>1
  <2> QED  BY <1>1, <2>1 DEF IdentityKept
<1> QED  BY <1>7, <1>8, <1>9, <1>10, <1>11 DEF CertificatesInv

LEMMA WriteBoxKeeps ==
  ASSUME CertificatesInv, NEW f \in Fingerprint, WriteBox(f)
  PROVE  CertificatesInv'
<1>1. registrar = "write" /\ directory[Box(f)] = "broken" /\ UNCHANGED <<tls, registered, interrupted>>
  BY DEF WriteBox
<1>2. CASE Panic /\ UNCHANGED directory
  BY <1>1, <1>2, PanicKeeps
<1>3. CASE /\ directory' = [directory EXCEPT ![Box(f)] = "complete"]
           /\ ssl_hosts' = ssl_hosts \cup {Box(f)}
           /\ NotifyProvider
           /\ registrar' = "certificates"
  <2>1. Box(f) \in Name  BY NameFacts
  <2>2. /\ directory'[Box(f)] = "complete"
        /\ \A n \in Name \ {Box(f)} : directory'[n] = directory[n]
    BY <1>3, <2>1, DirectoryFacts DEF CertificatesInv
  <2>3. \A g \in Fingerprint :
          /\ directory'[Local(g)] = directory[Local(g)]
          /\ directory'[Remote(g)] = directory[Remote(g)]
          /\ g # f => directory'[Box(g)] = directory[Box(g)]
    BY <2>2, NameFacts
  <2>4. contexts' = {n \in ssl_hosts' : directory'[n] = "complete"}
    BY <1>3 DEF NotifyProvider
  <2>5. ssl_hosts = Records  BY <1>1 DEF CertificatesInv, HostsInv
  <2>6. ssl_hosts' = Records'
    BY <1>3, <2>1, <2>2, <2>5 DEF Records
  <2>7. CertificatesTypeOK'
    BY <1>1, <1>3, <2>1, <2>4 DEF CertificatesInv, CertificatesTypeOK
  <2>8. HostsInv' /\ WantedInv'  BY <1>3, <2>4, <2>6 DEF HostsInv, WantedInv
  <2>9. BoxInv'
    <3>1. \A g \in Fingerprint : g # f => directory[Box(g)] = "absent"
      BY <1>1 DEF CertificatesInv, BoxInv
    <3>2. \A g \in Fingerprint : Box(g) \in ssl_hosts' => g = f
      <4>1. \A g \in Fingerprint : g # f => Box(g) \notin Records  BY <3>1 DEF Records
      <4> QED  BY <1>3, <2>5, <4>1, NameFacts
    <3> QED  BY <1>3, <2>2, <2>3, <3>1, <3>2 DEF BoxInv
  <2>10. PairsInv'
    BY <1>1, <1>3, <2>3 DEF CertificatesInv, PairsInv, Pair
  <2>11. IdentityKept'
    <3>1. \A g \in registered : directory'[Box(g)] = "complete"
      BY <1>1, <2>2, <2>3 DEF CertificatesInv, CertificatesTypeOK, IdentityKept
    <3> QED  BY <1>1, <3>1 DEF IdentityKept
  <2> QED  BY <2>7, <2>8, <2>9, <2>10, <2>11 DEF CertificatesInv
<1> QED  BY <1>2, <1>3 DEF WriteBox

LEMMA NeedsCertificatesKeeps ==
  ASSUME CertificatesInv, NeedsCertificates
  PROVE  CertificatesInv'
<1>1. /\ registrar = "certificates"
      /\ UNCHANGED <<directory, ssl_hosts, contexts, tls, registered, interrupted>>
      /\ \/ /\ registrar' = "client" /\ tls
            /\ \E f \in Fingerprint : Box(f) \in ssl_hosts /\ Local(f) \notin ssl_hosts
         \/ /\ registrar' = "loop"
            /\ tls => \A f \in Fingerprint : Box(f) \in ssl_hosts => Local(f) \in ssl_hosts
  BY DEF NeedsCertificates, BoxFingerprints
<1>2. CertificatesTypeOK'  BY <1>1 DEF CertificatesInv, CertificatesTypeOK
<1>3. HostsInv' /\ BoxInv'  BY <1>1 DEF CertificatesInv, HostsInv, BoxInv, Records
<1>4. PairsInv'  BY <1>1 DEF CertificatesInv, PairsInv, Pair
<1>5. WantedInv'
  <2>1. ASSUME NEW f \in Fingerprint, NEW g \in Fingerprint, Box(f) \in ssl_hosts, Box(g) \in ssl_hosts
        PROVE  f = g
    BY <2>1 DEF CertificatesInv, BoxInv
  <2> QED  BY <1>1, <2>1 DEF WantedInv
<1>6. IdentityKept'  BY <1>1 DEF CertificatesInv, IdentityKept
<1> QED  BY <1>2, <1>3, <1>4, <1>5, <1>6 DEF CertificatesInv

(* A step of the installation of the certificates of f: the names of the    *)
(* box and what is in memory stay as they are.                              *)
LEMMA InstallKeeps ==
  ASSUME CertificatesInv, NEW f \in Fingerprint, Box(f) \in ssl_hosts,
         NEW name \in {Local(f), Remote(f)}, NEW state \in {"broken", "partial", "complete"},
         directory' = [directory EXCEPT ![name] = state],
         registrar' \in {"copy", "link", "reload"},
         UNCHANGED <<ssl_hosts, contexts, tls, registered, interrupted>>,
         \A g \in Fingerprint :
           ~interrupted /\ g # f =>
             Pair(g) \in {<<"absent", "absent">>, <<"complete", "complete">>},
         ~interrupted =>
           \/ registrar' = "copy" /\ Pair(f)' \in {<<"broken", "absent">>, <<"partial", "absent">>}
           \/ registrar' = "link" /\ Pair(f)' = <<"complete", "absent">>
           \/ registrar' = "reload" /\ Pair(f)' = <<"complete", "complete">>
  PROVE  CertificatesInv'
<1>1. name \in Name  BY NameFacts
<1>2. \A n \in Name \ {name} : directory'[n] = directory[n]
  BY <1>1, DirectoryFacts DEF CertificatesInv
<1>3. \A g \in Fingerprint : directory'[Box(g)] = directory[Box(g)]
  BY <1>2, NameFacts
<1>4. \A g \in Fingerprint : g # f => /\ directory'[Local(g)] = directory[Local(g)]
                                      /\ directory'[Remote(g)] = directory[Remote(g)]
  BY <1>2, NameFacts
<1>5. \A g \in Fingerprint : Box(g) \in ssl_hosts <=> g = f
  BY DEF CertificatesInv, BoxInv
<1>6. CertificatesTypeOK'
  <2>1. directory' \in [Name -> {"absent", "broken", "partial", "complete"}]
    BY <1>1 DEF CertificatesInv, CertificatesTypeOK
  <2> QED  BY <2>1 DEF CertificatesInv, CertificatesTypeOK
<1>7. HostsInv' /\ WantedInv'  BY DEF HostsInv, WantedInv
<1>8. BoxInv'
  BY <1>3 DEF CertificatesInv, BoxInv
<1>9. PairsInv'
  <2> SUFFICES ASSUME ~interrupted, NEW g \in Fingerprint
               PROVE  CASE registrar' = "copy" /\ Box(g) \in ssl_hosts' ->
                             Pair(g)' \in {<<"broken", "absent">>, <<"partial", "absent">>}
                        [] registrar' = "link" /\ Box(g) \in ssl_hosts' ->
                             Pair(g)' = <<"complete", "absent">>
                        [] registrar' = "reload" /\ Box(g) \in ssl_hosts' ->
                             Pair(g)' = <<"complete", "complete">>
                        [] OTHER -> Pair(g)' \in {<<"absent", "absent">>, <<"complete", "complete">>}
    BY DEF PairsInv
  <2>1. CASE g = f  BY <1>5, <2>1
  <2>2. CASE g # f
    <3>1. Pair(g)' = Pair(g)  BY <1>4, <2>2 DEF Pair
    <3> QED  BY <1>5, <2>2, <3>1
  <2> QED  BY <2>1, <2>2
<1>10. IdentityKept'
  BY <1>3 DEF CertificatesInv, CertificatesTypeOK, IdentityKept
<1> QED  BY <1>6, <1>7, <1>8, <1>9, <1>10 DEF CertificatesInv

(* The pairs that are not being installed.                                  *)
LEMMA OtherPairs ==
  ASSUME CertificatesInv, ~interrupted, NEW f \in Fingerprint, Box(f) \in ssl_hosts,
         NEW g \in Fingerprint, g # f
  PROVE  Pair(g) \in {<<"absent", "absent">>, <<"complete", "complete">>}
<1>1. Box(g) \notin ssl_hosts  BY DEF CertificatesInv, BoxInv
<1> QED  BY <1>1 DEF CertificatesInv, PairsInv

LEMMA CopyCertificatesKeeps ==
  ASSUME CertificatesInv, NEW f \in Fingerprint, CopyCertificates(f)
  PROVE  CertificatesInv'
<1>1. registrar = "client" /\ Box(f) \in ssl_hosts /\ UNCHANGED <<tls, registered, interrupted>>
  BY DEF CopyCertificates
<1>2. CASE Panic /\ UNCHANGED directory
  BY <1>1, <1>2, PanicKeeps
<1>3. ASSUME NEW state \in {"broken", "partial"},
             directory' = [directory EXCEPT ![Local(f)] = state],
             registrar' = "copy", UNCHANGED <<ssl_hosts, contexts>>
      PROVE  CertificatesInv'
  <2>1. Local(f) \in Name /\ Remote(f) \in Name /\ Local(f) # Remote(f)  BY NameFacts
  <2>2. directory'[Local(f)] = state /\ directory'[Remote(f)] = directory[Remote(f)]
    BY <1>3, <2>1, DirectoryFacts DEF CertificatesInv
  <2>3. ~interrupted => directory[Remote(f)] = "absent"
    <3>1. Local(f) \notin Records
      BY <1>1 DEF CertificatesInv, HostsInv, WantedInv
    <3>2. directory[Local(f)] # "complete"  BY <2>1, <3>1 DEF Records
    <3>3. ~interrupted => Pair(f) \in {<<"absent", "absent">>, <<"complete", "complete">>}
      BY <1>1 DEF CertificatesInv, PairsInv
    <3> QED  BY <3>2, <3>3 DEF Pair
  <2>4. ~interrupted => Pair(f)' \in {<<"broken", "absent">>, <<"partial", "absent">>}
    BY <2>2, <2>3 DEF Pair
  <2> QED  BY <1>1, <1>3, <2>4, OtherPairs, InstallKeeps
<1> QED  BY <1>1, <1>2, <1>3 DEF CopyCertificates

LEMMA EndInstallsKeep ==
  ASSUME CertificatesInv, NEW f \in Fingerprint, EndCopyCertificates(f) \/ LinkRemote(f)
  PROVE  CertificatesInv'
<1>1. /\ Box(f) \in ssl_hosts /\ UNCHANGED <<tls, registered>>
      /\ \/ Panic /\ interrupted' = TRUE /\ UNCHANGED directory
         \/ /\ UNCHANGED <<ssl_hosts, contexts, interrupted>>
            /\ \/ /\ registrar = "copy" /\ registrar' = "link"
                  /\ directory' = [directory EXCEPT ![Local(f)] = "complete"]
               \/ /\ registrar = "link" /\ registrar' = "reload"
                  /\ directory' = [directory EXCEPT ![Remote(f)] = "complete"]
  BY DEF EndCopyCertificates, LinkRemote, EndInstall
<1>2. CASE Panic /\ interrupted' = TRUE /\ UNCHANGED directory
  BY <1>1, <1>2, PanicKeeps
<1>3. Local(f) \in Name /\ Remote(f) \in Name /\ Local(f) # Remote(f)  BY NameFacts
<1>4. CASE /\ UNCHANGED <<ssl_hosts, contexts, interrupted>>
           /\ registrar = "copy" /\ registrar' = "link"
           /\ directory' = [directory EXCEPT ![Local(f)] = "complete"]
  <2>1. directory'[Local(f)] = "complete" /\ directory'[Remote(f)] = directory[Remote(f)]
    BY <1>3, <1>4, DirectoryFacts DEF CertificatesInv
  <2>2. ~interrupted => Pair(f) \in {<<"broken", "absent">>, <<"partial", "absent">>}
    BY <1>1, <1>4 DEF CertificatesInv, PairsInv
  <2>3. ~interrupted => Pair(f)' = <<"complete", "absent">>  BY <2>1, <2>2 DEF Pair
  <2> QED  BY <1>1, <1>4, <2>3, OtherPairs, InstallKeeps
<1>5. CASE /\ UNCHANGED <<ssl_hosts, contexts, interrupted>>
           /\ registrar = "link" /\ registrar' = "reload"
           /\ directory' = [directory EXCEPT ![Remote(f)] = "complete"]
  <2>1. directory'[Remote(f)] = "complete" /\ directory'[Local(f)] = directory[Local(f)]
    BY <1>3, <1>5, DirectoryFacts DEF CertificatesInv
  <2>2. ~interrupted => Pair(f) = <<"complete", "absent">>
    BY <1>1, <1>5 DEF CertificatesInv, PairsInv
  <2>3. ~interrupted => Pair(f)' = <<"complete", "complete">>  BY <2>1, <2>2 DEF Pair
  <2> QED  BY <1>1, <1>5, <2>3, OtherPairs, InstallKeeps
<1> QED  BY <1>1, <1>2, <1>4, <1>5

LEMMA ReloadCertificatesKeeps ==
  ASSUME CertificatesInv, ReloadCertificates
  PROVE  CertificatesInv'
<1>1. registrar = "reload" /\ UNCHANGED <<tls, registered, interrupted>>
  BY DEF ReloadCertificates
<1>2. CASE Panic /\ UNCHANGED directory
  BY <1>1, <1>2, PanicKeeps
<1>3. CASE Reload /\ registrar' = "loop"
  <2>1. /\ directory' = directory
        /\ ssl_hosts' = Records' /\ contexts' = {n \in ssl_hosts' : directory'[n] = "complete"}
        /\ ssl_hosts' \subseteq Name /\ contexts' \subseteq ssl_hosts'
        /\ \A f \in Fingerprint : /\ Box(f) \in ssl_hosts' <=> directory[Box(f)] = "complete"
                                  /\ directory[Local(f)] = "complete" => Local(f) \in ssl_hosts'
    BY <1>3, ReloadFacts
  <2>2. PICK f \in Fingerprint : Box(f) \in ssl_hosts
    BY <1>1 DEF CertificatesInv, BoxInv
  <2>3. directory[Box(f)] = "complete"  BY <2>2 DEF CertificatesInv, BoxInv
  <2>4. \A g \in Fingerprint : (Box(g) \in ssl_hosts' <=> g = f) /\ (Box(g) \in ssl_hosts <=> g = f)
    BY <2>1, <2>2, <2>3 DEF CertificatesInv, BoxInv
  <2>5. ~interrupted => Pair(f) = <<"complete", "complete">>
    BY <1>1, <2>2 DEF CertificatesInv, PairsInv
  <2>6. CertificatesTypeOK'  BY <1>1, <1>3, <2>1 DEF CertificatesInv, CertificatesTypeOK
  <2>7. HostsInv'  BY <2>1 DEF HostsInv
  <2>8. BoxInv'  BY <1>3, <2>1, <2>4 DEF CertificatesInv, BoxInv
  <2>9. PairsInv'
    <3>1. \A g \in Fingerprint : Pair(g)' = Pair(g)  BY <2>1 DEF Pair
    <3>2. \A g \in Fingerprint :
            ~interrupted => Pair(g) \in {<<"absent", "absent">>, <<"complete", "complete">>}
      BY <2>2, <2>5, OtherPairs
    <3> QED  BY <1>1, <1>3, <3>1, <3>2 DEF PairsInv
  <2>10. WantedInv'
    BY <1>1, <1>3, <2>1, <2>4, <2>5 DEF WantedInv, Pair
  <2>11. IdentityKept'  BY <1>1, <2>1 DEF CertificatesInv, IdentityKept
  <2> QED  BY <2>6, <2>7, <2>8, <2>9, <2>10, <2>11 DEF CertificatesInv
<1> QED  BY <1>2, <1>3 DEF ReloadCertificates

LEMMA RegisterKeeps ==
  ASSUME CertificatesInv, NEW f \in Fingerprint, Register(f)
  PROVE  CertificatesInv'
<1>1. /\ UNCHANGED <<directory, ssl_hosts, contexts, registrar, tls, interrupted>>
      /\ registered' \subseteq registered \cup {f} /\ Box(f) \in ssl_hosts
  BY DEF Register
<1>2. CertificatesTypeOK'  BY <1>1 DEF CertificatesInv, CertificatesTypeOK
<1>3. HostsInv' /\ BoxInv' /\ PairsInv' /\ WantedInv'
  BY <1>1 DEF CertificatesInv, HostsInv, BoxInv, PairsInv, Pair, WantedInv, Records
<1>4. IdentityKept'  BY <1>1 DEF CertificatesInv, BoxInv, IdentityKept
<1> QED  BY <1>2, <1>3, <1>4 DEF CertificatesInv

LEMMA RestartBoxKeeps ==
  ASSUME CertificatesInv, RestartBox
  PROVE  CertificatesInv'
<1>1. /\ ssl_hosts' = {} /\ contexts' = {} /\ registrar' = "box" /\ tls' \in BOOLEAN
      /\ interrupted' = (interrupted \/ registrar \in {"copy", "link"})
      /\ UNCHANGED <<directory, registered>>
  BY DEF RestartBox
<1>2. CertificatesTypeOK'  BY <1>1 DEF CertificatesInv, CertificatesTypeOK
<1>3. HostsInv' /\ BoxInv' /\ WantedInv'
  BY <1>1 DEF CertificatesInv, HostsInv, BoxInv, WantedInv
<1>4. PairsInv'  BY <1>1 DEF CertificatesInv, PairsInv, Pair
<1>5. IdentityKept'  BY <1>1 DEF CertificatesInv, IdentityKept
<1> QED  BY <1>2, <1>3, <1>4, <1>5 DEF CertificatesInv

LEMMA CertificatesInvInit == CertificatesInit => CertificatesInv
<1> SUFFICES ASSUME CertificatesInit PROVE CertificatesInv  OBVIOUS
<1>1. /\ directory = [n \in Name |-> "absent"] /\ ssl_hosts = {} /\ contexts = {}
      /\ registrar = "box" /\ tls \in BOOLEAN /\ registered = {} /\ interrupted = FALSE
  BY DEF CertificatesInit
<1>2. \A f \in Fingerprint : /\ directory[Box(f)] = "absent" /\ directory[Local(f)] = "absent"
                             /\ directory[Remote(f)] = "absent"
  BY <1>1, NameFacts
<1>3. CertificatesTypeOK  BY <1>1 DEF CertificatesTypeOK
<1>4. HostsInv /\ BoxInv /\ WantedInv /\ IdentityKept
  BY <1>1, <1>2 DEF HostsInv, BoxInv, WantedInv, IdentityKept
<1>5. PairsInv  BY <1>1, <1>2 DEF PairsInv, Pair
<1> QED  BY <1>3, <1>4, <1>5 DEF CertificatesInv

LEMMA CertificatesInvNext ==
  CertificatesInv /\ [CertificatesNext]_certificateVars => CertificatesInv'
<1> SUFFICES ASSUME CertificatesInv, [CertificatesNext]_certificateVars PROVE CertificatesInv'
  OBVIOUS
<1>1. CASE GetBoxCertificate  BY <1>1, GetBoxCertificateKeeps
<1>2. CASE NeedsCertificates  BY <1>2, NeedsCertificatesKeeps
<1>3. CASE ReloadCertificates  BY <1>3, ReloadCertificatesKeeps
<1>4. CASE \E f \in Fingerprint : GenerateBox(f)  BY <1>4, GenerateBoxKeeps
<1>5. CASE \E f \in Fingerprint : WriteBox(f)  BY <1>5, WriteBoxKeeps
<1>6. CASE \E f \in Fingerprint : CopyCertificates(f)  BY <1>6, CopyCertificatesKeeps
<1>7. CASE \E f \in Fingerprint : EndCopyCertificates(f) \/ LinkRemote(f)
  BY <1>7, EndInstallsKeep
<1>8. CASE \E f \in Fingerprint : Register(f)  BY <1>8, RegisterKeeps
<1>9. CASE RestartBox  BY <1>9, RestartBoxKeeps
<1>10. CASE UNCHANGED certificateVars
  <2>1. UNCHANGED <<directory, ssl_hosts, contexts, registrar, tls, registered, interrupted>>
    BY <1>10 DEF certificateVars
  <2> QED
    BY <2>1 DEF CertificatesInv, CertificatesTypeOK, HostsInv, BoxInv, PairsInv, Pair, WantedInv,
                IdentityKept, Records
<1> QED
  BY <1>1, <1>2, <1>3, <1>4, <1>5, <1>6, <1>7, <1>8, <1>9, <1>10
  DEF CertificatesNext, RegistrarStep

LEMMA CertificatesSpecInv == CertificatesSpec => []CertificatesInv
  BY CertificatesInvInit, CertificatesInvNext, PTL DEF CertificatesSpec

(* The box keeps the identity that it has registered, across every restart  *)
(* and every failure on the way.                                            *)
THEOREM BoxKeepsItsIdentity == CertificatesSpec => []IdentityKept
<1>1. CertificatesInv => IdentityKept  BY DEF CertificatesInv
<1> QED  BY <1>1, CertificatesSpecInv, PTL

(* While the box registers its names with TLS on, each of them is served    *)
(* with its certificate, unless an installation was once interrupted.       *)
THEOREM RegisteredNamesAreServed == CertificatesSpec => []NamesServed
<1>1. CertificatesInv => NamesServed
  <2> SUFFICES ASSUME CertificatesInv, registrar = "loop", tls, ~interrupted
               PROVE  \E f \in Fingerprint : {Box(f), Local(f), Remote(f)} \subseteq contexts
    BY DEF NamesServed
  <2>1. PICK f \in Fingerprint : Box(f) \in ssl_hosts  BY DEF CertificatesInv, BoxInv
  <2>2. directory[Box(f)] = "complete"  BY <2>1 DEF CertificatesInv, BoxInv
  <2>3. Local(f) \in ssl_hosts  BY <2>1 DEF CertificatesInv, WantedInv
  <2>4. /\ ssl_hosts = {n \in Name : directory[n] \in {"partial", "complete"}}
        /\ contexts = {n \in ssl_hosts : directory[n] = "complete"}
    BY DEF CertificatesInv, HostsInv, Records
  <2>5. Pair(f) = <<"complete", "complete">>
    <3>1. Pair(f) \in {<<"absent", "absent">>, <<"complete", "complete">>}
      BY DEF CertificatesInv, PairsInv
    <3> QED  BY <2>3, <2>4, <3>1 DEF Pair
  <2>6. {Box(f), Local(f), Remote(f)} \subseteq contexts
    BY <2>2, <2>4, <2>5, NameFacts DEF Pair
  <2> QED  BY <2>6
<1> QED  BY <1>1, CertificatesSpecInv, PTL

(* The registrar and the files of the certificates keep their types.        *)
THEOREM CertificatesTypeCorrect == CertificatesSpec => []CertificatesTypeOK
<1>1. CertificatesInv => CertificatesTypeOK  BY DEF CertificatesInv
<1> QED  BY <1>1, CertificatesSpecInv, PTL

-----------------------------------------------------------------------------
(* The cameras.  Between the steps of a listener CamerasAnswer depends on  *)
(* who holds the mutex; between the steps of a snapshot SnapshotsKept on   *)
(* who else takes one of the same camera in the same second.               *)

Visited == {NoVisit} \cup {Visiting(pc, c) : pc \in {"waiting", "adding"}, c \in Camera}

(* The listener that is called holds the mutex until its camera is in the   *)
(* maps.                                                                    *)
VisitInv ==
  /\ announced \subseteq Camera /\ cameras \subseteq announced
  /\ channels \in [Camera -> SUBSET AllChannels]
  /\ listeners \in {"free", "poisoned"} \cup Visit
  /\ visit \in [Visit -> Visited]
  /\ \A t \in Visit :
       visit[t].pc = "adding" => listeners = t /\ visit[t].camera \in announced \ cameras
  /\ CamerasAnswer

Shot ==
  {NoVisit} \cup {Visiting("get", c) : c \in Camera}
    \cup [pc : {"look", "open", "write"}, camera : Camera, second : Nat, count : Nat, image : Nat]
HasImage(s) == shot[s].pc \in {"look", "open", "write"}

File == [images : SUBSET Nat, ctime : Nat]
Files == UNION {[names -> File] : names \in SUBSET (Nat \X Nat)}

(* A snapshot belongs to its file, and a file is not older than its name.   *)
ShotInv ==
  /\ shots \in Nat /\ second \in Nat
  /\ shot \in [Client -> Shot]
  /\ \A s \in Client : HasImage(s) => shot[s].second <= second
  /\ disk \in [Camera -> Files]
  /\ \A c \in Camera : \A n \in DOMAIN disk[c] : n[1] <= disk[c][n].ctime
  /\ \A r \in reported : r.camera \in Camera /\ r.name \in DOMAIN disk[r.camera]

(* Images of one camera and one second that are under way together are      *)
(* rivals.                                                                  *)
RivalsInv ==
  \A s, t \in Client :
    /\ HasImage(s) /\ HasImage(t) /\ s # t
    /\ shot[s].camera = shot[t].camera /\ shot[s].second = shot[t].second
    => shot[s].image \in rivals

(* From `look` on, a file is written to by others only if they are rivals.  *)
FilesInv ==
  /\ \A s \in Client :
       shot[s].pc \in {"open", "write"} =>
         \A r \in reported :
           r.camera = shot[s].camera /\ r.name = FileOf(s) => r.image \in rivals
  /\ \A s \in Client :
       shot[s].pc = "write" =>
         /\ FileOf(s) \in DOMAIN disk[shot[s].camera]
         /\ shot[s].image \notin rivals => disk[shot[s].camera][FileOf(s)].images = {}
  /\ \A r \in reported :
       r.image \notin rivals \cup unflushed => disk[r.camera][r.name].images = {r.image}

IpCameraInv == VisitInv /\ ShotInv /\ RivalsInv /\ FilesInv

LEMMA VisitFacts ==
  /\ NoVisit.pc = "none"
  /\ \A pc, c : Visiting(pc, c).pc = pc /\ Visiting(pc, c).camera = c
  /\ \A v \in Visited : /\ v = NoVisit \/ v.pc \in {"waiting", "adding"}
                        /\ v.pc # "none" => v.camera \in Camera
                        /\ v.pc = "adding" => v = Visiting("adding", v.camera)
  /\ \A v \in Visited : v.pc = "waiting" => [v EXCEPT !.pc = "adding"] = Visiting("adding", v.camera)
  BY DEF NoVisit, Visiting, Visited

LEMMA AdvertiseKeeps ==
  ASSUME VisitInv, NEW t \in Visit, NEW c \in Camera, Advertise(t, c)
  PROVE  VisitInv'
<1>1. /\ visit[t] = NoVisit /\ visit' = [visit EXCEPT ![t] = Visiting("waiting", c)]
      /\ UNCHANGED <<announced, channels, cameras, listeners>>
  BY DEF Advertise
<1>2. /\ visit' \in [Visit -> Visited]
      /\ visit'[t].pc = "waiting"
      /\ \A x \in Visit \ {t} : visit'[x] = visit[x]
  <2>1. Visiting("waiting", c) \in Visited  BY DEF Visited
  <2> QED  BY <1>1, <2>1, VisitFacts DEF VisitInv
<1>3. \A x \in Visit : visit'[x].pc = "adding" => x # t /\ visit'[x] = visit[x]
  BY <1>2
<1>4. CamerasAnswer'
  <2> SUFFICES ASSUME NEW x \in announced \ cameras, listeners # "poisoned"
               PROVE  listeners \in Visit /\ visit'[listeners] = Visiting("adding", x)
    BY <1>1 DEF VisitInv, CamerasAnswer
  <2>1. listeners \in Visit /\ visit[listeners] = Visiting("adding", x)
    BY DEF VisitInv, CamerasAnswer
  <2>2. listeners # t  BY <1>1, <2>1, VisitFacts
  <2> QED  BY <1>2, <2>1, <2>2
<1> QED  BY <1>1, <1>2, <1>3, <1>4 DEF VisitInv

(* The visit of t is over.                                                  *)
LEMMA EndVisitFacts ==
  ASSUME VisitInv, NEW t \in Visit, EndVisit(t)
  PROVE  /\ visit' \in [Visit -> Visited]
         /\ \A x \in Visit : visit'[x].pc = "adding" => x # t /\ visit'[x] = visit[x]
         /\ \A x \in Visit \ {t} : visit'[x] = visit[x]
<1>1. visit' = [visit EXCEPT ![t] = NoVisit] /\ NoVisit \in Visited
  BY DEF EndVisit, Visited
<1> QED  BY <1>1, VisitFacts DEF VisitInv

(* A listener panics, which poisons the mutex that it holds.                *)
LEMMA PanicListeningKeeps ==
  ASSUME VisitInv, NEW t \in Visit, PanicListening(t), listeners = "free" \/ listeners = t,
         UNCHANGED <<announced, cameras, channels>>
  PROVE  VisitInv'
<1>1. EndVisit(t) /\ listeners' = "poisoned"
  BY DEF PanicListening
<1>2. \A x \in Visit : visit'[x].pc # "adding"
  BY <1>1, EndVisitFacts, IpCameraAssumption DEF VisitInv
<1> QED  BY <1>1, <1>2, EndVisitFacts DEF VisitInv, CamerasAnswer

LEMMA ListenKeeps ==
  ASSUME VisitInv, NEW t \in Visit, Listen(t)
  PROVE  VisitInv'
<1> DEFINE c == visit[t].camera
<1>1. visit[t].pc = "waiting" /\ visit[t] \in Visited /\ c \in Camera
  BY VisitFacts DEF Listen, VisitInv
<1>2. CASE EndVisit(t) /\ UNCHANGED <<announced, channels, cameras, manager, listeners>>
  <2>1. listeners # t \/ announced \ cameras = {}
    BY <1>1, IpCameraAssumption, VisitFacts DEF VisitInv, CamerasAnswer
  <2>2. CamerasAnswer'
    BY <1>2, <2>1, EndVisitFacts DEF VisitInv, CamerasAnswer
  <2> QED  BY <1>2, <2>2, EndVisitFacts DEF VisitInv
<1>3. CASE listeners = "free" /\ PanicListening(t)
  <2>1. UNCHANGED <<announced, channels, cameras>>  BY <1>3 DEF PanicListening
  <2> QED  BY <1>3, <2>1, PanicListeningKeeps
<1>4. CASE /\ listeners = "free" /\ c \notin announced
           /\ listeners' = t
           /\ announced' = announced \cup {c}
           /\ visit' = [visit EXCEPT ![t].pc = "adding"]
           /\ UNCHANGED <<channels, cameras, manager>>
  <2>1. visit'[t] = Visiting("adding", c) /\ \A x \in Visit \ {t} : visit'[x] = visit[x]
    BY <1>1, <1>4, VisitFacts DEF VisitInv
  <2>2. visit' \in [Visit -> Visited]
    <3>1. Visiting("adding", c) \in Visited  BY <1>1 DEF Visited
    <3> QED  BY <1>4, <2>1, <3>1 DEF VisitInv
  <2>3. \A x \in Visit : visit'[x].pc = "adding" => x = t
    BY <1>4, <2>1, IpCameraAssumption DEF VisitInv
  <2>4. announced \subseteq cameras
    BY <1>4, IpCameraAssumption DEF VisitInv, CamerasAnswer
  <2>5. c \in announced' \ cameras' /\ announced' \subseteq Camera /\ cameras' \subseteq announced'
    BY <1>1, <1>4 DEF VisitInv
  <2>6. CamerasAnswer'
    BY <1>4, <2>1, <2>4 DEF VisitInv, CamerasAnswer
  <2> QED  BY <1>4, <2>1, <2>2, <2>3, <2>5, <2>6, VisitFacts DEF VisitInv
<1> QED  BY <1>2, <1>3, <1>4 DEF Listen

LEMMA AddingKeeps ==
  ASSUME VisitInv, NEW t \in Visit, MakeCamera(t) \/ \E ch \in AllChannels : AddChannel(t, ch)
  PROVE  VisitInv'
<1> DEFINE c == visit[t].camera
<1>1. visit[t].pc = "adding" /\ listeners = t /\ c \in announced \ cameras
  BY DEF AddChannel, MakeCamera, VisitInv
<1>2. \A x \in announced \ cameras : x = c
  BY <1>1, IpCameraAssumption, VisitFacts DEF VisitInv, CamerasAnswer
<1>3. CASE PanicListening(t)
  <2>1. UNCHANGED <<announced, channels, cameras>>  BY <1>3 DEF PanicListening
  <2> QED  BY <1>1, <1>3, <2>1, PanicListeningKeeps
<1>4. ASSUME NEW ch \in AllChannels, channels' = [channels EXCEPT ![c] = @ \cup {ch}],
             UNCHANGED <<announced, cameras, manager, listeners, visit>>
      PROVE  VisitInv'
  <2>1. channels' \in [Camera -> SUBSET AllChannels]
    BY <1>1, <1>4 DEF VisitInv
  <2>2. \A x \in Camera \ {c} : channels'[x] = channels[x]
    BY <1>4 DEF VisitInv
  <2>3. CamerasAnswer'
    BY <1>1, <1>4, <2>2 DEF VisitInv, CamerasAnswer
  <2> QED  BY <1>4, <2>1, <2>3 DEF VisitInv
<1>5. ASSUME channels[c] = AllChannels, EndVisit(t), cameras' = cameras \cup {c},
             listeners' = "free", UNCHANGED <<announced, channels>>
      PROVE  VisitInv'
  <2>1. \A x \in Visit : visit'[x].pc # "adding"
    BY <1>1, <1>5, EndVisitFacts DEF VisitInv
  <2>2. CamerasAnswer'  BY <1>2, <1>5 DEF VisitInv, CamerasAnswer
  <2> QED  BY <1>1, <1>5, <2>1, <2>2, EndVisitFacts DEF VisitInv
<1> QED  BY <1>3, <1>4, <1>5 DEF AddChannel, MakeCamera

LEMMA ShotFacts ==
  /\ NoVisit.pc = "none" /\ NoVisit \in Shot
  /\ \A v \in Shot :
       /\ v.pc \in {"none", "get", "look", "open", "write"}
       /\ v.pc # "none" => v.camera \in Camera
       /\ v.pc \in {"look", "open", "write"} =>
            /\ v.second \in Nat /\ v.count \in Nat /\ v.image \in Nat
            /\ <<v.second, v.count>> \in Nat \X Nat
  BY DEF Shot, NoVisit, Visiting

(* The call of one client goes on with the same image.                      *)
LEMMA StepFacts ==
  ASSUME NEW v \in Shot, v.pc \in {"look", "open", "write"}
  PROVE  /\ \A pc \in {"look", "open", "write"} :
              LET w == [v EXCEPT !.pc = pc]
              IN /\ w \in Shot /\ w.pc = pc /\ w.camera = v.camera /\ w.second = v.second
                 /\ w.count = v.count /\ w.image = v.image
         /\ LET w == [v EXCEPT !.count = @ + 1]
            IN /\ w \in Shot /\ w.pc = v.pc /\ w.camera = v.camera /\ w.second = v.second
               /\ w.image = v.image
  BY DEF Shot, NoVisit, Visiting

LEMMA FileFacts ==
  \A files \in Files :
    /\ DOMAIN files \subseteq Nat \X Nat
    /\ files \in [DOMAIN files -> File]
    /\ \A n \in DOMAIN files : files[n] \in File
  BY DEF Files

LEMMA PutFile ==
  ASSUME NEW files \in Files, NEW n \in Nat \X Nat, NEW written \in File
  PROVE  /\ Put(files, n, written) \in Files
         /\ DOMAIN Put(files, n, written) = DOMAIN files \cup {n}
         /\ Put(files, n, written)[n] = written
         /\ \A m \in DOMAIN files : m # n => Put(files, n, written)[m] = files[m]
<1>1. DOMAIN files \cup {n} \in SUBSET (Nat \X Nat)  BY FileFacts
<1>2. Put(files, n, written) \in [DOMAIN files \cup {n} -> File]
  BY FileFacts DEF Put
<1>3. Put(files, n, written) \in Files  BY <1>1, <1>2 DEF Files
<1> QED  BY <1>3 DEF Put

LEMMA WriteFacts ==
  ASSUME ShotInv, NEW c \in Camera, NEW name \in Nat \X Nat, NEW images \in SUBSET Nat,
         name[1] <= second, Write(c, name, images)
  PROVE  /\ disk' \in [Camera -> Files]
         /\ name \in DOMAIN disk'[c] /\ disk'[c][name].images = images
         /\ \A x \in Camera : DOMAIN disk[x] \subseteq DOMAIN disk'[x]
         /\ \A x \in Camera : \A n \in DOMAIN disk[x] :
              x # c \/ n # name => disk'[x][n] = disk[x][n]
         /\ \A x \in Camera : \A n \in DOMAIN disk'[x] : n[1] <= disk'[x][n].ctime
<1> DEFINE written == [images |-> images, ctime |-> second]
<1>1. written \in File /\ written.images = images /\ written.ctime = second  BY DEF ShotInv, File
<1>2. disk' = [disk EXCEPT ![c] = Put(@, name, written)]  BY DEF Write
<1> HIDE DEF written
<1>3. disk \in [Camera -> Files]  BY DEF ShotInv
<1>4. /\ disk'[c] = Put(disk[c], name, written) /\ \A x \in Camera \ {c} : disk'[x] = disk[x]
  BY <1>2, <1>3
<1>5. /\ Put(disk[c], name, written) \in Files
      /\ DOMAIN disk'[c] = DOMAIN disk[c] \cup {name}
      /\ disk'[c][name] = written
      /\ \A n \in DOMAIN disk[c] : n # name => disk'[c][n] = disk[c][n]
  <2>1. disk[c] \in Files  BY <1>3
  <2>2. /\ Put(disk[c], name, written) \in Files
        /\ DOMAIN Put(disk[c], name, written) = DOMAIN disk[c] \cup {name}
        /\ Put(disk[c], name, written)[name] = written
        /\ \A n \in DOMAIN disk[c] : n # name => Put(disk[c], name, written)[n] = disk[c][n]
    <3> DEFINE before == disk[c]
    <3>1. before \in Files  BY <2>1
    <3> HIDE DEF before
    <3>2. /\ Put(before, name, written) \in Files
          /\ DOMAIN Put(before, name, written) = DOMAIN before \cup {name}
          /\ Put(before, name, written)[name] = written
          /\ \A n \in DOMAIN before : n # name => Put(before, name, written)[n] = before[n]
      BY <1>1, <3>1, PutFile
    <3> QED  BY <3>2 DEF before
  <2> QED  BY <1>4, <2>2
<1>6. disk' \in [Camera -> Files]
  <2>1. \A x \in Camera : disk'[x] \in Files  BY <1>3, <1>4, <1>5
  <2>2. disk' = [x \in Camera |-> disk'[x]]  BY <1>2, <1>3, Zenon
  <2> QED  BY <2>1, <2>2
<1>7. ASSUME NEW x \in Camera, NEW n \in DOMAIN disk'[x]
      PROVE  n[1] <= disk'[x][n].ctime
  <2>1. CASE x = c /\ n = name  BY <1>1, <1>5, <2>1
  <2>2. CASE x # c \/ n # name
    <3>1. n \in DOMAIN disk[x] /\ disk'[x][n] = disk[x][n]  BY <1>4, <1>5, <2>2
    <3> QED  BY <3>1 DEF ShotInv
  <2> QED  BY <2>1, <2>2
<1> QED  BY <1>1, <1>4, <1>5, <1>6, <1>7

(* Rivals stay rivals.                                                      *)
LEMMA RivalsKeep ==
  ASSUME RivalsInv, rivals \subseteq rivals',
         \A x \in Client :
           HasImage(x)' =>
             /\ HasImage(x)
             /\ shot'[x].camera = shot[x].camera /\ shot'[x].second = shot[x].second
             /\ shot'[x].image = shot[x].image
  PROVE  RivalsInv'
  BY DEF RivalsInv

SnapshotInv == ShotInv /\ RivalsInv /\ FilesInv

(* A call ends, or changes to one that has no image.                        *)
LEMMA NoImageKeeps ==
  ASSUME SnapshotInv, NEW s \in Client, NEW v \in Shot, v.pc \in {"none", "get"},
         shot' = [shot EXCEPT ![s] = v], UNCHANGED <<disk, second, shots, reported, rivals, unflushed>>
  PROVE  SnapshotInv'
<1>1. /\ shot' \in [Client -> Shot] /\ shot'[s] = v
      /\ \A x \in Client \ {s} : shot'[x] = shot[x]
  BY DEF SnapshotInv, ShotInv
<1>2. \A x \in Client : shot'[x].pc \in {"look", "open", "write"} => shot'[x] = shot[x]
  BY <1>1
<1>3. ShotInv'  BY <1>1, <1>2 DEF SnapshotInv, ShotInv, HasImage
<1>4. RivalsInv'
  <2>1. \A x \in Client :
          HasImage(x)' =>
            /\ HasImage(x)
            /\ shot'[x].camera = shot[x].camera /\ shot'[x].second = shot[x].second
            /\ shot'[x].image = shot[x].image
    BY <1>2 DEF HasImage
  <2>2. rivals \subseteq rivals'  OBVIOUS
  <2> QED  BY <2>1, <2>2, RivalsKeep DEF SnapshotInv
<1>5. FilesInv'
  <2>1. \A x \in Client : shot'[x].pc \in {"open", "write"} => shot'[x] = shot[x]
    BY <1>2
  <2>2. disk' = disk /\ reported' = reported /\ rivals' = rivals /\ unflushed' = unflushed
    OBVIOUS
  <2> QED  BY <2>1, <2>2 DEF SnapshotInv, FilesInv, FileOf
<1> QED  BY <1>3, <1>4, <1>5 DEF SnapshotInv

LEMMA GetBytesKeeps ==
  ASSUME SnapshotInv, NEW s \in Client, GetBytes(s)
  PROVE  SnapshotInv'
<1>1. shot[s].pc = "get" /\ UNCHANGED <<disk, second, reported, unflushed>>
  BY DEF GetBytes
<1>2. shot \in [Client -> Shot] /\ second \in Nat /\ shots \in Nat
  BY DEF SnapshotInv, ShotInv
<1>3. CASE EndShot(s) /\ UNCHANGED <<shots, rivals>>
  BY <1>1, <1>3, NoImageKeeps, ShotFacts DEF EndShot
<1>4. CASE /\ shots' = shots + 1
           /\ shot' = [shot EXCEPT ![s] = [pc |-> "look", camera |-> shot[s].camera,
                                           second |-> second, count |-> 0, image |-> shots']]
           /\ rivals' = rivals \cup {shot[r].image : r \in Rivals(s)}
                               \cup {i \in {shots'} : Rivals(s) # {}}
  <2> DEFINE v == [pc |-> "look", camera |-> shot[s].camera, second |-> second, count |-> 0,
                   image |-> shots']
  <2>1. shot[s].camera \in Camera /\ shots' \in Nat
    <3>1. shot[s] \in Shot /\ shot[s].pc # "none"  BY <1>1, <1>2
    <3>2. shot[s].camera \in Camera  BY <3>1, ShotFacts, Zenon
    <3> QED  BY <1>2, <1>4, <3>2
  <2>2. /\ v \in Shot /\ v.pc = "look" /\ v.camera = shot[s].camera /\ v.second = second
        /\ v.image = shots'
    BY <1>2, <2>1 DEF Shot
  <2>3. shot' = [shot EXCEPT ![s] = v]  BY <1>4
  <2> HIDE DEF v
  <2>4. shot' \in [Client -> Shot] /\ shot'[s] = v /\ \A x \in Client \ {s} : shot'[x] = shot[x]
    BY <1>2, <2>2, <2>3
  <2>5. rivals \subseteq rivals'  BY <1>4
  <2>6. ShotInv'
    BY <1>1, <1>2, <2>1, <2>2, <2>4 DEF SnapshotInv, ShotInv, HasImage
  <2>7. RivalsInv'
    <3> SUFFICES ASSUME NEW x \in Client, NEW y \in Client, HasImage(x)', HasImage(y)', x # y,
                        shot'[x].camera = shot'[y].camera, shot'[x].second = shot'[y].second
                 PROVE  shot'[x].image \in rivals'
      BY DEF RivalsInv
    <3>1. CASE x = s
      <4>1. shot[y].pc \in {"look", "open", "write"} /\ shot'[y] = shot[y]
        BY <2>4, <3>1 DEF HasImage
      <4>2. y \in Rivals(s)  BY <2>2, <2>4, <3>1, <4>1 DEF Rivals
      <4>3. shots' \in rivals'  BY <1>4, <4>2
      <4> QED  BY <2>2, <2>4, <3>1, <4>3
    <3>2. CASE y = s
      <4>1. shot[x].pc \in {"look", "open", "write"} /\ shot'[x] = shot[x]
        BY <2>4, <3>2 DEF HasImage
      <4>2. x \in Rivals(s)  BY <2>2, <2>4, <3>2, <4>1 DEF Rivals
      <4> QED  BY <1>4, <4>1, <4>2
    <3>3. CASE x # s /\ y # s
      <4>1. shot'[x] = shot[x] /\ shot'[y] = shot[y]  BY <2>4, <3>3
      <4> QED  BY <2>5, <4>1 DEF SnapshotInv, RivalsInv, HasImage
    <3> QED  BY <3>1, <3>2, <3>3
  <2>8. FilesInv'
    <3>1. \A x \in Client : shot'[x].pc \in {"open", "write"} => shot'[x] = shot[x]
      BY <2>2, <2>4
    <3> QED  BY <1>1, <2>5, <3>1 DEF SnapshotInv, FilesInv, FileOf
  <2> QED  BY <2>6, <2>7, <2>8 DEF SnapshotInv
<1> QED  BY <1>3, <1>4 DEF GetBytes

LEMMA LookKeeps ==
  ASSUME SnapshotInv, NEW s \in Client, Look(s)
  PROVE  SnapshotInv'
<1>1. /\ shot[s].pc = "look" /\ shot \in [Client -> Shot]
      /\ UNCHANGED <<disk, second, shots, reported, rivals, unflushed>>
  BY DEF Look, SnapshotInv, ShotInv
<1>2. /\ shot' \in [Client -> Shot]
      /\ \A x \in Client \ {s} : shot'[x] = shot[x]
      /\ shot'[s].camera = shot[s].camera /\ shot'[s].second = shot[s].second
      /\ shot'[s].image = shot[s].image
      /\ \/ shot'[s].pc = "look"
         \/ /\ shot'[s].pc = "open" /\ shot'[s].count = shot[s].count
            /\ FileOf(s) \notin DOMAIN disk[shot[s].camera]
  <2>1. CASE FileOf(s) \in DOMAIN disk[shot[s].camera]
    <3>1. shot' = [shot EXCEPT ![s].count = @ + 1]  BY <2>1 DEF Look
    <3>2. shot'[s] = [shot[s] EXCEPT !.count = @ + 1] /\ \A x \in Client \ {s} : shot'[x] = shot[x]
      BY <1>1, <3>1
    <3>3. [shot[s] EXCEPT !.count = @ + 1] \in Shot  BY <1>1, StepFacts
    <3>4. shot' = [shot EXCEPT ![s] = [shot[s] EXCEPT !.count = @ + 1]]  BY <3>1
    <3>5. shot' \in [Client -> Shot]  BY <1>1, <3>3, <3>4
    <3> QED  BY <1>1, <3>2, <3>5, StepFacts
  <2>2. CASE FileOf(s) \notin DOMAIN disk[shot[s].camera]
    <3>1. shot' = [shot EXCEPT ![s].pc = "open"]  BY <2>2 DEF Look
    <3>2. shot'[s] = [shot[s] EXCEPT !.pc = "open"] /\ \A x \in Client \ {s} : shot'[x] = shot[x]
      BY <1>1, <3>1
    <3>3. [shot[s] EXCEPT !.pc = "open"] \in Shot  BY <1>1, StepFacts
    <3>4. shot' = [shot EXCEPT ![s] = [shot[s] EXCEPT !.pc = "open"]]  BY <3>1
    <3>5. shot' \in [Client -> Shot]  BY <1>1, <3>3, <3>4
    <3> QED  BY <1>1, <2>2, <3>2, <3>5, StepFacts
  <2> QED  BY <2>1, <2>2
<1>3. ShotInv'  BY <1>1, <1>2 DEF SnapshotInv, ShotInv, HasImage
<1>4. RivalsInv'
  <2>1. \A x \in Client :
          HasImage(x)' =>
            /\ HasImage(x)
            /\ shot'[x].camera = shot[x].camera /\ shot'[x].second = shot[x].second
            /\ shot'[x].image = shot[x].image
    BY <1>1, <1>2 DEF HasImage
  <2> QED  BY <1>1, <2>1, RivalsKeep DEF SnapshotInv
<1>5. FilesInv'
  <2>1. \A x \in Client \ {s} : shot'[x] = shot[x]  BY <1>2
  <2>2. shot'[s].pc = "open" =>
          \A r \in reported :
            r.camera = shot'[s].camera => r.name # <<shot'[s].second, shot'[s].count>>
    BY <1>2 DEF SnapshotInv, ShotInv, FileOf
  <2>3. shot'[s].pc # "write"  BY <1>2
  <2>4. ASSUME NEW x \in Client, shot'[x].pc \in {"open", "write"}, NEW r \in reported,
               r.camera = shot'[x].camera, r.name = FileOf(x)'
        PROVE  r.image \in rivals
    <3>1. CASE x = s  BY <2>2, <2>3, <2>4, <3>1 DEF FileOf
    <3>2. CASE x # s  BY <2>1, <2>4, <3>2 DEF SnapshotInv, FilesInv, FileOf
    <3> QED  BY <3>1, <3>2
  <2>5. ASSUME NEW x \in Client, shot'[x].pc = "write"
        PROVE  /\ FileOf(x)' \in DOMAIN disk[shot'[x].camera]
               /\ shot'[x].image \notin rivals => disk[shot'[x].camera][FileOf(x)'].images = {}
    <3>1. x # s  BY <2>3, <2>5
    <3> QED  BY <2>1, <2>5, <3>1 DEF SnapshotInv, FilesInv, FileOf
  <2> QED  BY <1>1, <2>4, <2>5 DEF SnapshotInv, FilesInv
<1> QED  BY <1>3, <1>4, <1>5 DEF SnapshotInv

(* The steps of a call share these.                                         *)
LEMMA NextPcFacts ==
  ASSUME SnapshotInv, NEW s \in Client, NEW v \in Shot, shot' = [shot EXCEPT ![s] = v],
         v.pc \in {"none", "write"}, shot[s].pc \in {"open", "write"},
         v.pc = "write" => v = [shot[s] EXCEPT !.pc = "write"],
         UNCHANGED <<second, shots, rivals>>
  PROVE  /\ shot' \in [Client -> Shot] /\ shot'[s] = v
         /\ \A x \in Client \ {s} : shot'[x] = shot[x]
         /\ \A x \in Client : HasImage(x)' => shot'[x].second <= second
         /\ RivalsInv'
<1>1. /\ shot \in [Client -> Shot] /\ shot' \in [Client -> Shot] /\ shot'[s] = v
      /\ \A x \in Client \ {s} : shot'[x] = shot[x]
  BY DEF SnapshotInv, ShotInv
<1>2. shot[s] \in Shot /\ shot[s].pc \in {"look", "open", "write"}  BY <1>1
<1>3. LET w == [shot[s] EXCEPT !.pc = "write"]
      IN w.camera = shot[s].camera /\ w.second = shot[s].second /\ w.image = shot[s].image
  BY <1>2, StepFacts, Zenon
<1>4. v.pc = "write" =>
        v.camera = shot[s].camera /\ v.second = shot[s].second /\ v.image = shot[s].image
  BY <1>3
<1>5. \A x \in Client :
        HasImage(x)' =>
          /\ HasImage(x)
          /\ shot'[x].camera = shot[x].camera /\ shot'[x].second = shot[x].second
          /\ shot'[x].image = shot[x].image
  BY <1>1, <1>2, <1>4 DEF HasImage
<1>6. rivals \subseteq rivals'  OBVIOUS
<1>7. RivalsInv'  BY <1>5, <1>6, RivalsKeep DEF SnapshotInv
<1>8. \A x \in Client : HasImage(x)' => shot'[x].second <= second
  BY <1>5 DEF SnapshotInv, ShotInv
<1> QED  BY <1>1, <1>7, <1>8

(* A file that s opens or writes to is another's only among rivals.         *)
LEMMA SharedFiles ==
  ASSUME SnapshotInv, NEW s \in Client, shot[s].pc \in {"open", "write"}
  PROVE  /\ shot[s].camera \in Camera /\ FileOf(s) \in Nat \X Nat
         /\ FileOf(s)[1] = shot[s].second /\ shot[s].second <= second
         /\ \A x \in Client \ {s} :
              /\ shot[x].pc \in {"open", "write"}
              /\ shot[x].camera = shot[s].camera /\ FileOf(x) = FileOf(s)
              => shot[x].image \in rivals /\ shot[s].image \in rivals
         /\ \A r \in reported :
              r.camera = shot[s].camera /\ r.name = FileOf(s) => r.image \in rivals
<1>1. shot[s] \in Shot /\ HasImage(s)  BY DEF SnapshotInv, ShotInv, HasImage
<1>2. shot[s].camera \in Camera /\ FileOf(s) \in Nat \X Nat
  BY <1>1, ShotFacts DEF FileOf
<1>3. FileOf(s)[1] = shot[s].second /\ shot[s].second <= second
  BY <1>1 DEF FileOf, SnapshotInv, ShotInv
<1>4. ASSUME NEW x \in Client \ {s}, shot[x].pc \in {"open", "write"},
             shot[x].camera = shot[s].camera, FileOf(x) = FileOf(s)
      PROVE  shot[x].image \in rivals /\ shot[s].image \in rivals
  <2>1. shot[x].second = shot[s].second  BY <1>4 DEF FileOf
  <2> QED  BY <1>1, <1>4, <2>1 DEF HasImage, SnapshotInv, RivalsInv
<1>5. \A r \in reported :
        r.camera = shot[s].camera /\ r.name = FileOf(s) => r.image \in rivals
  BY DEF SnapshotInv, FilesInv
<1> QED  BY <1>2, <1>3, <1>4, <1>5

LEMMA OpenKeeps ==
  ASSUME SnapshotInv, NEW s \in Client, Open(s)
  PROVE  SnapshotInv'
<1>1. /\ shot[s].pc = "open" /\ shot \in [Client -> Shot]
      /\ UNCHANGED <<second, shots, reported, rivals, unflushed>>
  BY DEF Open, SnapshotInv, ShotInv
<1>2. CASE EndShot(s) /\ UNCHANGED disk
  BY <1>1, <1>2, NoImageKeeps, ShotFacts DEF EndShot
<1>3. CASE Write(shot[s].camera, FileOf(s), {}) /\ shot' = [shot EXCEPT ![s].pc = "write"]
  <2> DEFINE v == [shot[s] EXCEPT !.pc = "write"]
             c == shot[s].camera
             f == FileOf(s)
  <2>1. /\ v \in Shot /\ v.pc = "write" /\ v.camera = c /\ v.second = shot[s].second
        /\ v.count = shot[s].count /\ v.image = shot[s].image
    BY <1>1, StepFacts
  <2>2. shot' = [shot EXCEPT ![s] = v]  BY <1>3
  <2>3. /\ shot' \in [Client -> Shot] /\ shot'[s] = v
        /\ \A x \in Client \ {s} : shot'[x] = shot[x]
        /\ \A x \in Client : HasImage(x)' => shot'[x].second <= second
        /\ RivalsInv'
    BY <1>1, <2>1, <2>2, NextPcFacts
  <2>4. /\ c \in Camera /\ f \in Nat \X Nat /\ f[1] <= second
        /\ \A x \in Client \ {s} :
             /\ shot[x].pc \in {"open", "write"} /\ shot[x].camera = c /\ FileOf(x) = f
             => shot[x].image \in rivals
        /\ \A r \in reported : r.camera = c /\ r.name = f => r.image \in rivals
    BY <1>1, SharedFiles
  <2>5. /\ disk' \in [Camera -> Files]
        /\ f \in DOMAIN disk'[c] /\ disk'[c][f].images = {}
        /\ \A x \in Camera : DOMAIN disk[x] \subseteq DOMAIN disk'[x]
        /\ \A x \in Camera : \A n \in DOMAIN disk[x] :
             x # c \/ n # f => disk'[x][n] = disk[x][n]
        /\ \A x \in Camera : \A n \in DOMAIN disk'[x] : n[1] <= disk'[x][n].ctime
    BY <1>3, <2>4, WriteFacts DEF SnapshotInv
  <2>6. ShotInv'  BY <1>1, <2>3, <2>5 DEF SnapshotInv, ShotInv
  <2>7. /\ \A x \in Client : shot'[x].camera = shot[x].camera /\ shot'[x].image = shot[x].image
        /\ \A x \in Client : FileOf(x)' = FileOf(x)
        /\ \A x \in Client : shot'[x].pc \in {"open", "write"} => shot[x].pc \in {"open", "write"}
    BY <1>1, <2>1, <2>3 DEF FileOf
  <2>8. FilesInv'
    <3>1. ASSUME NEW x \in Client, shot'[x].pc \in {"open", "write"}, NEW r \in reported',
                 r.camera = shot'[x].camera, r.name = FileOf(x)'
          PROVE  r.image \in rivals'
      BY <1>1, <2>7, <3>1 DEF SnapshotInv, FilesInv
    <3>2. ASSUME NEW x \in Client, shot'[x].pc = "write"
          PROVE  /\ FileOf(x)' \in DOMAIN disk'[shot'[x].camera]
                 /\ shot'[x].image \notin rivals' =>
                      disk'[shot'[x].camera][FileOf(x)'].images = {}
      <4>1. CASE x = s  BY <2>5, <2>7, <4>1
      <4>2. CASE x # s
        <5>1. shot[x].pc = "write"  BY <2>3, <3>2, <4>2
        <5>2. /\ shot[x].camera \in Camera
              /\ FileOf(x) \in DOMAIN disk[shot[x].camera]
              /\ shot[x].image \notin rivals => disk[shot[x].camera][FileOf(x)].images = {}
          BY <5>1, SharedFiles DEF SnapshotInv, FilesInv
        <5>3. FileOf(x) \in DOMAIN disk'[shot[x].camera]  BY <2>5, <5>2
        <5>4. shot[x].image \notin rivals => shot[x].camera # c \/ FileOf(x) # f
          BY <2>4, <4>2, <5>1
        <5>5. shot[x].image \notin rivals => disk'[shot[x].camera][FileOf(x)].images = {}
          BY <2>5, <5>2, <5>4
        <5> QED  BY <1>1, <2>7, <5>3, <5>5
      <4> QED  BY <4>1, <4>2
    <3>3. ASSUME NEW r \in reported', r.image \notin rivals' \cup unflushed'
          PROVE  disk'[r.camera][r.name].images = {r.image}
      <4>1. /\ r.camera \in Camera /\ r.name \in DOMAIN disk[r.camera]
            /\ disk[r.camera][r.name].images = {r.image}
        BY <1>1, <3>3 DEF SnapshotInv, ShotInv, FilesInv
      <4>2. r.camera # c \/ r.name # f  BY <1>1, <2>4, <3>3
      <4> QED  BY <2>5, <4>1, <4>2
    <3> QED  BY <3>1, <3>2, <3>3 DEF FilesInv
  <2> QED  BY <2>3, <2>6, <2>8 DEF SnapshotInv
<1> QED  BY <1>2, <1>3 DEF Open

LEMMA WriteAllKeeps ==
  ASSUME SnapshotInv, NEW s \in Client, WriteAll(s)
  PROVE  SnapshotInv'
<1> DEFINE c == shot[s].camera
           f == FileOf(s)
           i == shot[s].image
           done == [camera |-> c, name |-> f, image |-> i]
<1>1. /\ shot[s].pc = "write" /\ shot \in [Client -> Shot]
      /\ shot' = [shot EXCEPT ![s] = NoVisit]
      /\ UNCHANGED <<second, shots, rivals>>
  BY DEF WriteAll, EndShot, SnapshotInv, ShotInv
<1>2. /\ shot' \in [Client -> Shot] /\ shot'[s] = NoVisit
      /\ \A x \in Client \ {s} : shot'[x] = shot[x]
      /\ \A x \in Client : HasImage(x)' => shot'[x].second <= second
      /\ RivalsInv'
  <2>1. NoVisit \in Shot /\ NoVisit.pc = "none"  BY ShotFacts
  <2> QED  BY <1>1, <2>1, NextPcFacts
<1>3. /\ c \in Camera /\ f \in Nat \X Nat /\ f[1] <= second
      /\ \A x \in Client \ {s} :
           /\ shot[x].pc \in {"open", "write"} /\ shot[x].camera = c /\ FileOf(x) = f
           => shot[x].image \in rivals /\ i \in rivals
      /\ \A r \in reported : r.camera = c /\ r.name = f => r.image \in rivals
  BY <1>1, SharedFiles
<1>4. f \in DOMAIN disk[c] /\ (i \notin rivals => disk[c][f].images = {})
  BY <1>1 DEF SnapshotInv, FilesInv
<1>5. disk \in [Camera -> Files] /\ disk[c] \in Files /\ i \in Nat
  <2>1. shot[s] \in Shot  BY <1>1
  <2> QED  BY <1>1, <1>3, <2>1, ShotFacts DEF SnapshotInv, ShotInv
<1>6. /\ \A x \in Client : shot'[x].pc \in {"open", "write"} =>
           x # s /\ shot'[x] = shot[x] /\ FileOf(x)' = FileOf(x)
      /\ \A x \in Client : shot'[x].pc = "write" => shot[x].pc = "write"
  BY <1>2, ShotFacts DEF FileOf
<1>7. ASSUME reported' = reported \cup {done}
      PROVE  \A x \in Client : shot'[x].pc \in {"open", "write"} =>
               \A r \in reported' :
                 r.camera = shot'[x].camera /\ r.name = FileOf(x)' => r.image \in rivals'
  <2> SUFFICES ASSUME NEW x \in Client, shot'[x].pc \in {"open", "write"}, NEW r \in reported',
                      r.camera = shot'[x].camera, r.name = FileOf(x)'
               PROVE  r.image \in rivals
    BY <1>1
  <2>1. /\ x # s /\ shot[x].pc \in {"open", "write"}
        /\ r.camera = shot[x].camera /\ r.name = FileOf(x)
    BY <1>6
  <2>2. CASE r \in reported  BY <2>1, <2>2 DEF SnapshotInv, FilesInv
  <2>3. CASE r = done  BY <1>3, <2>1, <2>3
  <2> QED  BY <1>7, <2>2, <2>3
<1>8. CASE /\ Write(c, f, disk[c][f].images \cup {i})
           /\ reported' = reported \cup {done} /\ UNCHANGED unflushed
  <2> DEFINE images == disk[c][f].images \cup {i}
  <2>1. images \in SUBSET Nat
    <3>1. disk[c][f] \in File  BY <1>4, <1>5, FileFacts
    <3> QED  BY <1>5, <3>1 DEF File
  <2>2. /\ disk' \in [Camera -> Files]
        /\ f \in DOMAIN disk'[c] /\ disk'[c][f].images = images
        /\ \A x \in Camera : DOMAIN disk[x] \subseteq DOMAIN disk'[x]
        /\ \A x \in Camera : \A n \in DOMAIN disk[x] :
             x # c \/ n # f => disk'[x][n] = disk[x][n]
        /\ \A x \in Camera : \A n \in DOMAIN disk'[x] : n[1] <= disk'[x][n].ctime
    BY <1>3, <1>8, <2>1, WriteFacts DEF SnapshotInv
  <2>3. ShotInv'
    <3>1. ASSUME NEW r \in reported'
          PROVE  r.camera \in Camera /\ r.name \in DOMAIN disk'[r.camera]
      <4>1. CASE r \in reported  BY <2>2, <4>1 DEF SnapshotInv, ShotInv
      <4>2. CASE r = done  BY <1>3, <2>2, <4>2
      <4> QED  BY <1>8, <4>1, <4>2
    <3> QED  BY <1>1, <1>2, <2>2, <3>1 DEF SnapshotInv, ShotInv
  <2>4. ASSUME NEW x \in Client, shot'[x].pc = "write"
        PROVE  /\ FileOf(x)' \in DOMAIN disk'[shot'[x].camera]
               /\ shot'[x].image \notin rivals' =>
                    disk'[shot'[x].camera][FileOf(x)'].images = {}
    <3>1. x # s /\ shot[x].pc = "write" /\ shot'[x] = shot[x] /\ FileOf(x)' = FileOf(x)
      BY <1>6, <2>4
    <3>2. /\ shot[x].camera \in Camera
          /\ FileOf(x) \in DOMAIN disk[shot[x].camera]
          /\ shot[x].image \notin rivals => disk[shot[x].camera][FileOf(x)].images = {}
      BY <3>1, SharedFiles DEF SnapshotInv, FilesInv
    <3>3. FileOf(x) \in DOMAIN disk'[shot[x].camera]  BY <2>2, <3>2
    <3>4. shot[x].image \notin rivals => shot[x].camera # c \/ FileOf(x) # f
      BY <1>3, <3>1
    <3>5. shot[x].image \notin rivals => disk'[shot[x].camera][FileOf(x)].images = {}
      BY <2>2, <3>2, <3>4
    <3> QED  BY <1>1, <3>1, <3>3, <3>5
  <2>5. ASSUME NEW r \in reported', r.image \notin rivals' \cup unflushed'
        PROVE  disk'[r.camera][r.name].images = {r.image}
    <3>1. CASE r \in reported
      <4>1. /\ r.camera \in Camera /\ r.name \in DOMAIN disk[r.camera]
            /\ disk[r.camera][r.name].images = {r.image}
        BY <1>1, <1>8, <2>5, <3>1 DEF SnapshotInv, ShotInv, FilesInv
      <4>2. r.camera # c \/ r.name # f  BY <1>1, <1>3, <2>5, <3>1
      <4> QED  BY <2>2, <4>1, <4>2
    <3>2. CASE r = done
      <4>1. disk[c][f].images = {}  BY <1>1, <1>4, <2>5, <3>2
      <4> QED  BY <2>2, <3>2, <4>1
    <3> QED  BY <1>8, <3>1, <3>2
  <2>6. FilesInv'  BY <1>7, <1>8, <2>4, <2>5 DEF FilesInv
  <2> QED  BY <1>2, <2>3, <2>6 DEF SnapshotInv
<1>9. CASE /\ reported' = reported \cup {done}
           /\ unflushed' = unflushed \cup {i} /\ UNCHANGED disk
  <2>1. ASSUME NEW r \in reported'
        PROVE  /\ r.camera \in Camera /\ r.name \in DOMAIN disk'[r.camera]
               /\ r.image \notin rivals' \cup unflushed' =>
                    disk'[r.camera][r.name].images = {r.image}
    <3>1. CASE r \in reported  BY <1>1, <1>9, <3>1 DEF SnapshotInv, ShotInv, FilesInv
    <3>2. CASE r = done  BY <1>3, <1>4, <1>9, <3>2
    <3> QED  BY <1>9, <3>1, <3>2
  <2>2. ShotInv'  BY <1>1, <1>2, <1>9, <2>1 DEF SnapshotInv, ShotInv
  <2>3. \A x \in Client : shot'[x].pc = "write" =>
          /\ FileOf(x)' \in DOMAIN disk'[shot'[x].camera]
          /\ shot'[x].image \notin rivals' => disk'[shot'[x].camera][FileOf(x)'].images = {}
    BY <1>1, <1>6, <1>9 DEF SnapshotInv, FilesInv
  <2>4. FilesInv'  BY <1>7, <1>9, <2>1, <2>3 DEF FilesInv
  <2> QED  BY <1>2, <2>2, <2>4 DEF SnapshotInv
<1>10. CASE UNCHANGED <<disk, reported, unflushed>>
  BY <1>1, <1>10, NoImageKeeps, ShotFacts
<1> QED  BY <1>8, <1>9, <1>10 DEF WriteAll

LEMMA ShotNextKeeps ==
  ASSUME SnapshotInv, ShotNext
  PROVE  SnapshotInv'
<1>1. ASSUME NEW s \in Client, NEW c \in Camera, AskSnapshot(s, c)
      PROVE  SnapshotInv'
  <2>1. Visiting("get", c) \in Shot /\ Visiting("get", c).pc = "get"
    BY DEF Shot, Visiting
  <2> QED  BY <1>1, <2>1, NoImageKeeps DEF AskSnapshot
<1>2. CASE SecondPasses
  <2>1. /\ second' = second + 1
        /\ UNCHANGED <<shot, disk, shots, reported, rivals, unflushed>>
    BY <1>2 DEF SecondPasses
  <2>2. \A x \in Client : HasImage(x) => shot[x].second <= second'
    <3> SUFFICES ASSUME NEW x \in Client, HasImage(x)  PROVE shot[x].second <= second'
      OBVIOUS
    <3>1. shot[x].second \in Nat  BY ShotFacts DEF HasImage, SnapshotInv, ShotInv
    <3> QED  BY <2>1, <3>1 DEF SnapshotInv, ShotInv
  <2>3. ShotInv'  BY <2>1, <2>2 DEF SnapshotInv, ShotInv, HasImage
  <2>4. RivalsInv'  BY <2>1 DEF SnapshotInv, RivalsInv, HasImage
  <2>5. FilesInv'  BY <2>1 DEF SnapshotInv, FilesInv, FileOf
  <2> QED  BY <2>3, <2>4, <2>5 DEF SnapshotInv
<1> QED  BY <1>1, <1>2, GetBytesKeeps, LookKeeps, OpenKeeps, WriteAllKeeps DEF ShotNext

(* A restart ends every call and every visit; the files are kept.           *)
LEMMA RestartKeeps ==
  ASSUME VisitInv, SnapshotInv, RestartCameras
  PROVE  VisitInv' /\ SnapshotInv'
<1>1. /\ announced' = {} /\ channels' = [c \in Camera |-> {}] /\ cameras' = {}
      /\ listeners' = "free"
      /\ visit' = [t \in Visit |-> NoVisit] /\ shot' = [s \in Client |-> NoVisit]
      /\ UNCHANGED <<disk, second, shots, reported, rivals, unflushed>>
  BY DEF RestartCameras
<1>2. VisitInv'
  <2>1. NoVisit \in Visited  BY DEF Visited
  <2> QED  BY <1>1, <2>1, VisitFacts DEF VisitInv, CamerasAnswer
<1>3. shot' \in [Client -> Shot] /\ \A s \in Client : shot'[s].pc = "none"
  BY <1>1, ShotFacts
<1>4. ShotInv'  BY <1>1, <1>3 DEF SnapshotInv, ShotInv, HasImage
<1>5. RivalsInv'  BY <1>3 DEF RivalsInv, HasImage
<1>6. FilesInv'  BY <1>1, <1>3 DEF SnapshotInv, FilesInv
<1> QED  BY <1>2, <1>4, <1>5, <1>6 DEF SnapshotInv

LEMMA IpCameraSpecInv == IpCameraSpec => []IpCameraInv
<1>0. IpCameraInv <=> VisitInv /\ SnapshotInv  BY DEF IpCameraInv, SnapshotInv
<1>1. IpCameraInit => IpCameraInv
  <2> SUFFICES ASSUME IpCameraInit  PROVE VisitInv /\ SnapshotInv
    BY <1>0
  <2>1. VisitInv
    <3>1. NoVisit \in Visited  BY DEF Visited
    <3> QED  BY <3>1, VisitFacts DEF IpCameraInit, VisitInv, CamerasAnswer
  <2>2. shot \in [Client -> Shot] /\ \A s \in Client : shot[s].pc = "none"
    BY ShotFacts DEF IpCameraInit
  <2>3. EmptyMap \in Files /\ DOMAIN EmptyMap = {}
    <3>1. DOMAIN EmptyMap = {} /\ EmptyMap \in [{} -> File]  BY DEF EmptyMap
    <3> QED  BY <3>1 DEF Files
  <2>4. ShotInv  BY <2>2, <2>3 DEF IpCameraInit, ShotInv, HasImage
  <2>5. RivalsInv /\ FilesInv
    BY <2>2 DEF IpCameraInit, RivalsInv, FilesInv, HasImage
  <2> QED  BY <2>1, <2>4, <2>5 DEF SnapshotInv
<1>2. IpCameraInv /\ [IpCameraNext]_ipCameraVars => IpCameraInv'
  <2> SUFFICES ASSUME VisitInv, SnapshotInv, [IpCameraNext]_ipCameraVars
               PROVE  VisitInv' /\ SnapshotInv'
    BY <1>0 DEF IpCameraInv, SnapshotInv
  <2>1. ASSUME UNCHANGED snapshots  PROVE SnapshotInv'
    <3>1. UNCHANGED <<shot, disk, second, shots, reported, rivals, unflushed>>
      BY <2>1 DEF snapshots
    <3>2. ShotInv'  BY <3>1 DEF SnapshotInv, ShotInv, HasImage
    <3>3. RivalsInv'  BY <3>1 DEF SnapshotInv, RivalsInv, HasImage
    <3>4. FilesInv'  BY <3>1 DEF SnapshotInv, FilesInv, FileOf
    <3> QED  BY <3>2, <3>3, <3>4 DEF SnapshotInv
  <2>2. ASSUME UNCHANGED memory  PROVE VisitInv'
    BY <2>2 DEF memory, VisitInv, CamerasAnswer
  <2>3. ASSUME VisitNext  PROVE VisitInv'
    BY <2>3, AdvertiseKeeps, ListenKeeps, AddingKeeps DEF VisitNext
  <2>4. CASE VisitNext /\ UNCHANGED snapshots  BY <2>1, <2>3, <2>4
  <2>5. CASE ShotNext /\ UNCHANGED memory  BY <2>2, <2>5, ShotNextKeeps
  <2>6. CASE RestartCameras  BY <2>6, RestartKeeps
  <2>7. CASE UNCHANGED ipCameraVars
    <3>1. UNCHANGED memory /\ UNCHANGED snapshots  BY <2>7 DEF ipCameraVars
    <3> QED  BY <2>1, <2>2, <3>1
  <2> QED  BY <2>4, <2>5, <2>6, <2>7 DEF IpCameraNext
<1> QED  BY <1>1, <1>2, PTL DEF IpCameraSpec

(* Whatever the threads of advertisements do, and whichever step of a       *)
(* registration fails: a camera whose service is registered has all its     *)
(* channels and is in the maps of the adapter, or its registration is under *)
(* way, or no listener is ever called again.                                *)
THEOREM AnnouncedCamerasAnswer == IpCameraSpec => []CamerasAnswer
<1>1. IpCameraInv => CamerasAnswer  BY DEF IpCameraInv, VisitInv
<1> QED  BY <1>1, IpCameraSpecInv, PTL

(* Whatever clients, disk and restarts do: a snapshot that was reported as  *)
(* taken stays on the disk, alone in its file unless it has rivals or its   *)
(* last bytes were lost, and the newest image is not from before it.        *)
THEOREM SnapshotsAreKept == IpCameraSpec => []SnapshotsKept
<1>1. IpCameraInv => SnapshotsKept
  <2> SUFFICES ASSUME IpCameraInv, NEW r \in reported
               PROVE  /\ r.name \in DOMAIN disk[r.camera]
                      /\ r.image \notin rivals \cup unflushed =>
                           disk[r.camera][r.name].images = {r.image}
                      /\ \A n \in NewestImages(r.camera) : disk[r.camera][n].ctime >= r.name[1]
    BY DEF SnapshotsKept
  <2>1. r.camera \in Camera /\ r.name \in DOMAIN disk[r.camera]
    BY DEF IpCameraInv, ShotInv
  <2>2. r.image \notin rivals \cup unflushed => disk[r.camera][r.name].images = {r.image}
    BY DEF IpCameraInv, FilesInv
  <2>3. ASSUME NEW n \in NewestImages(r.camera)
        PROVE  disk[r.camera][n].ctime >= r.name[1]
    <3>1. n \in DOMAIN disk[r.camera] /\ disk[r.camera][r.name].ctime <= disk[r.camera][n].ctime
      BY <2>1 DEF NewestImages
    <3>2. r.name[1] <= disk[r.camera][r.name].ctime  BY <2>1 DEF IpCameraInv, ShotInv
    <3>3. /\ disk[r.camera][n] \in File /\ disk[r.camera][r.name] \in File
          /\ r.name \in Nat \X Nat
      BY <2>1, <3>1, FileFacts DEF IpCameraInv, ShotInv
    <3>4. /\ disk[r.camera][n].ctime \in Nat /\ disk[r.camera][r.name].ctime \in Nat
          /\ r.name[1] \in Nat
      BY <3>3 DEF File
    <3> QED  BY <3>1, <3>2, <3>4
  <2> QED  BY <2>1, <2>2, <2>3
<1> QED  BY <1>1, IpCameraSpecInv, PTL

-----------------------------------------------------------------------------
(* The names of snapshots.  A name that is looked at and taken belongs to   *)
(* another image, so that the search for a free one ends.                   *)

Unopened(c) == {s \in Client : shot[s].pc \in {"look", "open"} /\ shot[s].camera = c}
Names(c) == DOMAIN disk[c]

(* No more files, and images that are yet to have one, than images.         *)
FewFiles(c) ==
  /\ IsFiniteSet(Names(c)) /\ IsFiniteSet(Unopened(c))
  /\ Cardinality(Names(c)) + Cardinality(Unopened(c)) <= shots

(* The names with a lower count are taken.                                  *)
LowerTaken(s) ==
  HasImage(s) =>
    \A j \in 0 .. shot[s].count - 1 : <<shot[s].second, j>> \in Names(shot[s].camera)

NamesInv ==
  /\ manager \in {"free", "poisoned"}
  /\ shots \in 0 .. MaxShots /\ second \in 0 .. MaxSecond
  /\ \A c \in Camera :
       FewFiles(c) /\ \A n \in Names(c) : n[1] <= second /\ n[2] <= MaxShots
  /\ \A s \in Client : LowerTaken(s)

LEMMA CountBounded ==
  ASSUME ShotInv, NamesInv, NEW s \in Client, HasImage(s)
  PROVE  shot[s].count <= MaxShots
<1> DEFINE n == shot[s].count
           names == Names(shot[s].camera)
           f == [i \in 1 .. n |-> <<shot[s].second, i - 1>>]
<1>1. shot[s] \in Shot /\ shot[s].camera \in Camera /\ n \in Nat
  BY ShotFacts DEF ShotInv, HasImage
<1>2. /\ IsFiniteSet(names) /\ Cardinality(names) \in Nat /\ shots \in Nat /\ shots <= MaxShots
      /\ Cardinality(names) <= shots
  <2>1. FewFiles(shot[s].camera)  BY <1>1 DEF NamesInv
  <2>2. IsFiniteSet(names) /\ IsFiniteSet(Unopened(shot[s].camera))  BY <2>1 DEF FewFiles
  <2>3. Cardinality(names) \in Nat /\ Cardinality(Unopened(shot[s].camera)) \in Nat
    BY <2>2, FS_CardinalityType
  <2>4. Cardinality(names) + Cardinality(Unopened(shot[s].camera)) <= shots
    BY <2>1 DEF FewFiles
  <2>5. shots \in Nat /\ shots <= MaxShots  BY IpCameraAssumption DEF NamesInv
  <2> HIDE DEF names
  <2> QED  BY <2>2, <2>3, <2>4, <2>5
<1>3. \A i \in 1 .. n : <<shot[s].second, i - 1>> \in names
  <2> SUFFICES ASSUME NEW i \in 1 .. n  PROVE <<shot[s].second, i - 1>> \in names
    OBVIOUS
  <2>1. i - 1 \in 0 .. n - 1  BY <1>1
  <2> QED  BY <2>1 DEF NamesInv, LowerTaken
<1> HIDE DEF n, names
<1>4. f \in Injection(1 .. n, names)
  <2>1. f \in [1 .. n -> names]  BY <1>3
  <2>2. \A i, j \in 1 .. n : f[i] = f[j] => i = j
    <3> SUFFICES ASSUME NEW i \in 1 .. n, NEW j \in 1 .. n, f[i] = f[j]  PROVE i = j
      OBVIOUS
    <3>1. i - 1 = j - 1  OBVIOUS
    <3> QED  BY <1>1, <3>1
  <2> HIDE DEF f
  <2> QED  BY <2>1, <2>2 DEF Injection, IsInjective
<1> HIDE DEF f
<1>5. Cardinality(1 .. n) <= Cardinality(names)  BY <1>2, <1>4, FS_Injection
<1>6. Cardinality(1 .. n) = n
  <2>1. 1 \in Int /\ n \in Int  BY <1>1
  <2>2. Cardinality(1 .. n) = IF 1 > n THEN 0 ELSE n - 1 + 1  BY <2>1, FS_Interval
  <2> QED  BY <1>1, <2>2
<1>7. n <= MaxShots  BY <1>1, <1>2, <1>5, <1>6, IpCameraAssumption
<1> QED  BY <1>7 DEF n

(* No file is made and no image handed out.                                 *)
LEMMA NoNewNameKeeps ==
  ASSUME NamesInv, ShotInv, manager' \in {"free", "poisoned"}, shots' = shots,
         second' \in 0 .. MaxSecond, second <= second',
         \A c \in Camera : Unopened(c)' \subseteq Unopened(c) /\ Names(c)' = Names(c),
         \A s \in Client : LowerTaken(s)'
  PROVE  NamesInv'
<1>1. ASSUME NEW c \in Camera
      PROVE  FewFiles(c)' /\ \A n \in Names(c)' : n[1] <= second' /\ n[2] <= MaxShots
  <2>1. FewFiles(c)  BY DEF NamesInv
  <2>2. IsFiniteSet(Names(c)) /\ IsFiniteSet(Unopened(c))  BY <2>1 DEF FewFiles
  <2>3. /\ IsFiniteSet(Unopened(c)')
        /\ Cardinality(Unopened(c)') <= Cardinality(Unopened(c))
    BY <2>2, FS_Subset
  <2>4. /\ Cardinality(Names(c)) \in Nat /\ Cardinality(Unopened(c)) \in Nat
        /\ Cardinality(Unopened(c)') \in Nat
    BY <2>2, <2>3, FS_CardinalityType
  <2>5. Cardinality(Names(c)) + Cardinality(Unopened(c)) <= shots  BY <2>1 DEF FewFiles
  <2>6. shots \in Nat  BY DEF ShotInv
  <2>7. Cardinality(Names(c)) + Cardinality(Unopened(c)') <= shots  BY <2>3, <2>4, <2>5, <2>6
  <2>8. FewFiles(c)'
    <3>1. Names(c)' = Names(c)  OBVIOUS
    <3> QED  BY <2>2, <2>3, <2>7, <3>1 DEF FewFiles
  <2>9. ASSUME NEW n \in Names(c)'
        PROVE  n[1] <= second' /\ n[2] <= MaxShots
    <3>1. n \in Names(c) /\ n[1] <= second /\ n[2] <= MaxShots  BY DEF NamesInv
    <3>2. n \in Nat \X Nat  BY <3>1, FileFacts DEF ShotInv, Names
    <3>3. n[1] \in Nat /\ second \in Nat /\ second' \in Nat
      BY <3>2, IpCameraAssumption DEF ShotInv
    <3> QED  BY <3>1, <3>3
  <2> QED  BY <2>8, <2>9
<1> QED  BY <1>1 DEF NamesInv

(* The call of one client goes on, or ends, and the disk keeps its names.   *)
LEMMA OneShotKeeps ==
  ASSUME NamesInv, ShotInv, NEW s \in Client, NEW v \in Shot, shot' = [shot EXCEPT ![s] = v],
         v.pc \in {"look", "open"} =>
           shot[s].pc \in {"look", "open"} /\ v.camera = shot[s].camera,
         v.pc \in {"look", "open", "write"} =>
           \A j \in 0 .. v.count - 1 : <<v.second, j>> \in Names(v.camera),
         UNCHANGED <<manager, shots, second>>,
         \A c \in Camera : Names(c)' = Names(c)
  PROVE  NamesInv'
<1>1. shot'[s] = v /\ \A x \in Client \ {s} : shot'[x] = shot[x]  BY DEF ShotInv
<1>2. \A c \in Camera : Unopened(c)' \subseteq Unopened(c)  BY <1>1 DEF Unopened
<1>3. ASSUME NEW x \in Client  PROVE LowerTaken(x)'
  <2> SUFFICES ASSUME HasImage(x)', NEW j \in 0 .. shot'[x].count - 1
               PROVE  <<shot'[x].second, j>> \in DOMAIN disk'[shot'[x].camera]
    BY DEF LowerTaken, Names
  <2>1. CASE x = s
    <3>1. v.pc \in {"look", "open", "write"}  BY <1>1, <2>1 DEF HasImage
    <3>2. v.camera \in Camera /\ <<v.second, j>> \in Names(v.camera)
      BY <1>1, <2>1, <3>1, ShotFacts
    <3>3. <<v.second, j>> \in DOMAIN disk'[v.camera]  BY <3>2 DEF Names
    <3> QED  BY <1>1, <2>1, <3>3
  <2>2. CASE x # s
    <3>1. HasImage(x) /\ shot'[x] = shot[x]  BY <1>1, <2>2 DEF HasImage
    <3>2. <<shot[x].second, j>> \in Names(shot[x].camera)
      BY <3>1 DEF NamesInv, LowerTaken
    <3>3. shot[x].camera \in Camera  BY <3>1, ShotFacts DEF HasImage, ShotInv
    <3>4. <<shot[x].second, j>> \in DOMAIN disk'[shot[x].camera]  BY <3>2, <3>3 DEF Names
    <3> QED  BY <3>1, <3>4
  <2> QED  BY <2>1, <2>2
<1>4. /\ manager' \in {"free", "poisoned"} /\ second' \in 0 .. MaxSecond /\ second <= second'
      /\ shots' = shots
  BY IpCameraAssumption DEF NamesInv
<1> QED  BY <1>2, <1>3, <1>4, NoNewNameKeeps

(* One image is handed out.                                                 *)
LEMMA GetBytesKeepsNames ==
  ASSUME IpCameraInv, NamesInv, NEW s \in Client, GetBytes(s), UNCHANGED memory
  PROVE  NamesInv'
<1>1. ShotInv /\ shot[s] \in Shot /\ shot[s].pc = "get" /\ shot[s].camera \in Camera
  BY ShotFacts DEF IpCameraInv, ShotInv, GetBytes
<1>2. UNCHANGED <<disk, second, manager>>  BY DEF GetBytes, memory
<1>3. \A c \in Camera : Names(c)' = Names(c)  BY <1>2 DEF Names
<1>4. CASE EndShot(s) /\ UNCHANGED <<shots, rivals>>
  BY <1>1, <1>2, <1>3, <1>4, ShotFacts, OneShotKeeps DEF EndShot
<1>5. CASE /\ shots < MaxShots /\ shots' = shots + 1
           /\ shot' = [shot EXCEPT ![s] = [pc |-> "look", camera |-> shot[s].camera,
                                           second |-> second, count |-> 0, image |-> shots']]
  <2> DEFINE v == [pc |-> "look", camera |-> shot[s].camera,
                   second |-> second, count |-> 0, image |-> shots']
  <2>1. /\ shot'[s].pc = "look" /\ shot'[s].camera = shot[s].camera /\ shot'[s].count = 0
        /\ \A x \in Client \ {s} : shot'[x] = shot[x]
    BY <1>1, <1>5 DEF ShotInv
  <2>2. ASSUME NEW x \in Client  PROVE LowerTaken(x)'
    <3> SUFFICES ASSUME HasImage(x)', NEW j \in 0 .. shot'[x].count - 1
                 PROVE  <<shot'[x].second, j>> \in DOMAIN disk'[shot'[x].camera]
      BY DEF LowerTaken, Names
    <3>1. x # s  BY <2>1
    <3>2. HasImage(x) /\ shot'[x] = shot[x]  BY <2>1, <3>1 DEF HasImage
    <3>3. <<shot[x].second, j>> \in Names(shot[x].camera)
      BY <3>2 DEF NamesInv, LowerTaken
    <3> QED  BY <1>2, <3>2, <3>3 DEF Names
  <2>3. ASSUME NEW c \in Camera  PROVE FewFiles(c)'
    <3>1. FewFiles(c)  BY DEF NamesInv
    <3>2. IsFiniteSet(Names(c)) /\ IsFiniteSet(Unopened(c))  BY <3>1 DEF FewFiles
    <3>3. Unopened(c)' \subseteq Unopened(c) \cup {s}  BY <2>1 DEF Unopened
    <3>4. /\ IsFiniteSet(Unopened(c) \cup {s})
          /\ Cardinality(Unopened(c) \cup {s}) <= Cardinality(Unopened(c)) + 1
      <4>1. /\ IsFiniteSet(Unopened(c) \cup {s})
            /\ Cardinality(Unopened(c) \cup {s})
                 = IF s \in Unopened(c) THEN Cardinality(Unopened(c))
                   ELSE Cardinality(Unopened(c)) + 1
        BY <3>2, FS_AddElement
      <4>2. Cardinality(Unopened(c)) \in Nat  BY <3>2, FS_CardinalityType
      <4> QED  BY <4>1, <4>2
    <3>5. /\ IsFiniteSet(Unopened(c)')
          /\ Cardinality(Unopened(c)') <= Cardinality(Unopened(c) \cup {s})
      BY <3>3, <3>4, FS_Subset
    <3>6. /\ Cardinality(Names(c)) \in Nat /\ Cardinality(Unopened(c)) \in Nat
          /\ Cardinality(Unopened(c)') \in Nat /\ Cardinality(Unopened(c) \cup {s}) \in Nat
      BY <3>2, <3>4, <3>5, FS_CardinalityType
    <3>7. Cardinality(Names(c)) + Cardinality(Unopened(c)) <= shots  BY <3>1 DEF FewFiles
    <3>8. shots \in Nat /\ shots' = shots + 1  BY <1>1, <1>5 DEF ShotInv
    <3>9. Cardinality(Names(c)) + Cardinality(Unopened(c)') <= shots'
      BY <3>4, <3>5, <3>6, <3>7, <3>8
    <3>10. Names(c)' = Names(c)  BY <1>3
    <3> QED  BY <3>2, <3>5, <3>9, <3>10 DEF FewFiles
  <2>4. shots' \in 0 .. MaxShots  BY <1>5, IpCameraAssumption DEF NamesInv
  <2>5. \A c \in Camera : \A n \in Names(c)' : n[1] <= second' /\ n[2] <= MaxShots
    BY <1>2, <1>3 DEF NamesInv
  <2> QED  BY <1>2, <2>2, <2>3, <2>4, <2>5 DEF NamesInv
<1> QED  BY <1>4, <1>5 DEF GetBytes

LEMMA LookKeepsNames ==
  ASSUME IpCameraInv, NamesInv, NEW s \in Client, Look(s), UNCHANGED memory
  PROVE  NamesInv'
<1>1. ShotInv /\ shot[s] \in Shot /\ shot[s].pc = "look" /\ shot[s].count \in Nat
      /\ shot[s].camera \in Camera
  BY ShotFacts DEF IpCameraInv, ShotInv, Look
<1>2. /\ UNCHANGED <<disk, second, manager, shots>>
      /\ \A c \in Camera : Names(c)' = Names(c)
  BY DEF Look, memory, Names
<1>3. \A j \in 0 .. shot[s].count - 1 : <<shot[s].second, j>> \in Names(shot[s].camera)
  BY <1>1 DEF NamesInv, LowerTaken, HasImage
<1>4. CASE FileOf(s) \in DOMAIN disk[shot[s].camera]
  <2> DEFINE v == [shot[s] EXCEPT !.count = @ + 1]
  <2>1. shot' = [shot EXCEPT ![s] = v]  BY <1>1, <1>4 DEF Look, ShotInv
  <2>2. /\ v \in Shot /\ v.pc = "look" /\ v.camera = shot[s].camera
        /\ v.second = shot[s].second /\ v.count = shot[s].count + 1
    <3>1. /\ v \in Shot /\ v.pc = "look" /\ v.camera = shot[s].camera
          /\ v.second = shot[s].second
      BY <1>1, StepFacts
    <3>2. v.count = shot[s].count + 1  BY <1>1 DEF Shot, NoVisit, Visiting
    <3> QED  BY <3>1, <3>2
  <2> HIDE DEF v
  <2>3. \A j \in 0 .. v.count - 1 : <<v.second, j>> \in Names(v.camera)
    <3> SUFFICES ASSUME NEW j \in 0 .. shot[s].count
                 PROVE  <<shot[s].second, j>> \in Names(shot[s].camera)
      BY <1>1, <2>2
    <3>1. CASE j = shot[s].count  BY <1>4, <3>1 DEF FileOf, Names
    <3>2. CASE j # shot[s].count
      <4>1. j \in 0 .. shot[s].count - 1  BY <1>1, <3>2
      <4> QED  BY <1>3, <4>1
    <3> QED  BY <3>1, <3>2
  <2> QED  BY <1>1, <1>2, <2>1, <2>2, <2>3, OneShotKeeps
<1>5. CASE FileOf(s) \notin DOMAIN disk[shot[s].camera]
  <2> DEFINE v == [shot[s] EXCEPT !.pc = "open"]
  <2>1. shot' = [shot EXCEPT ![s] = v]  BY <1>1, <1>5 DEF Look, ShotInv
  <2>2. /\ v \in Shot /\ v.pc = "open" /\ v.camera = shot[s].camera
        /\ v.second = shot[s].second /\ v.count = shot[s].count
    BY <1>1, StepFacts
  <2> HIDE DEF v
  <2> QED  BY <1>1, <1>2, <1>3, <2>1, <2>2, OneShotKeeps
<1> QED  BY <1>4, <1>5

(* A file is made for one of the images that had none.                      *)
LEMMA OpenKeepsNames ==
  ASSUME IpCameraInv, NamesInv, NEW s \in Client, Open(s), UNCHANGED memory
  PROVE  NamesInv'
<1>0. PICK camera, name : camera = shot[s].camera /\ name = FileOf(s)  OBVIOUS
<1>1. /\ ShotInv /\ shot[s] \in Shot /\ shot[s].pc = "open" /\ HasImage(s)
      /\ camera \in Camera /\ name \in Nat \X Nat
      /\ shot[s].second \in Nat /\ shot[s].count \in Nat
  BY <1>0, ShotFacts DEF IpCameraInv, ShotInv, Open, HasImage, FileOf
<1>2. UNCHANGED <<second, manager, shots>>  BY DEF Open, memory
<1>3. shot[s].second <= second /\ shot[s].count <= MaxShots
  BY <1>1, CountBounded DEF ShotInv
<1>4. \A j \in 0 .. shot[s].count - 1 : <<shot[s].second, j>> \in Names(camera)
  BY <1>0, <1>1 DEF NamesInv, LowerTaken
<1>5. CASE EndShot(s) /\ UNCHANGED disk
  <2>1. \A c \in Camera : Names(c)' = Names(c)  BY <1>5 DEF Names
  <2> QED  BY <1>1, <1>2, <1>5, <2>1, ShotFacts, OneShotKeeps DEF EndShot
<1>6. CASE Write(camera, name, {}) /\ shot' = [shot EXCEPT ![s].pc = "write"]
  <2> DEFINE v == [shot[s] EXCEPT !.pc = "write"]
  <2>1. shot' = [shot EXCEPT ![s] = v]  BY <1>1, <1>6 DEF ShotInv
  <2>2. /\ v \in Shot /\ v.pc = "write" /\ v.camera = camera
        /\ v.second = shot[s].second /\ v.count = shot[s].count
    BY <1>0, <1>1, StepFacts
  <2> HIDE DEF v
  <2>3. shot'[s] = v /\ \A x \in Client \ {s} : shot'[x] = shot[x]
    BY <1>1, <2>1 DEF ShotInv
  <2>4. /\ DOMAIN disk'[camera] = Names(camera) \cup {name}
        /\ \A c \in Camera \ {camera} : Names(c)' = Names(c)
    <3>1. disk' = [disk EXCEPT ![camera] =
                     Put(@, name, [images |-> {}, ctime |-> second])]
      BY <1>6 DEF Write
    <3>2. disk'[camera] = Put(disk[camera], name, [images |-> {}, ctime |-> second])
          /\ \A c \in Camera \ {camera} : disk'[c] = disk[c]
      BY <1>1, <3>1 DEF ShotInv
    <3>3. DOMAIN Put(disk[camera], name, [images |-> {}, ctime |-> second])
            = DOMAIN disk[camera] \cup {name}
      BY DEF Put
    <3> QED  BY <3>2, <3>3 DEF Names
  <2>5. ASSUME NEW x \in Client  PROVE LowerTaken(x)'
    <3> SUFFICES ASSUME HasImage(x)', NEW j \in 0 .. shot'[x].count - 1
                 PROVE  <<shot'[x].second, j>> \in DOMAIN disk'[shot'[x].camera]
      BY DEF LowerTaken, Names
    <3>1. CASE x = s  BY <1>1, <1>4, <2>2, <2>3, <2>4, <3>1 DEF Names
    <3>2. CASE x # s
      <4>1. HasImage(x) /\ shot'[x] = shot[x]  BY <2>3, <3>2 DEF HasImage
      <4>2. <<shot[x].second, j>> \in Names(shot[x].camera)
        BY <4>1 DEF NamesInv, LowerTaken
      <4>3. shot[x].camera \in Camera  BY <1>1, <4>1, ShotFacts DEF HasImage, ShotInv
      <4>4. DOMAIN disk[shot[x].camera] \subseteq DOMAIN disk'[shot[x].camera]
        BY <2>4, <4>3 DEF Names
      <4> QED  BY <4>1, <4>2, <4>4 DEF Names
    <3> QED  BY <3>1, <3>2
  <2>6. ASSUME NEW c \in Camera  PROVE FewFiles(c)'
    <3>1. FewFiles(c)  BY DEF NamesInv
    <3>2. IsFiniteSet(Names(c)) /\ IsFiniteSet(Unopened(c))  BY <3>1 DEF FewFiles
    <3>3. Cardinality(Names(c)) \in Nat /\ Cardinality(Unopened(c)) \in Nat
      BY <3>2, FS_CardinalityType
    <3>4. Cardinality(Names(c)) + Cardinality(Unopened(c)) <= shots  BY <3>1 DEF FewFiles
    <3>5. shots \in Nat /\ shots' = shots  BY <1>1, <1>2 DEF ShotInv
    <3>6. CASE c = camera
      <4>1. s \in Unopened(c) /\ Unopened(c)' = Unopened(c) \ {s}
        BY <1>0, <1>1, <2>2, <2>3, <3>6 DEF Unopened
      <4>2. /\ IsFiniteSet(Unopened(c)')
            /\ Cardinality(Unopened(c)') = Cardinality(Unopened(c)) - 1
        <5>1. /\ IsFiniteSet(Unopened(c) \ {s})
              /\ Cardinality(Unopened(c) \ {s})
                   = IF s \in Unopened(c) THEN Cardinality(Unopened(c)) - 1
                     ELSE Cardinality(Unopened(c))
          BY <3>2, FS_RemoveElement
        <5> QED  BY <4>1, <5>1
      <4>3. /\ IsFiniteSet(Names(c)')
            /\ Cardinality(Names(c)') \in {Cardinality(Names(c)), Cardinality(Names(c)) + 1}
        <5>1. /\ IsFiniteSet(Names(c) \cup {name})
              /\ Cardinality(Names(c) \cup {name})
                   = IF name \in Names(c) THEN Cardinality(Names(c))
                     ELSE Cardinality(Names(c)) + 1
          BY <3>2, FS_AddElement
        <5>2. Names(c)' = Names(c) \cup {name}  BY <2>4, <3>6 DEF Names
        <5> QED  BY <5>1, <5>2
      <4>4. Cardinality(Names(c)') + Cardinality(Unopened(c)') <= shots'
        BY <3>3, <3>4, <3>5, <4>2, <4>3
      <4> QED  BY <4>2, <4>3, <4>4 DEF FewFiles
    <3>7. CASE c # camera
      <4>1. Unopened(c)' = Unopened(c)  BY <1>0, <1>1, <2>2, <2>3, <3>7 DEF Unopened
      <4>2. Names(c)' = Names(c)  BY <2>4, <3>7
      <4> QED  BY <3>2, <3>4, <3>5, <4>1, <4>2 DEF FewFiles
    <3> QED  BY <3>6, <3>7
  <2>7. ASSUME NEW c \in Camera, NEW n \in Names(c)'
        PROVE  n[1] <= second' /\ n[2] <= MaxShots
    <3>1. CASE n \in Names(c)  BY <1>2, <3>1 DEF NamesInv
    <3>2. CASE n \notin Names(c)
      <4>1. n = name  BY <2>4, <3>2 DEF Names
      <4> QED  BY <1>0, <1>2, <1>3, <4>1 DEF FileOf
    <3> QED  BY <3>1, <3>2
  <2> QED  BY <1>2, <2>5, <2>6, <2>7 DEF NamesInv
<1> QED  BY <1>0, <1>5, <1>6 DEF Open

LEMMA WriteAllKeepsNames ==
  ASSUME IpCameraInv, NamesInv, NEW s \in Client, WriteAll(s), UNCHANGED memory
  PROVE  NamesInv'
<1> DEFINE camera == shot[s].camera
<1>1. /\ ShotInv /\ shot[s] \in Shot /\ camera \in Camera
      /\ FileOf(s) \in Names(camera)
  BY ShotFacts DEF IpCameraInv, ShotInv, FilesInv, WriteAll, Names
<1>2. UNCHANGED <<second, manager, shots>> /\ EndShot(s)  BY DEF WriteAll, memory
<1>3. \A c \in Camera : Names(c)' = Names(c)
  <2>1. CASE UNCHANGED disk  BY <2>1 DEF Names
  <2>2. ASSUME NEW images, Write(camera, FileOf(s), images)
        PROVE  \A c \in Camera : Names(c)' = Names(c)
    <3>1. disk' = [disk EXCEPT ![camera] =
                     Put(@, FileOf(s), [images |-> images, ctime |-> second])]
      BY <2>2 DEF Write
    <3>2. disk'[camera] = Put(disk[camera], FileOf(s), [images |-> images, ctime |-> second])
          /\ \A c \in Camera \ {camera} : disk'[c] = disk[c]
      BY <1>1, <3>1 DEF ShotInv
    <3>3. DOMAIN Put(disk[camera], FileOf(s), [images |-> images, ctime |-> second])
            = DOMAIN disk[camera] \cup {FileOf(s)}
      BY DEF Put
    <3> QED  BY <1>1, <3>2, <3>3 DEF Names
  <2> QED  BY <2>1, <2>2 DEF WriteAll
<1> QED  BY <1>1, <1>2, <1>3, ShotFacts, OneShotKeeps DEF EndShot

LEMMA ShotNextKeepsNames ==
  ASSUME IpCameraInv, NamesInv, ShotNext, UNCHANGED memory
  PROVE  NamesInv'
<1>0. ShotInv /\ manager' = manager  BY DEF IpCameraInv, memory
<1>1. ASSUME NEW s \in Client, NEW c \in Camera, AskSnapshot(s, c)
      PROVE  NamesInv'
  <2>1. Visiting("get", c) \in Shot /\ Visiting("get", c).pc = "get"
    BY DEF Shot, Visiting
  <2>2. UNCHANGED <<disk, second, shots>>  BY <1>1 DEF AskSnapshot
  <2>3. \A x \in Camera : Names(x)' = Names(x)  BY <2>2 DEF Names
  <2> QED  BY <1>0, <1>1, <2>1, <2>2, <2>3, OneShotKeeps DEF AskSnapshot
<1>2. CASE SecondPasses
  <2>1. /\ second' = second + 1 /\ second < MaxSecond
        /\ UNCHANGED <<shot, disk, shots>>
    BY <1>2 DEF SecondPasses
  <2>2. second' \in 0 .. MaxSecond /\ second <= second'
    BY <2>1, IpCameraAssumption DEF NamesInv
  <2>3. \A c \in Camera : Unopened(c)' \subseteq Unopened(c) /\ Names(c)' = Names(c)
    BY <2>1 DEF Unopened, Names
  <2>4. \A s \in Client : LowerTaken(s)'  BY <2>1 DEF NamesInv, LowerTaken, HasImage, Names
  <2>5. manager' \in {"free", "poisoned"}  BY <1>0 DEF NamesInv
  <2> QED  BY <1>0, <2>1, <2>2, <2>3, <2>4, <2>5, NoNewNameKeeps
<1> QED
  BY <1>1, <1>2, GetBytesKeepsNames, LookKeepsNames, OpenKeepsNames, WriteAllKeepsNames
  DEF ShotNext

LEMMA NamesInvHolds == IpCameraSpec => []NamesInv
<1>1. IpCameraInit => NamesInv
  <2> SUFFICES ASSUME IpCameraInit  PROVE NamesInv
    OBVIOUS
  <2>1. \A s \in Client : shot[s].pc = "none"  BY ShotFacts DEF IpCameraInit
  <2>2. \A c \in Camera : Names(c) = {} /\ Unopened(c) = {}
    BY <2>1 DEF IpCameraInit, Names, Unopened, EmptyMap
  <2>3. \A c \in Camera : FewFiles(c)
    <3>1. IsFiniteSet({}) /\ Cardinality({}) = 0  BY FS_EmptySet
    <3> QED  BY <2>2, <3>1 DEF FewFiles, IpCameraInit
  <2>4. \A s \in Client : LowerTaken(s)  BY <2>1 DEF LowerTaken, HasImage
  <2> QED  BY <2>2, <2>3, <2>4, IpCameraAssumption DEF IpCameraInit, NamesInv
<1>2. IpCameraInv /\ NamesInv /\ [IpCameraNext]_ipCameraVars => NamesInv'
  <2> SUFFICES ASSUME IpCameraInv, NamesInv, [IpCameraNext]_ipCameraVars  PROVE NamesInv'
    OBVIOUS
  <2>0. ShotInv  BY DEF IpCameraInv
  <2>1. ASSUME UNCHANGED <<disk, second, shots>>, manager' \in {"free", "poisoned"},
               shot' = shot \/ \A s \in Client : shot'[s].pc = "none"
        PROVE  NamesInv'
    <3>1. second' \in 0 .. MaxSecond /\ second <= second' /\ shots' = shots
      BY <2>1, IpCameraAssumption DEF NamesInv
    <3>2. \A c \in Camera : Unopened(c)' \subseteq Unopened(c) /\ Names(c)' = Names(c)
      BY <2>1 DEF Unopened, Names
    <3>3. \A s \in Client : LowerTaken(s)'
      BY <2>1 DEF NamesInv, LowerTaken, HasImage, Names
    <3> QED  BY <2>0, <2>1, <3>1, <3>2, <3>3, NoNewNameKeeps
  <2>2. CASE VisitNext /\ UNCHANGED snapshots
    <3>1. manager' \in {"free", "poisoned"}
      BY <2>2 DEF VisitNext, Advertise, Listen, PanicListening, AddChannel, MakeCamera, NamesInv
    <3> QED  BY <2>1, <2>2, <3>1 DEF snapshots
  <2>3. CASE ShotNext /\ UNCHANGED memory  BY <2>3, ShotNextKeepsNames
  <2>4. CASE RestartCameras
    <3>1. \A s \in Client : shot'[s].pc = "none"  BY <2>4, ShotFacts DEF RestartCameras
    <3> QED  BY <2>1, <2>4, <3>1 DEF RestartCameras
  <2>5. CASE UNCHANGED ipCameraVars
    BY <2>1, <2>5 DEF ipCameraVars, memory, snapshots, NamesInv
  <2> QED  BY <2>2, <2>3, <2>4, <2>5 DEF IpCameraNext
<1> QED  BY <1>1, <1>2, IpCameraSpecInv, PTL DEF IpCameraSpec

(* The adapter of the cameras keeps its types: in particular the search for *)
(* the name of a snapshot ends, for the names that are taken are of other   *)
(* images.                                                                  *)
THEOREM IpCameraTypeCorrect == IpCameraSpec => []IpCameraTypeOK
<1>1. IpCameraInv /\ NamesInv => IpCameraTypeOK
  <2> SUFFICES ASSUME IpCameraInv, NamesInv  PROVE IpCameraTypeOK
    OBVIOUS
  <2>1. \A t \in Visit : visit[t].pc \in {"none", "waiting", "adding"}
    BY VisitFacts DEF IpCameraInv, VisitInv
  <2>2. \A s \in Client : shot[s].pc \in {"none", "get", "look", "open", "write"}
    BY ShotFacts DEF IpCameraInv, ShotInv
  <2>3. ASSUME NEW c \in Camera, NEW n \in DOMAIN disk[c]
        PROVE  n \in (0 .. second) \X (0 .. MaxShots)
    <3>1. n \in Nat \X Nat  BY FileFacts DEF IpCameraInv, ShotInv
    <3>2. n[1] <= second /\ n[2] <= MaxShots  BY DEF NamesInv, Names
    <3>3. n = <<n[1], n[2]>> /\ n[1] \in Nat /\ n[2] \in Nat  BY <3>1
    <3>4. n[1] \in 0 .. second /\ n[2] \in 0 .. MaxShots
      BY <3>2, <3>3, IpCameraAssumption DEF NamesInv
    <3> QED  BY <3>3, <3>4
  <2> QED  BY <2>1, <2>2, <2>3 DEF IpCameraTypeOK, IpCameraInv, VisitInv, NamesInv
<1> QED  BY <1>1, IpCameraSpecInv, NamesInvHolds, PTL

-----------------------------------------------------------------------------
(* The database of WebPush.  NotifiedAsAsked says how the last call of     *)
(* `set_resources` of a user went: the inductive invariant follows it from  *)
(* statement to statement, while calls of others come between.              *)

Calls ==
  {Free}
    \cup [op : {"resources"}, user : WebUser, todo : Seq(Resource), pc : {"start", "insert"}]
    \cup [op : {"subscribe"}, user : WebUser, todo : Seq(PushUri), pc : {"start"}]
    \cup [op : {"unsubscribe"}, todo : Seq(PushUri)]
Escaped == {Escape(r) : r \in Resource}
Wishes ==
  [list : Seq(Resource), before : Seq(Escaped), went : {"well", "begun", "overlapped"}]

RowsTyped ==
  /\ resources \in [WebUser -> Seq(Escaped)]
  /\ calling \in [Caller -> Calls]
  /\ wish \in [WebUser -> Wishes]

(* The rows of u are the beginning of the list it set.                      *)
Begins(rows, list) ==
  /\ Len(rows) <= Len(list)
  /\ \A i \in 1 .. Len(rows) : rows[i] = Escape(list[i])

(* What is left to do is the rest of it.                                    *)
Rest(rows, todo, list) ==
  /\ Len(list) = Len(rows) + Len(todo)
  /\ \A i \in 1 .. Len(todo) : todo[i] = list[Len(rows) + i]

(* A call that no other of its user overlaps leaves the old rows or the     *)
(* beginning of the new ones, and has the rest to do.                       *)
WellSet(u) ==
  wish[u].went = "well" =>
    /\ \A c \in Caller : ~SetsResourcesOf(c, u)
    /\ Begins(resources[u], wish[u].list) /\ Len(resources[u]) = Len(wish[u].list)
BegunToSet(u) ==
  wish[u].went = "begun" =>
    /\ resources[u] = wish[u].before \/ Begins(resources[u], wish[u].list)
    /\ \A c, d \in Caller : SetsResourcesOf(c, u) /\ SetsResourcesOf(d, u) => c = d
    /\ \A c \in Caller :
         SetsResourcesOf(c, u) =>
           /\ calling[c].pc = "start" =>
                calling[c].todo = wish[u].list /\ resources[u] = wish[u].before
           /\ calling[c].pc = "insert" =>
                /\ Begins(resources[u], wish[u].list)
                /\ Rest(resources[u], calling[c].todo, wish[u].list)
SetInv == \A u \in WebUser : WellSet(u) /\ BegunToSet(u)

WebPushInv == RowsTyped /\ SetInv

LEMMA EscapeFacts ==
  /\ Resource \in SUBSET Resource
  /\ \A r, s \in Resource : Escape(r) = Escape(s) => r = s
  /\ \A list \in Seq(Resource) :
       /\ EscapeAll(list) \in Seq(Escaped) /\ Len(EscapeAll(list)) = Len(list)
       /\ \A i \in 1 .. Len(list) : EscapeAll(list)[i] = Escape(list[i])
<1>1. ASSUME NEW r \in Resource, NEW s \in Resource, Escape(r) = Escape(s)
      PROVE  r = s
  <2>1. /\ r = [word |-> r.word, quotes |-> r.quotes] /\ r.quotes \in Nat
        /\ s = [word |-> s.word, quotes |-> s.quotes] /\ s.quotes \in Nat
    BY WebPushAssumption, Zenon
  <2>2. Escape(r).word = r.word /\ Escape(r).quotes = 2 * r.quotes
    BY <2>1 DEF Escape
  <2>3. Escape(s).word = s.word /\ Escape(s).quotes = 2 * s.quotes
    BY <2>1 DEF Escape
  <2>4. r.word = s.word /\ 2 * r.quotes = 2 * s.quotes  BY <1>1, <2>2, <2>3
  <2>5. r.quotes = s.quotes  BY <2>1, <2>4
  <2> QED  BY <2>1, <2>4, <2>5, Zenon
<1>2. ASSUME NEW list \in Seq(Resource)
      PROVE  /\ EscapeAll(list) \in Seq(Escaped) /\ Len(EscapeAll(list)) = Len(list)
             /\ \A i \in 1 .. Len(list) : EscapeAll(list)[i] = Escape(list[i])
  <2>1. DOMAIN list = 1 .. Len(list) /\ Len(list) \in Nat /\ \A i \in 1 .. Len(list) : list[i] \in Resource
    BY <1>2
  <2>2. \A i \in 1 .. Len(list) : Escape(list[i]) \in Escaped  BY <2>1 DEF Escaped
  <2>3. EscapeAll(list) = [i \in 1 .. Len(list) |-> Escape(list[i])]  BY <2>1 DEF EscapeAll
  <2> HIDE DEF EscapeAll, Escaped
  <2> QED  BY <2>1, <2>2, <2>3
<1> QED  BY <1>1, <1>2

LEMMA RequestFacts ==
  /\ Free \in Calls /\ Free.op = "none"
  /\ \A k \in Calls :
       /\ k.op = "none" => k = Free
       /\ k.op = "resources" =>
            /\ k.user \in WebUser /\ k.todo \in Seq(Resource) /\ k.pc \in {"start", "insert"}
            /\ k \in [op : {"resources"}, user : WebUser, todo : Seq(Resource),
                      pc : {"start", "insert"}]
       /\ k.op \in {"subscribe", "unsubscribe"} /\ k.todo # <<>> =>
            [k EXCEPT !.todo = Tail(@)] \in Calls /\ [k EXCEPT !.todo = Tail(@)].op = k.op
<1>1. ASSUME NEW k \in Calls, k.op \in {"subscribe", "unsubscribe"}, k.todo # <<>>
      PROVE  [k EXCEPT !.todo = Tail(@)] \in Calls /\ [k EXCEPT !.todo = Tail(@)].op = k.op
  <2>1. CASE k \in [op : {"subscribe"}, user : WebUser, todo : Seq(PushUri), pc : {"start"}]
    <3>1. Tail(k.todo) \in Seq(PushUri)  BY <1>1, <2>1
    <3> QED  BY <2>1, <3>1 DEF Calls
  <2>2. CASE k \in [op : {"unsubscribe"}, todo : Seq(PushUri)]
    <3>1. Tail(k.todo) \in Seq(PushUri)  BY <1>1, <2>2
    <3> QED  BY <2>2, <3>1 DEF Calls
  <2> QED  BY <1>1, <2>1, <2>2 DEF Calls, Free
<1>2. Free \in Calls /\ Free.op = "none"  BY DEF Calls, Free
<1>3. ASSUME NEW k \in Calls
      PROVE  /\ k.op = "none" => k = Free
             /\ k.op = "resources" =>
                  /\ k.user \in WebUser /\ k.todo \in Seq(Resource) /\ k.pc \in {"start", "insert"}
                  /\ k \in [op : {"resources"}, user : WebUser, todo : Seq(Resource),
                            pc : {"start", "insert"}]
  BY <1>3 DEF Calls, Free
<1> QED  BY <1>1, <1>2, <1>3

LEMMA WishFacts ==
  \A w \in Wishes :
    /\ w.list \in Seq(Resource) /\ w.before \in Seq(Escaped)
    /\ w.went \in {"well", "begun", "overlapped"}
  BY DEF Wishes

(* The rows of u, its last list and the call that sets them stay.           *)
LEMMA OthersKeep ==
  ASSUME WebPushInv, NEW u \in WebUser,
         resources'[u] = resources[u], wish'[u] = wish[u],
         \A c \in Caller : SetsResourcesOf(c, u)' => calling'[c] = calling[c]
  PROVE  WellSet(u)' /\ BegunToSet(u)'
<1>1. \A c \in Caller : SetsResourcesOf(c, u)' => SetsResourcesOf(c, u)
  BY DEF SetsResourcesOf
<1>2. WellSet(u) /\ BegunToSet(u)  BY DEF WebPushInv, SetInv
<1>3. WellSet(u)'  BY <1>1, <1>2 DEF WellSet
<1>4. BegunToSet(u)'  BY <1>1, <1>2 DEF BegunToSet
<1> QED  BY <1>3, <1>4

(* No call begins or goes on to set resources.                              *)
LEMMA NoSettingKeeps ==
  ASSUME WebPushInv, calling' \in [Caller -> Calls], UNCHANGED <<resources, wish>>,
         \A c \in Caller : calling'[c].op = "resources" => calling'[c] = calling[c]
  PROVE  WebPushInv'
<1>1. RowsTyped'  BY DEF WebPushInv, RowsTyped
<1>2. \A u \in WebUser, c \in Caller : SetsResourcesOf(c, u)' => calling'[c] = calling[c]
  BY DEF SetsResourcesOf
<1>3. \A u \in WebUser : resources'[u] = resources[u] /\ wish'[u] = wish[u]
  OBVIOUS
<1>4. SetInv'  BY <1>2, <1>3, OthersKeep DEF SetInv
<1> QED  BY <1>1, <1>4 DEF WebPushInv

LEMMA CallSetResourcesKeeps ==
  ASSUME WebPushInv, NEW c \in Caller, NEW u \in WebUser, NEW list \in ResourceLists[u],
         CallSetResources(c, u, list)
  PROVE  WebPushInv'
<1> DEFINE k == InCall("resources", u, list)
           w == IF SetBySome(u) THEN [list |-> <<>>, before |-> <<>>, went |-> "overlapped"]
                ELSE [list |-> list, before |-> resources[u], went |-> "begun"]
<1>1. /\ calling[c] = Free /\ calling' = [calling EXCEPT ![c] = k]
      /\ wish' = [wish EXCEPT ![u] = w] /\ resources' = resources
  BY DEF CallSetResources
<1>2. list \in Seq(Resource)  BY WebPushAssumption
<1>3. k \in Calls /\ k.op = "resources" /\ k.user = u /\ k.todo = list /\ k.pc = "start"
  BY <1>2 DEF Calls, InCall
<1>4. w \in Wishes /\ w.went # "well"
      /\ (w.went = "begun" => /\ w.list = list /\ w.before = resources[u] /\ ~SetBySome(u))
  BY <1>2 DEF Wishes, WebPushInv, RowsTyped
<1> HIDE DEF k, w
<1>5. /\ calling' \in [Caller -> Calls] /\ calling'[c] = k
      /\ \A x \in Caller \ {c} : calling'[x] = calling[x]
      /\ wish' \in [WebUser -> Wishes] /\ wish'[u] = w
      /\ \A x \in WebUser \ {u} : wish'[x] = wish[x]
  BY <1>1, <1>3, <1>4 DEF WebPushInv, RowsTyped
<1>6. RowsTyped'  BY <1>1, <1>5 DEF WebPushInv, RowsTyped
<1>7. SetInv'
  <2> SUFFICES ASSUME NEW x \in WebUser  PROVE WellSet(x)' /\ BegunToSet(x)'
    BY DEF SetInv
  <2>1. CASE x = u
    <3>1. w.went = "begun" => \A d \in Caller : SetsResourcesOf(d, u)' => d = c
      BY <1>4, <1>5 DEF SetBySome, SetsResourcesOf
    <3>2. WellSet(u)'  BY <1>4, <1>5 DEF WellSet
    <3>3. BegunToSet(u)'  BY <1>1, <1>3, <1>4, <1>5, <3>1 DEF BegunToSet
    <3> QED  BY <2>1, <3>2, <3>3
  <2>2. CASE x # u
    <3>1. \A d \in Caller : SetsResourcesOf(d, x)' => calling'[d] = calling[d]
      BY <1>3, <1>5, <2>2 DEF SetsResourcesOf
    <3>2. resources'[x] = resources[x] /\ wish'[x] = wish[x]  BY <1>1, <1>5, <2>2
    <3> QED  BY <3>1, <3>2, OthersKeep
  <2> QED  BY <2>1, <2>2
<1> QED  BY <1>6, <1>7 DEF WebPushInv

(* A caller is in a call for one user, or in none.                          *)
LEMMA SettingFacts ==
  ASSUME WebPushInv, NEW c \in Caller, calling[c].op = "resources"
  PROVE  /\ calling[c].user \in WebUser /\ calling[c].todo \in Seq(Resource)
         /\ calling[c].pc \in {"start", "insert"}
         /\ SetsResourcesOf(c, calling[c].user)
         /\ wish[calling[c].user].went # "well"
<1>1. calling[c] \in Calls  BY DEF WebPushInv, RowsTyped
<1>2. /\ calling[c].user \in WebUser /\ calling[c].todo \in Seq(Resource)
      /\ calling[c].pc \in {"start", "insert"}
  BY <1>1, RequestFacts, Zenon
<1>3. SetsResourcesOf(c, calling[c].user)  BY DEF SetsResourcesOf
<1>4. wish[calling[c].user].went # "well"
  BY <1>2, <1>3 DEF WebPushInv, SetInv, WellSet
<1> QED  BY <1>2, <1>3, <1>4

LEMMA DeleteResourcesKeeps ==
  ASSUME WebPushInv, NEW c \in Caller, DeleteResources(c)
  PROVE  WebPushInv'
<1>0. PICK u \in WebUser : u = calling[c].user /\ calling[c].op = "resources"
  BY SettingFacts DEF DeleteResources
<1> DEFINE k == [calling[c] EXCEPT !.pc = "insert"]
           w == [wish[u] EXCEPT !.before = <<>>]
<1>1. /\ calling[c].op = "resources" /\ calling[c].pc = "start"
      /\ resources' = [resources EXCEPT ![u] = <<>>]
      /\ calling' = [calling EXCEPT ![c] = k]
      /\ wish' = [wish EXCEPT ![u] = w]
  BY <1>0 DEF DeleteResources
<1>2. /\ u \in WebUser /\ calling[c].todo \in Seq(Resource) /\ SetsResourcesOf(c, u)
      /\ wish[u].went # "well"
  BY <1>0, <1>1, SettingFacts
<1>3. k \in Calls /\ k.op = "resources" /\ k.user = u /\ k.todo = calling[c].todo /\ k.pc = "insert"
  <2>1. calling[c] \in Calls  BY DEF WebPushInv, RowsTyped
  <2>2. calling[c] \in [op : {"resources"}, user : WebUser, todo : Seq(Resource),
                        pc : {"start", "insert"}]
    BY <1>1, <2>1, RequestFacts, Zenon
  <2> QED  BY <1>0, <2>2 DEF Calls
<1>4. w \in Wishes /\ w.went = wish[u].went /\ w.list = wish[u].list /\ w.before = <<>>
  <2>1. wish[u] \in Wishes  BY DEF WebPushInv, RowsTyped
  <2>2. wish[u] \in [list : Seq(Resource), before : Seq(Escaped),
                      went : {"well", "begun", "overlapped"}]
    BY <2>1 DEF Wishes
  <2>3. <<>> \in Seq(Escaped)  OBVIOUS
  <2> QED  BY <2>2, <2>3 DEF Wishes
<1> HIDE DEF k, w
<1>5. /\ calling' \in [Caller -> Calls] /\ calling'[c] = k
      /\ \A x \in Caller \ {c} : calling'[x] = calling[x]
      /\ wish' \in [WebUser -> Wishes] /\ wish'[u] = w
      /\ \A x \in WebUser \ {u} : wish'[x] = wish[x]
      /\ resources' \in [WebUser -> Seq(Escaped)] /\ resources'[u] = <<>>
      /\ \A x \in WebUser \ {u} : resources'[x] = resources[x]
  BY <1>1, <1>2, <1>3, <1>4 DEF WebPushInv, RowsTyped
<1>6. RowsTyped'  BY <1>5 DEF RowsTyped
<1>7. SetInv'
  <2> SUFFICES ASSUME NEW x \in WebUser  PROVE WellSet(x)' /\ BegunToSet(x)'
    BY DEF SetInv
  <2>1. CASE x = u
    <3>1. WellSet(u)'  BY <1>2, <1>4, <1>5 DEF WellSet
    <3>2. BegunToSet(u)'
      <4> SUFFICES ASSUME wish[u].went = "begun"  PROVE BegunToSet(u)'
        BY <1>4, <1>5 DEF BegunToSet
      <4>1. \A d \in Caller : SetsResourcesOf(d, u)' => d = c
        <5>1. \A d \in Caller : SetsResourcesOf(d, u) => d = c
          BY <1>2 DEF WebPushInv, SetInv, BegunToSet
        <5> QED  BY <1>5, <5>1 DEF SetsResourcesOf
      <4>2. calling[c].todo = wish[u].list
        BY <1>1, <1>2 DEF WebPushInv, SetInv, BegunToSet
      <4>3. wish[u].list \in Seq(Resource) /\ k.todo = wish[u].list
        BY <1>2, <1>3, <4>2
      <4>4. Begins(<<>>, wish[u].list)  BY <4>3 DEF Begins
      <4>5. Rest(<<>>, k.todo, wish[u].list)  BY <4>3 DEF Rest
      <4> QED  BY <1>3, <1>4, <1>5, <4>1, <4>4, <4>5 DEF BegunToSet
    <3> QED  BY <2>1, <3>1, <3>2
  <2>2. CASE x # u
    <3>1. \A d \in Caller : SetsResourcesOf(d, x)' => calling'[d] = calling[d]
      BY <1>3, <1>5, <2>2 DEF SetsResourcesOf
    <3>2. resources'[x] = resources[x] /\ wish'[x] = wish[x]  BY <1>5, <2>2
    <3> QED  BY <3>1, <3>2, OthersKeep
  <2> QED  BY <2>1, <2>2
<1> QED  BY <1>6, <1>7 DEF WebPushInv

(* One more row, and one less to do.                                        *)
LEMMA InsertFacts ==
  ASSUME NEW rows \in Seq(Escaped), NEW todo \in Seq(Resource), NEW list \in Seq(Resource),
         todo # <<>>
  PROVE  /\ Tail(todo) \in Seq(Resource) /\ Append(rows, Escape(Head(todo))) \in Seq(Escaped)
         /\ Begins(rows, list) /\ Rest(rows, todo, list) =>
              /\ Begins(Append(rows, Escape(Head(todo))), list)
              /\ Rest(Append(rows, Escape(Head(todo))), Tail(todo), list)
<1> DEFINE more == Append(rows, Escape(Head(todo)))
<1>1. /\ Len(todo) \in Nat /\ Len(todo) > 0 /\ Head(todo) = todo[1] /\ Head(todo) \in Resource
      /\ Tail(todo) \in Seq(Resource) /\ Len(Tail(todo)) = Len(todo) - 1
      /\ \A i \in 1 .. Len(todo) - 1 : Tail(todo)[i] = todo[i + 1]
  OBVIOUS
<1>2. Escape(Head(todo)) \in Escaped  BY <1>1 DEF Escaped
<1>3. /\ more \in Seq(Escaped) /\ Len(more) = Len(rows) + 1 /\ Len(rows) \in Nat
      /\ \A i \in 1 .. Len(rows) : more[i] = rows[i]
      /\ more[Len(rows) + 1] = Escape(Head(todo))
  BY <1>2
<1>4. ASSUME Begins(rows, list), Rest(rows, todo, list)
      PROVE  Begins(more, list) /\ Rest(more, Tail(todo), list)
  <2>1. /\ Len(list) = Len(rows) + Len(todo) /\ todo[1] = list[Len(rows) + 1]
        /\ \A i \in 1 .. Len(todo) : todo[i] = list[Len(rows) + i]
    BY <1>1, <1>4 DEF Rest
  <2>2. Len(more) <= Len(list)  BY <1>1, <1>3, <2>1
  <2>3. ASSUME NEW i \in 1 .. Len(more)  PROVE more[i] = Escape(list[i])
    <3>1. CASE i \in 1 .. Len(rows)  BY <1>3, <1>4, <3>1 DEF Begins
    <3>2. CASE i = Len(rows) + 1
      <4>1. more[i] = Escape(todo[1])  BY <1>1, <1>3, <3>2
      <4> QED  BY <2>1, <3>2, <4>1
    <3>3. i \in 1 .. Len(rows) \/ i = Len(rows) + 1  BY <1>3
    <3> QED  BY <3>1, <3>2, <3>3
  <2>4. ASSUME NEW i \in 1 .. Len(Tail(todo))  PROVE Tail(todo)[i] = list[Len(more) + i]
    <3>1. i \in 1 .. Len(todo) - 1 /\ i + 1 \in 1 .. Len(todo)  BY <1>1
    <3>2. Tail(todo)[i] = todo[i + 1] /\ todo[i + 1] = list[Len(rows) + (i + 1)]
      BY <1>1, <2>1, <3>1
    <3>3. Len(rows) + (i + 1) = Len(more) + i  BY <1>3, <3>1
    <3> QED  BY <3>2, <3>3
  <2>5. Len(list) = Len(more) + Len(Tail(todo))  BY <1>1, <1>3, <2>1
  <2> HIDE DEF more
  <2>6. Begins(more, list)  BY <2>2, <2>3 DEF Begins
  <2>7. Rest(more, Tail(todo), list)  BY <2>4, <2>5 DEF Rest
  <2> QED  BY <2>6, <2>7
<1> QED  BY <1>1, <1>3, <1>4

LEMMA InsertResourceKeeps ==
  ASSUME WebPushInv, NEW c \in Caller, InsertResource(c)
  PROVE  WebPushInv'
<1>0. PICK u \in WebUser : u = calling[c].user /\ calling[c].op = "resources"
  BY SettingFacts DEF InsertResource
<1> DEFINE todo == calling[c].todo
           k == [calling[c] EXCEPT !.todo = Tail(@)]
           rows == Append(resources[u], Escape(Head(todo)))
<1>1. /\ calling[c].op = "resources" /\ calling[c].pc = "insert" /\ todo # <<>>
      /\ resources' = [resources EXCEPT ![u] = rows]
      /\ calling' = [calling EXCEPT ![c] = k]
      /\ wish' = wish
  BY <1>0 DEF InsertResource
<1>2. /\ u \in WebUser /\ todo \in Seq(Resource) /\ SetsResourcesOf(c, u)
      /\ wish[u].went # "well" /\ resources[u] \in Seq(Escaped)
      /\ wish[u].list \in Seq(Resource)
  BY <1>0, <1>1, SettingFacts, WishFacts DEF WebPushInv, RowsTyped
<1>3. /\ Tail(todo) \in Seq(Resource) /\ rows \in Seq(Escaped)
      /\ Begins(resources[u], wish[u].list) /\ Rest(resources[u], todo, wish[u].list) =>
           Begins(rows, wish[u].list) /\ Rest(rows, Tail(todo), wish[u].list)
  BY <1>1, <1>2, InsertFacts
<1>4. k \in Calls /\ k.op = "resources" /\ k.user = u /\ k.todo = Tail(todo) /\ k.pc = "insert"
  <2>1. calling[c] \in Calls  BY DEF WebPushInv, RowsTyped
  <2>2. calling[c] \in [op : {"resources"}, user : WebUser, todo : Seq(Resource),
                        pc : {"start", "insert"}]
    BY <1>1, <2>1, RequestFacts, Zenon
  <2> QED  BY <1>0, <1>1, <1>3, <2>2 DEF Calls
<1> HIDE DEF k, rows, todo
<1>5. /\ calling' \in [Caller -> Calls] /\ calling'[c] = k
      /\ \A x \in Caller \ {c} : calling'[x] = calling[x]
      /\ resources' \in [WebUser -> Seq(Escaped)] /\ resources'[u] = rows
      /\ \A x \in WebUser \ {u} : resources'[x] = resources[x]
  BY <1>1, <1>2, <1>3, <1>4 DEF WebPushInv, RowsTyped
<1>6. RowsTyped'  BY <1>1, <1>5 DEF WebPushInv, RowsTyped
<1>7. SetInv'
  <2> SUFFICES ASSUME NEW x \in WebUser  PROVE WellSet(x)' /\ BegunToSet(x)'
    BY DEF SetInv
  <2>1. CASE x = u
    <3>1. WellSet(u)'  BY <1>1, <1>2 DEF WellSet
    <3>2. BegunToSet(u)'
      <4> SUFFICES ASSUME wish[u].went = "begun"  PROVE BegunToSet(u)'
        BY <1>1 DEF BegunToSet
      <4>1. \A d \in Caller : SetsResourcesOf(d, u)' => d = c
        <5>1. \A d \in Caller : SetsResourcesOf(d, u) => d = c
          BY <1>2 DEF WebPushInv, SetInv, BegunToSet
        <5> QED  BY <1>5, <5>1 DEF SetsResourcesOf
      <4>2. Begins(resources[u], wish[u].list) /\ Rest(resources[u], todo, wish[u].list)
        BY <1>1, <1>2 DEF WebPushInv, SetInv, BegunToSet, todo
      <4>3. Begins(rows, wish[u].list) /\ Rest(rows, Tail(todo), wish[u].list)
        BY <1>3, <4>2
      <4> QED  BY <1>1, <1>4, <1>5, <4>1, <4>3 DEF BegunToSet
    <3> QED  BY <2>1, <3>1, <3>2
  <2>2. CASE x # u
    <3>1. \A d \in Caller : SetsResourcesOf(d, x)' => calling'[d] = calling[d]
      BY <1>4, <1>5, <2>2 DEF SetsResourcesOf
    <3>2. resources'[x] = resources[x] /\ wish'[x] = wish[x]  BY <1>1, <1>5, <2>2
    <3> QED  BY <3>1, <3>2, OthersKeep
  <2> QED  BY <2>1, <2>2
<1> QED  BY <1>6, <1>7 DEF WebPushInv

LEMMA ResourcesSetKeeps ==
  ASSUME WebPushInv, NEW c \in Caller, ResourcesSet(c)
  PROVE  WebPushInv'
<1>0. PICK u \in WebUser : u = calling[c].user /\ calling[c].op = "resources"
  BY SettingFacts DEF ResourcesSet
<1> DEFINE w == IF wish[u].went = "begun" THEN [wish[u] EXCEPT !.went = "well"] ELSE wish[u]
<1>1. /\ calling[c].op = "resources" /\ calling[c].pc = "insert" /\ calling[c].todo = <<>>
      /\ calling' = [calling EXCEPT ![c] = Free]
      /\ wish' = [wish EXCEPT ![u] = w] /\ resources' = resources
  BY <1>0 DEF ResourcesSet, End
<1>2. /\ u \in WebUser /\ SetsResourcesOf(c, u) /\ wish[u].went # "well"
      /\ resources[u] \in Seq(Escaped) /\ wish[u] \in Wishes
  BY <1>0, <1>1, SettingFacts DEF WebPushInv, RowsTyped
<1>3. /\ w \in Wishes /\ w.list = wish[u].list
      /\ wish[u].went = "begun" => w.went = "well"
      /\ wish[u].went # "begun" => w.went = "overlapped"
  BY <1>2 DEF Wishes
<1> HIDE DEF w
<1>4. /\ calling' \in [Caller -> Calls] /\ calling'[c] = Free
      /\ \A x \in Caller \ {c} : calling'[x] = calling[x]
      /\ wish' \in [WebUser -> Wishes] /\ wish'[u] = w
      /\ \A x \in WebUser \ {u} : wish'[x] = wish[x]
  BY <1>1, <1>2, <1>3, RequestFacts DEF WebPushInv, RowsTyped
<1>5. RowsTyped'  BY <1>1, <1>4 DEF WebPushInv, RowsTyped
<1>6. SetInv'
  <2> SUFFICES ASSUME NEW x \in WebUser  PROVE WellSet(x)' /\ BegunToSet(x)'
    BY DEF SetInv
  <2>1. CASE x = u /\ wish[u].went = "begun"
    <3>1. \A d \in Caller : ~SetsResourcesOf(d, u)'
      <4>1. \A d \in Caller : SetsResourcesOf(d, u) => d = c
        BY <1>2, <2>1 DEF WebPushInv, SetInv, BegunToSet
      <4> QED  BY <1>4, <4>1, RequestFacts DEF SetsResourcesOf
    <3>2. /\ Begins(resources[u], wish[u].list)
          /\ Rest(resources[u], calling[c].todo, wish[u].list)
      BY <1>1, <1>2, <2>1 DEF WebPushInv, SetInv, BegunToSet
    <3>3. Len(resources[u]) = Len(wish[u].list)  BY <1>1, <1>2, <3>2 DEF Rest
    <3>4. WellSet(u)'  BY <1>1, <1>3, <1>4, <3>1, <3>2, <3>3 DEF WellSet
    <3>5. BegunToSet(u)'  BY <1>3, <1>4, <2>1 DEF BegunToSet
    <3> QED  BY <2>1, <3>4, <3>5
  <2>2. CASE x = u /\ wish[u].went # "begun"
    BY <1>3, <1>4, <2>2 DEF WellSet, BegunToSet
  <2>3. CASE x # u
    <3>1. \A d \in Caller : SetsResourcesOf(d, x)' => calling'[d] = calling[d]
      BY <1>4, RequestFacts DEF SetsResourcesOf
    <3>2. resources'[x] = resources[x] /\ wish'[x] = wish[x]  BY <1>1, <1>4, <2>3
    <3> QED  BY <3>1, <3>2, OthersKeep
  <2> QED  BY <2>1, <2>2, <2>3
<1> QED  BY <1>5, <1>6 DEF WebPushInv

LEMMA WebPushNextKeeps ==
  ASSUME WebPushInv, WebPushNext
  PROVE  WebPushInv'
<1>0. calling \in [Caller -> Calls]  BY DEF WebPushInv, RowsTyped
<1>1. ASSUME NEW c \in Caller, NEW k \in Calls, k.op # "resources",
             calling' = [calling EXCEPT ![c] = k], UNCHANGED <<resources, wish>>
      PROVE  WebPushInv'
  <2>1. /\ calling' \in [Caller -> Calls]
        /\ \A x \in Caller : calling'[x].op = "resources" => calling'[x] = calling[x]
    BY <1>0, <1>1
  <2> QED  BY <1>1, <2>1, NoSettingKeeps
<1>2. ASSUME NEW c \in Caller, StatementFails(c) \/ SubscriptionsSet(c)
      PROVE  WebPushInv'
  BY <1>1, <1>2, RequestFacts DEF StatementFails, SubscriptionsSet, End
<1>3. ASSUME NEW c \in Caller, Subscribe(c) \/ Unsubscribe(c)
      PROVE  WebPushInv'
  <2>1. /\ calling[c].op \in {"subscribe", "unsubscribe"} /\ calling[c].todo # <<>>
        /\ calling' = [calling EXCEPT ![c] = [calling[c] EXCEPT !.todo = Tail(@)]]
        /\ UNCHANGED <<resources, wish>>
    BY <1>3 DEF Subscribe, Unsubscribe
  <2>2. /\ [calling[c] EXCEPT !.todo = Tail(@)] \in Calls
        /\ [calling[c] EXCEPT !.todo = Tail(@)].op = calling[c].op
    BY <1>0, <2>1, RequestFacts
  <2> QED  BY <1>1, <2>1, <2>2
<1>4. ASSUME NEW c \in Caller, NEW n \in 1 .. 2, NEW uris \in [1 .. n -> PushUri],
             (\E u \in WebUser : CallSubscribe(c, u, uris)) \/ CallUnsubscribe(c, uris)
      PROVE  WebPushInv'
  <2>1. uris \in Seq(PushUri)  OBVIOUS
  <2>2. ASSUME NEW u \in WebUser, CallSubscribe(c, u, uris)
        PROVE  WebPushInv'
    <3>1. InCall("subscribe", u, uris) \in Calls /\ InCall("subscribe", u, uris).op = "subscribe"
      BY <2>1 DEF InCall, Calls
    <3> QED  BY <1>1, <2>2, <3>1 DEF CallSubscribe
  <2>3. ASSUME CallUnsubscribe(c, uris)
        PROVE  WebPushInv'
    <3>1. [op |-> "unsubscribe", todo |-> uris] \in Calls
      BY <2>1 DEF Calls
    <3> QED  BY <1>1, <2>3, <3>1 DEF CallUnsubscribe
  <2> QED  BY <1>4, <2>2, <2>3
<1>5. CASE RestartWebPush
  <2>1. /\ calling' \in [Caller -> Calls] /\ \A x \in Caller : calling'[x].op # "resources"
        /\ UNCHANGED <<resources, wish>>
    BY <1>5, RequestFacts DEF RestartWebPush
  <2> QED  BY <2>1, NoSettingKeeps
<1>6. CASE \E c \in Caller : \E uris \in UNION {[1 .. n -> PushUri] : n \in 1 .. 2} :
             (\E u \in WebUser : CallSubscribe(c, u, uris)) \/ CallUnsubscribe(c, uris)
  BY <1>4, <1>6
<1>7. CASE \E c \in Caller, u \in WebUser : \E list \in ResourceLists[u] : CallSetResources(c, u, list)
  BY <1>7, CallSetResourcesKeeps
<1>8. CASE \E c \in Caller : DeleteResources(c) \/ InsertResource(c) \/ ResourcesSet(c)
  BY <1>8, DeleteResourcesKeeps, InsertResourceKeeps, ResourcesSetKeeps
<1> QED  BY <1>2, <1>3, <1>5, <1>6, <1>7, <1>8 DEF WebPushNext

LEMMA WebPushSpecInv == WebPushSpec => []WebPushInv
<1>1. WebPushInit => WebPushInv
  <2> SUFFICES ASSUME WebPushInit  PROVE WebPushInv
    OBVIOUS
  <2>1. /\ \A u \in WebUser : resources[u] = <<>> /\ wish[u].went = "well" /\ wish[u].list = <<>>
        /\ \A c \in Caller : calling[c] = Free
    BY DEF WebPushInit
  <2>2. RowsTyped
    <3>1. /\ <<>> \in Seq(Escaped)
          /\ [list |-> <<>>, before |-> <<>>, went |-> "well"] \in Wishes
      BY DEF Wishes
    <3> QED  BY <3>1, RequestFacts DEF WebPushInit, RowsTyped
  <2>3. Begins(<<>>, <<>>)  BY DEF Begins
  <2>4. SetInv
    <3> SUFFICES ASSUME NEW u \in WebUser  PROVE WellSet(u) /\ BegunToSet(u)
      BY DEF SetInv
    <3>1. WellSet(u)  BY <2>1, <2>3, RequestFacts DEF WellSet, SetsResourcesOf
    <3>2. BegunToSet(u)  BY <2>1 DEF BegunToSet
    <3> QED  BY <3>1, <3>2
  <2> QED  BY <2>2, <2>4 DEF WebPushInv
<1>2. WebPushInv /\ [WebPushNext]_webPushVars => WebPushInv'
  <2> SUFFICES ASSUME WebPushInv, [WebPushNext]_webPushVars  PROVE WebPushInv'
    OBVIOUS
  <2>1. CASE WebPushNext  BY <2>1, WebPushNextKeeps
  <2>2. CASE UNCHANGED webPushVars
    <3>1. /\ UNCHANGED <<resources, wish, calling>>
          /\ calling' \in [Caller -> Calls]
      BY <2>2 DEF webPushVars, WebPushInv, RowsTyped
    <3> QED  BY <3>1, NoSettingKeeps
  <2> QED  BY <2>1, <2>2
<1> QED  BY <1>1, <1>2, PTL DEF WebPushSpec

(* Whatever calls of others, failures and restarts come between: the list   *)
(* that a user set without overlapping itself is what is read back, with    *)
(* its quotes doubled, messages go to the subscriptions of the users whose  *)
(* list has the resource, and a call that did not end well leaves the old   *)
(* rows or the beginning of the new ones.                                   *)
THEOREM UsersAreNotifiedAsAsked == WebPushSpec => []NotifiedAsAsked
<1>1. WebPushInv => NotifiedAsAsked
  <2> SUFFICES ASSUME WebPushInv, NEW u \in WebUser
               PROVE  /\ wish[u].went = "well" =>
                           /\ GetResources(u) = EscapeAll(wish[u].list)
                           /\ \A r \in Resource :
                                GetSubscriptions(u) \cap GetResourceSubscriptions(r)
                                  = IF r \in ToSet(wish[u].list) THEN GetSubscriptions(u) ELSE {}
                      /\ wish[u].went = "begun" =>
                           \/ GetResources(u) = wish[u].before
                           \/ IsPrefix(GetResources(u), EscapeAll(wish[u].list))
    BY WishFacts DEF NotifiedAsAsked, WebPushInv, RowsTyped
  <2> DEFINE list == wish[u].list
             rows == resources[u]
             all == EscapeAll(list)
  <2>1. list \in Seq(Resource) /\ rows \in Seq(Escaped)
    BY WishFacts DEF WebPushInv, RowsTyped
  <2>2. /\ all \in Seq(Escaped) /\ Len(all) = Len(list)
        /\ \A i \in 1 .. Len(list) : all[i] = Escape(list[i])
    BY <2>1, EscapeFacts
  <2>3. WellSet(u) /\ BegunToSet(u)  BY DEF WebPushInv, SetInv
  <2> HIDE DEF list, rows, all
  <2>4. Begins(rows, list) => Len(rows) <= Len(all) /\ \A i \in 1 .. Len(rows) : rows[i] = all[i]
    BY <2>1, <2>2 DEF Begins
  <2>5. ASSUME Begins(rows, list)
        PROVE  IsPrefix(rows, all)
    <3>1. Len(rows) \in Nat /\ Len(all) \in Nat /\ Len(rows) <= Len(all)
      BY <2>1, <2>2, <2>4, <2>5
    <3>2. /\ SubSeq(rows, 1, Len(rows)) = [i \in 1 .. Len(rows) |-> rows[i]]
          /\ SubSeq(all, 1, Len(rows)) = [i \in 1 .. Len(rows) |-> all[i]]
      BY <2>1, <2>2, <3>1
    <3>3. [i \in 1 .. Len(rows) |-> rows[i]] = [i \in 1 .. Len(rows) |-> all[i]]
      BY <2>4, <2>5
    <3> QED  BY <3>1, <3>2, <3>3 DEF IsPrefix
  <2>6. ASSUME wish[u].went = "well"
        PROVE  /\ rows = all
               /\ \A r \in Resource :
                    GetSubscriptions(u) \cap GetResourceSubscriptions(r)
                      = IF r \in ToSet(list) THEN GetSubscriptions(u) ELSE {}
    <3>1. Begins(rows, list) /\ Len(rows) = Len(list)  BY <2>3, <2>6 DEF WellSet, rows, list
    <3>2. rows = all  BY <2>1, <2>2, <2>4, <3>1
    <3>3. ASSUME NEW r \in Resource
          PROVE  Escape(r) \in ToSet(rows) <=> r \in ToSet(list)
      <4>1. /\ DOMAIN rows = 1 .. Len(list) /\ DOMAIN list = 1 .. Len(list)
            /\ \A i \in 1 .. Len(list) : list[i] \in Resource /\ rows[i] = Escape(list[i])
        BY <2>1, <2>2, <3>2
      <4>2. \A i \in 1 .. Len(list) : rows[i] = Escape(r) <=> list[i] = r
        BY <4>1, EscapeFacts
      <4> QED  BY <4>1, <4>2 DEF ToSet
    <3>4. ASSUME NEW r \in Resource
          PROVE  GetSubscriptions(u) \cap GetResourceSubscriptions(r)
                   = IF r \in ToSet(list) THEN GetSubscriptions(u) ELSE {}
      <4>1. GetSubscriptions(u) \cap GetResourceSubscriptions(r)
              = {p \in GetSubscriptions(u) : Escape(r) \in ToSet(rows)}
        BY DEF GetSubscriptions, GetResourceSubscriptions, rows
      <4> QED  BY <3>3, <4>1
    <3> QED  BY <3>2, <3>4
  <2>7. wish[u].went = "begun" => rows = wish[u].before \/ Begins(rows, list)
    BY <2>3 DEF BegunToSet, rows, list
  <2> QED  BY <2>5, <2>6, <2>7 DEF GetResources, rows, list, all
<1> QED  BY <1>1, WebPushSpecInv, PTL

(* The subscriptions are those of users, to whom they were subscribed.      *)
SubscriptionsInv == IsMap(subscriptions, PushUri, WebUser)

LEMMA SubscribeKeeps ==
  ASSUME WebPushInv, SubscriptionsInv, NEW c \in Caller, Subscribe(c)
  PROVE  SubscriptionsInv'
<1>1. calling[c] \in Calls /\ calling[c].op = "subscribe" /\ calling[c].todo # <<>>
  BY DEF WebPushInv, RowsTyped, Subscribe
<1>2. calling[c].todo \in Seq(PushUri) /\ calling[c].user \in WebUser
  BY <1>1 DEF Calls, Free
<1>3. Head(calling[c].todo) \in PushUri  BY <1>1, <1>2
<1>4. subscriptions' = Put(subscriptions, Head(calling[c].todo), calling[c].user)
  BY DEF Subscribe
<1> QED  BY <1>2, <1>3, <1>4 DEF SubscriptionsInv, IsMap, Put

LEMMA UnsubscribeKeeps ==
  ASSUME SubscriptionsInv, NEW c \in Caller, Unsubscribe(c)
  PROVE  SubscriptionsInv'
<1> DEFINE gone == {Head(calling[c].todo)}
<1>1. subscriptions' = Drop(subscriptions, gone)
  BY DEF Unsubscribe
<1>2. /\ DOMAIN Drop(subscriptions, gone) = DOMAIN subscriptions \ gone
      /\ \A p \in DOMAIN subscriptions \ gone :
           Drop(subscriptions, gone)[p] = subscriptions[p]
  BY DropFacts
<1>3. Drop(subscriptions, gone) \in [DOMAIN subscriptions \ gone -> WebUser]
  BY <1>2 DEF SubscriptionsInv, IsMap, Drop, Restrict
<1> QED  BY <1>1, <1>2, <1>3 DEF SubscriptionsInv, IsMap

(* The rows of the two tables, and the calls under way, keep their types.   *)
THEOREM WebPushTypeCorrect == WebPushSpec => []WebPushTypeOK
<1>1. WebPushInit => SubscriptionsInv
  BY DEF WebPushInit, SubscriptionsInv, IsMap, EmptyMap
<1>2. WebPushInv /\ SubscriptionsInv /\ [WebPushNext]_webPushVars => SubscriptionsInv'
  <2> SUFFICES ASSUME WebPushInv, SubscriptionsInv, [WebPushNext]_webPushVars
               PROVE  SubscriptionsInv'
    OBVIOUS
  <2>1. CASE UNCHANGED subscriptions  BY <2>1 DEF SubscriptionsInv
  <2>2. CASE \E c \in Caller : Subscribe(c) \/ Unsubscribe(c)
    BY <2>2, SubscribeKeeps, UnsubscribeKeeps
  <2>3. CASE RestartWebPush  BY <2>1, <2>3 DEF RestartWebPush
  <2>4. ASSUME NEW c \in Caller,
               StatementFails(c) \/ DeleteResources(c) \/ InsertResource(c) \/ ResourcesSet(c)
               \/ SubscriptionsSet(c)
        PROVE  SubscriptionsInv'
    BY <2>1, <2>4
    DEF StatementFails, DeleteResources, InsertResource, ResourcesSet, SubscriptionsSet
  <2>5. ASSUME NEW c \in Caller, NEW u \in WebUser, NEW list, CallSetResources(c, u, list)
        PROVE  SubscriptionsInv'
    BY <2>1, <2>5 DEF CallSetResources
  <2>6. ASSUME NEW c \in Caller, NEW uris,
               (\E u \in WebUser : CallSubscribe(c, u, uris)) \/ CallUnsubscribe(c, uris)
        PROVE  SubscriptionsInv'
    BY <2>1, <2>6 DEF CallSubscribe, CallUnsubscribe
  <2>7. CASE UNCHANGED webPushVars  BY <2>1, <2>7 DEF webPushVars
  <2> QED  BY <2>2, <2>3, <2>4, <2>5, <2>6, <2>7 DEF WebPushNext
<1>3. WebPushInv /\ SubscriptionsInv => WebPushTypeOK
  <2> SUFFICES ASSUME WebPushInv, SubscriptionsInv  PROVE WebPushTypeOK
    OBVIOUS
  <2>1. \A u \in WebUser : resources[u] \in Seq(Escaped)  BY DEF WebPushInv, RowsTyped
  <2>2. \A c \in Caller : calling[c].op \in {"none", "resources", "subscribe", "unsubscribe"}
    <3>1. \A k \in Calls : k.op \in {"none", "resources", "subscribe", "unsubscribe"}
      BY DEF Calls, Free
    <3> QED  BY <3>1 DEF WebPushInv, RowsTyped
  <2>3. \A u \in WebUser : wish[u].went \in {"well", "begun", "overlapped"}
    BY WishFacts DEF WebPushInv, RowsTyped
  <2> QED  BY <2>1, <2>2, <2>3 DEF WebPushTypeOK, SubscriptionsInv, Escaped
<1> QED  BY <1>1, <1>2, <1>3, WebPushSpecInv, PTL DEF WebPushSpec

-----------------------------------------------------------------------------
(* A managed process: its types, that nothing runs after a shutdown, and    *)
(* that the pauses are bounded.                                            *)

(* The length of a pause is a natural number.                               *)
LEMMA PauseType ==
  ASSUME NEW b \in Nat
  PROVE  Pause(b) \in Nat
<1>1. b * b \in Nat  OBVIOUS
<1>2. \A n \in Nat : n \div 2 \in Nat  OBVIOUS
<1> QED  BY <1>1, <1>2 DEF Pause

LEMMA FirstPauses == Pause(1) = 0
  BY DEF Pause

-----------------------------------------------------------------------------
(* Type correctness.                                                       *)

(* Backoff::next_backoff keeps its types.                                   *)
LEMMA NextBackoffType ==
  ASSUME ProcessTypeOK
  PROVE  NextBackoff \in [start_time : BOOLEAN, seconds : Seconds, backoff : Nat, pause : Nat]
<1>1. /\ backoff.backoff \in Nat /\ backoff.backoff + 1 \in Nat
      /\ 0 \in Seconds
  BY ProcessAssumption DEF ProcessTypeOK, Seconds
<1>2. Pause(backoff.backoff + 1) \in Nat  BY <1>1, PauseType
<1> QED  BY <1>1, <1>2 DEF NextBackoff

(* The types hold from the start and are kept by every step of the          *)
(* monitoring thread, of shutdown, and of the system.                       *)
LEMMA ProcessTypeInit == ProcessInit => ProcessTypeOK
<1> SUFFICES ASSUME ProcessInit PROVE ProcessTypeOK
  OBVIOUS
<1>1. 0 \in Seconds  BY ProcessAssumption DEF Seconds
<1>2. process \in [Pid -> {"none", "child", "zombie", "other"}]  BY DEF ProcessInit
<1>3. backoff \in [start_time : BOOLEAN, seconds : Seconds, backoff : Nat, pause : Nat]
  BY <1>1 DEF ProcessInit
<1> QED  BY <1>2, <1>3 DEF ProcessInit, ProcessTypeOK

LEMMA ProcessTypeStep == ProcessTypeOK /\ [ProcessNext]_processVars => ProcessTypeOK'
<1> SUFFICES ASSUME ProcessTypeOK, [ProcessNext]_processVars
             PROVE  ProcessTypeOK'
  OBVIOUS
<1> USE DEF ProcessTypeOK, None
<1>1. ASSUME NEW p \in Pid, Spawn(p) PROVE ProcessTypeOK'  BY <1>1 DEF Spawn
<1>2. CASE SpawnFails  BY <1>2 DEF SpawnFails
<1>3. CASE MonitorStops  BY <1>3 DEF MonitorStops
<1>4. CASE WaitReturns
  <2>1. process' \in [Pid -> {"none", "child", "zombie", "other"}]  BY <1>4 DEF WaitReturns
  <2>2. backoff' \in [start_time : BOOLEAN, seconds : Seconds, backoff : Nat, pause : Nat]
    BY <1>4, NextBackoffType DEF WaitReturns
  <2> QED  BY <1>4, <2>1, <2>2 DEF WaitReturns
<1>5. CASE WaitFails  BY <1>5 DEF WaitFails
<1>6. CASE WakeUp  BY <1>6 DEF WakeUp
<1>7. CASE RaiseKillSignal
  <2>1. kill_signal' \in BOOLEAN /\ UNCHANGED <<process, monitor, pid, backoff>>
        /\ \E pc \in {"panicked", "get_pid"} : shutdown' = [shutdown EXCEPT !.pc = pc]
    BY <1>7 DEF RaiseKillSignal
  <2>2. shutdown' \in [pc : {"no", "get_pid", "try_wait", "kill", "join", "returned", "panicked"},
                       pid : {None} \cup {{p} : p \in Pid}]
    BY <2>1
  <2> QED  BY <2>1, <2>2
<1>8. CASE GetPid  BY <1>8 DEF GetPid
<1>9. CASE TryWait
  <2>1. process' \in [Pid -> {"none", "child", "zombie", "other"}]  BY <1>9 DEF TryWait
  <2>2. shutdown' \in [pc : {"no", "get_pid", "try_wait", "kill", "join", "returned", "panicked"},
                       pid : {None} \cup {{p} : p \in Pid}]
    BY <1>9 DEF TryWait
  <2> QED  BY <1>9, <2>1, <2>2 DEF TryWait
<1>10. CASE Kill
  <2>1. process' \in [Pid -> {"none", "child", "zombie", "other"}]  BY <1>10 DEF Kill
  <2> QED  BY <1>10, <2>1 DEF Kill
<1>11. CASE JoinThread  BY <1>11 DEF JoinThread
<1>12. ASSUME NEW p \in Pid, ChildExits(p) PROVE ProcessTypeOK'  BY <1>12 DEF ChildExits
<1>13. ASSUME NEW p \in Pid, OtherStarts(p) PROVE ProcessTypeOK'  BY <1>13 DEF OtherStarts
<1>14. ASSUME NEW p \in Pid, OtherEnds(p) PROVE ProcessTypeOK'  BY <1>14 DEF OtherEnds
<1>15. CASE UNCHANGED processVars  BY <1>15 DEF processVars
<1> QED
  BY <1>1, <1>2, <1>3, <1>4, <1>5, <1>6, <1>7, <1>8, <1>9, <1>10, <1>11, <1>12, <1>13,
     <1>14, <1>15
  DEF ProcessNext, MonitorStep, ShutdownStep

(* A managed process keeps its types.                                       *)
THEOREM ProcessTypeCorrect == ProcessSpec => []ProcessTypeOK
  BY ProcessTypeInit, ProcessTypeStep, PTL DEF ProcessSpec

-----------------------------------------------------------------------------
(* Nothing runs after a shutdown.                                          *)

(* The child runs or waits to be waited for only while the monitoring       *)
(* thread waits for it, and that thread is over once `shutdown` is.         *)
ChildIsWaitedFor ==
  \A p \in Pid : process[p] \in {"child", "zombie"} => monitor.pc = "wait" /\ monitor.child = {p}
MonitorIsOver ==
  shutdown.pc \in {"returned", "panicked"} => monitor.pc \in {"over", "panicked", "poisoned"}
Monitored == ChildIsWaitedFor /\ MonitorIsOver

(* Nobody but the two threads reaps the child, and the thread that is over  *)
(* has nobody to wait for: Monitored is inductive, given the types.         *)
LEMMA MonitoredStep ==
  ProcessTypeOK /\ Monitored /\ [ProcessNext]_processVars => Monitored'
<1> SUFFICES ASSUME ProcessTypeOK, Monitored, [ProcessNext]_processVars
             PROVE  Monitored'
  OBVIOUS
<1> USE DEF ProcessTypeOK, Monitored, ChildIsWaitedFor, MonitorIsOver, None
<1>1. ASSUME NEW p \in Pid, Spawn(p) PROVE Monitored'  BY <1>1 DEF Spawn
<1>2. CASE SpawnFails  BY <1>2 DEF SpawnFails
<1>3. CASE MonitorStops  BY <1>3 DEF MonitorStops
<1>4. CASE WaitReturns
  <2>1. PICK p \in monitor.child :
          process[p] = "zombie" /\ process' = [process EXCEPT ![p] = "none"]
    BY <1>4 DEF WaitReturns
  <2>2. p \in Pid  BY <2>1
  <2>3. \A q \in Pid : process'[q] \notin {"child", "zombie"}  BY <2>1, <2>2
  <2> QED  BY <1>4, <2>3 DEF WaitReturns
<1>5. CASE WaitFails
  <2>1. \A q \in Pid : process[q] \notin {"child", "zombie"}  BY <1>5 DEF WaitFails
  <2> QED  BY <1>5, <2>1 DEF WaitFails
<1>6. CASE WakeUp  BY <1>6 DEF WakeUp
<1>7. CASE RaiseKillSignal  BY <1>7 DEF RaiseKillSignal
<1>8. CASE GetPid  BY <1>8 DEF GetPid
<1>9. CASE TryWait  BY <1>9 DEF TryWait
<1>10. CASE Kill  BY <1>10 DEF Kill
<1>11. CASE JoinThread  BY <1>11 DEF JoinThread
<1>12. ASSUME NEW p \in Pid, ChildExits(p) PROVE Monitored'  BY <1>12 DEF ChildExits
<1>13. ASSUME NEW p \in Pid, OtherStarts(p) PROVE Monitored'  BY <1>13 DEF OtherStarts
<1>14. ASSUME NEW p \in Pid, OtherEnds(p) PROVE Monitored'  BY <1>14 DEF OtherEnds
<1>15. CASE UNCHANGED processVars  BY <1>15 DEF processVars
<1> QED
  BY <1>1, <1>2, <1>3, <1>4, <1>5, <1>6, <1>7, <1>8, <1>9, <1>10, <1>11, <1>12, <1>13,
     <1>14, <1>15
  DEF ProcessNext, MonitorStep, ShutdownStep

(* Once `shutdown` is over, even by a panic, no child runs and none will.   *)
THEOREM NothingRunsAfterShutdown == ProcessSpec => []NothingLeftRunning
<1>1. ProcessInit => Monitored
  BY DEF ProcessInit, Monitored, ChildIsWaitedFor, MonitorIsOver, None
<1>2. Monitored => NothingLeftRunning
  BY DEF Monitored, ChildIsWaitedFor, MonitorIsOver, NothingLeftRunning
<1> QED  BY <1>1, <1>2, ProcessTypeCorrect, MonitoredStep, PTL DEF ProcessSpec

-----------------------------------------------------------------------------
(* The pauses are bounded.                                                 *)

(* The pause is that of the count of quick exits, and has passed by the     *)
(* time the thread spawns and waits again.                                  *)
PauseHasPassed ==
  /\ backoff.pause = Pause(backoff.backoff)
  /\ ~backoff.start_time => backoff.backoff = 1
  /\ monitor.pc \in {"spawn", "wait"} =>
       backoff.seconds >= backoff.pause \/ backoff.seconds >= Threshold

Paused == PauseHasPassed /\ PausesBounded

LEMMA PausedStep == ProcessTypeOK /\ Paused /\ [ProcessNext]_processVars => Paused'
<1> SUFFICES ASSUME ProcessTypeOK, Paused, [ProcessNext]_processVars
             PROVE  Paused'
  OBVIOUS
<1> USE DEF Paused, PauseHasPassed, PausesBounded
<1>1. ASSUME UNCHANGED backoff, monitor'.pc \in {"spawn", "wait"} => monitor.pc \in {"spawn", "wait"}
      PROVE  Paused'
  BY <1>1
<1>2. ASSUME NEW s \in Seconds, backoff' = [backoff EXCEPT !.seconds = s],
             monitor'.pc \in {"spawn", "wait"} => s >= backoff.pause \/ s >= Threshold
      PROVE  Paused'
  <2>1. /\ backoff'.seconds = s /\ backoff'.pause = backoff.pause
        /\ backoff'.backoff = backoff.backoff /\ backoff'.start_time = backoff.start_time
    BY <1>2 DEF ProcessTypeOK
  <2> QED  BY <1>2, <2>1
<1>3. CASE WaitReturns
  <2>1. monitor'.pc = "sleep" /\ backoff' = NextBackoff /\ monitor.pc = "wait"
    BY <1>3 DEF WaitReturns
  <2>2. CASE backoff.start_time /\ backoff.seconds < Threshold
    <3>1. /\ backoff'.backoff = backoff.backoff + 1
          /\ backoff'.pause = Pause(backoff.backoff + 1)
          /\ backoff'.start_time
      BY <2>1, <2>2 DEF NextBackoff
    <3>2. /\ backoff.pause \in Nat /\ backoff.seconds \in Nat /\ Threshold \in Nat
          /\ (backoff.backoff + 1) - 1 = backoff.backoff
      BY ProcessAssumption DEF ProcessTypeOK, Seconds
    <3>3. Pause(backoff.backoff) < Threshold  BY <2>1, <2>2, <3>2
    <3> QED  BY <2>1, <3>1, <3>2, <3>3
  <2>3. CASE ~(backoff.start_time /\ backoff.seconds < Threshold)
    <3>1. backoff'.backoff = 1 /\ backoff'.pause = 0 /\ backoff'.start_time
      BY <2>1, <2>3 DEF NextBackoff
    <3> QED  BY <2>1, <3>1, FirstPauses
  <2> QED  BY <2>2, <2>3
<1>4. CASE WakeUp
  <2>1. PICK s \in Seconds :
          /\ s >= IF backoff.pause < Threshold THEN backoff.pause ELSE Threshold
          /\ backoff' = [backoff EXCEPT !.seconds = s]
    BY <1>4 DEF WakeUp
  <2>2. s >= backoff.pause \/ s >= Threshold  BY <2>1
  <2> QED  BY <1>2, <2>1, <2>2
<1>5. ASSUME NEW p \in Pid, ChildExits(p) PROVE Paused'
  <2>1. PICK s \in Seconds :
          s >= backoff.seconds /\ backoff' = [backoff EXCEPT !.seconds = s]
    BY <1>5 DEF ChildExits
  <2>2. /\ s \in Nat /\ backoff.seconds \in Nat /\ backoff.pause \in Nat /\ Threshold \in Nat
    BY ProcessAssumption DEF ProcessTypeOK, Seconds
  <2>3. monitor' = monitor  BY <1>5 DEF ChildExits
  <2> QED  BY <1>2, <2>1, <2>2, <2>3
<1>6. CASE MonitorStep /\ ~WaitReturns /\ ~WakeUp
  BY <1>1, <1>6 DEF MonitorStep, Spawn, SpawnFails, MonitorStops, WaitFails, ProcessTypeOK
<1>7. CASE RaiseKillSignal \/ ShutdownStep
  BY <1>1, <1>7 DEF RaiseKillSignal, ShutdownStep, GetPid, TryWait, Kill, JoinThread
<1>8. ASSUME NEW p \in Pid, OtherStarts(p) \/ OtherEnds(p) PROVE Paused'
  BY <1>1, <1>8 DEF OtherStarts, OtherEnds
<1>9. CASE UNCHANGED processVars  BY <1>1, <1>9 DEF processVars
<1> QED  BY <1>3, <1>4, <1>5, <1>6, <1>7, <1>8, <1>9 DEF ProcessNext

(* The last pause that grows follows one that was shorter than the          *)
(* threshold, whatever the threshold is.                                    *)
THEOREM PausesAreBounded == ProcessSpec => []PausesBounded
<1>1. ProcessInit => Paused
  BY FirstPauses, ProcessAssumption DEF ProcessInit, Paused, PauseHasPassed, PausesBounded
<1>2. Paused => PausesBounded  BY DEF Paused
<1> QED  BY <1>1, <1>2, ProcessTypeCorrect, PausedStep, PTL DEF ProcessSpec

-----------------------------------------------------------------------------
(* The box, as MCBox composes it.  Each of its steps is one of a part, and  *)
(* leaves the others alone.                                                 *)

LEMMA BoxStepsAreOfItsParts ==
  ASSUME [BoxNext]_boxVars
  PROVE  /\ [ProcessNext]_processVars
         /\ [HueNext]_allHueVars
         /\ [CertificatesNext]_certificateVars
         /\ [ManagerNext]_managerVars
         /\ [IpCameraNext]_ipCameraVars
         /\ [WebPushNext]_webPushVars
<1>1. CASE InProcess /\ ProcessNext  BY <1>1 DEF InProcess
<1>2. CASE InHue /\ HueNext  BY <1>2 DEF InHue
<1>3. CASE InCertificates /\ CertificatesNext  BY <1>3 DEF InCertificates
<1>4. CASE InScripts /\ ManagerNext  BY <1>4 DEF InScripts
<1>5. CASE InCameras /\ IpCameraNext  BY <1>5 DEF InCameras
<1>6. CASE InWebPush /\ WebPushNext  BY <1>6 DEF InWebPush
<1>7. CASE UNCHANGED boxVars  BY <1>7 DEF boxVars
<1>8. MonitorRuns \/ ShutdownStarts \/ ShutdownRuns \/ ProcessesRun => InProcess /\ ProcessNext
  BY DEF MonitorRuns, ShutdownStarts, ShutdownRuns, ProcessesRun, ProcessNext
<1>9. MainLoopRuns \/ DiscoveryRuns \/ HubThreadRuns \/ FetchPanics \/ HubChanges
        \/ ConfigSaves \/ HueBoxRestarts => InHue /\ HueNext
  BY DEF MainLoopRuns, DiscoveryRuns, HubThreadRuns, FetchPanics, HubChanges, ConfigSaves,
         HueBoxRestarts, HueNext
<1>10. RegistrarRuns \/ RegistrarRestarts => InCertificates /\ CertificatesNext
  BY DEF RegistrarRuns, RegistrarRestarts, CertificatesNext
<1> QED
  BY <1>1, <1>2, <1>3, <1>4, <1>5, <1>6, <1>7, <1>8, <1>9, <1>10
  DEF BoxNext, ScriptsRun, CamerasRun, WebPushRuns

(* What is proved of a part holds in the box, which does to each part what  *)
(* its specification allows and no more.                                    *)
THEOREM BoxRunsItsParts ==
  FairBoxSpec =>
    ProcessSpec /\ HueSpec /\ CertificatesSpec /\ ManagerSpec /\ IpCameraSpec /\ WebPushSpec
<1>1. BoxInit => /\ ProcessInit /\ HueInit /\ CertificatesInit
                 /\ ManagerInit /\ IpCameraInit /\ WebPushInit
  BY DEF BoxInit
<1> QED
  BY <1>1, BoxStepsAreOfItsParts, PTL
  DEF FairBoxSpec, ProcessSpec, HueSpec, CertificatesSpec, ManagerSpec, IpCameraSpec, WebPushSpec

(* The whole box keeps its types.                                           *)
THEOREM BoxTypeCorrect == FairBoxSpec => []BoxTypeOK
<1>1. /\ ProcessTypeOK /\ HueTypeOK /\ CertificatesTypeOK
      /\ ManagerTypeOK /\ IpCameraTypeOK /\ WebPushTypeOK
      => BoxTypeOK
  BY DEF BoxTypeOK
<1> QED
  BY <1>1, BoxRunsItsParts, ProcessTypeCorrect, HueTypeCorrect, CertificatesTypeCorrect,
     ManagerTypeCorrect, IpCameraTypeCorrect, WebPushTypeCorrect, PTL
===============================================================================
