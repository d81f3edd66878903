----------------------------- MODULE Certificate -----------------------------
(***************************************************************************)
(* The certificate of the local listener: cert.pem, its private key in the *)
(* credential store, and the user's trusted roots.  A start of the service *)
(* loads the pair, or makes a new one when it cannot be used; meanwhile the*)
(* tray's actions, each a thread of its own, and the route of the admin    *)
(* page install, remove or rotate it.  Every step may fail, and none locks *)
(* another out.                                                            *)
(*                                                                         *)
(* Certificates are numbered as they are made; 0 is none that can be read. *)
(* `lately` is history.                                                    *)
(***************************************************************************)
EXTENDS ConfigStore

CONSTANTS
    Actions,         \* certificate actions that may be under way at a time
    MaxCertificates  \* bound: certificates made

ASSUME CertificateAssumption == MaxCertificates \in Nat \ {0}
ASSUME ActionsAssumption == Actions # {} /\ "start" \notin Actions

VARIABLES
    certPem,  \* cert.pem
    tlsKey,   \* the certificate the key in the credential store belongs to
    keyPem,   \* ... and the key.pem of an earlier version
    root,     \* the certificates in CurrentUser\Root
    served,   \* what the service that starts or runs presents to browsers
    job,      \* action, or the start of the service -> [kind, step, cert]
    made,     \* the certificates made so far
    lately    \* what has come last, with nothing else under way meanwhile:
              \* "starting", "started", "installed", or "other"

certVars == <<certPem, tlsKey, keyPem, root, served, job, made, lately>>

Rest == [kind |-> None, step |-> None, cert |-> 0]
Jobs == Actions \cup {"start"}
AtRest == \A j \in Jobs : job[j] = Rest
GoesOn(j, step) == job' = [job EXCEPT ![j].step = step]
Ends(j) == job' = [job EXCEPT ![j] = Rest]
\* A step of these that fails, or not.
Step(fails) == IF fails THEN Disturb("step fails") ELSE UNCHANGED disturbances

-----------------------------------------------------------------------------
(* The start of the service.                                               *)

\* migrate_legacy_key_into_store: a missing key is taken from key.pem.
Migrated == IF tlsKey = 0 THEN keyPem ELSE tlsKey

\* load_or_generate_server_config: the pair is used, and a key.pem erased.
LoadsPair ==
    /\ phase = "down" /\ job["start"] = Rest /\ served = 0
    /\ certPem # 0 /\ Migrated = certPem
    /\ served' = certPem /\ tlsKey' = Migrated
    /\ \E fails \in BOOLEAN : /\ Step(fails /\ keyPem # 0)
                              /\ keyPem' = IF fails THEN keyPem ELSE 0
    /\ lately' = IF ~AtRest THEN "other" ELSE IF lately = "installed" THEN lately ELSE "started"
    /\ UNCHANGED <<certPem, root, job, made>>

\* A pair that is missing, does not match or cannot be read is made anew.
MakesPair ==
    /\ phase = "down" /\ job["start"] = Rest /\ served = 0 /\ made < MaxCertificates
    /\ \E unreadable \in BOOLEAN :
          /\ unreadable \/ certPem = 0 \/ Migrated # certPem
          /\ Step(unreadable)
          /\ tlsKey' = IF unreadable THEN tlsKey ELSE Migrated
    /\ made' = made + 1
    /\ job' = [job EXCEPT !["start"] = [kind |-> "start", step |-> "write", cert |-> made']]
    /\ lately' = IF AtRest THEN "starting" ELSE "other"
    /\ UNCHANGED <<certPem, keyPem, root, served>>

-----------------------------------------------------------------------------
(* The steps of the actions; a failure ends the action, and the start.     *)

Others == <<keyPem, root, served, made>>

\* uninstall_loop: one entry after the other, whichever certificate it is.
ClearRoot(j) ==
    /\ job[j].step = "clear"
    /\ \E fails \in BOOLEAN :
          /\ Step(fails)
          /\ IF fails THEN UNCHANGED root /\ Ends(j)
             ELSE IF root = {}
             THEN UNCHANGED root /\ IF job[j].kind = "rotate" THEN GoesOn(j, "write") ELSE Ends(j)
             ELSE (\E c \in root : root' = root \ {c}) /\ UNCHANGED job
    /\ UNCHANGED <<certPem, tlsKey, keyPem, served, made, lately>>

\* write_cert_and_key_to_app_data: the file is written in place, then the key stored.
WriteCert(j) ==
    /\ job[j].step = "write"
    /\ \E fails \in BOOLEAN :
          /\ Step(fails)
          /\ certPem' \in {job[j].cert} \cup (IF fails THEN {certPem, 0} ELSE {})
          /\ IF fails THEN Ends(j) ELSE GoesOn(j, "store")
    /\ UNCHANGED <<tlsKey, Others, lately>>
StoreKey(j) ==
    /\ job[j].step = "store"
    /\ \E fails \in BOOLEAN :
          /\ Step(fails)
          /\ tlsKey' = IF fails THEN tlsKey ELSE job[j].cert
          /\ served' = IF j = "start" /\ ~fails THEN job[j].cert ELSE served
          /\ lately' = IF j # "start" THEN lately
                       ELSE IF lately = "starting" /\ ~fails THEN "started" ELSE "other"
          /\ IF ~fails /\ j # "start" THEN GoesOn(j, "look") ELSE Ends(j)
    /\ UNCHANGED <<certPem, keyPem, root, made>>

\* trusted_state: by thumbprint, not by the name all certificates share.
Trusted_Bug(c) == root # {}
Trusted(c) == c \in root

Installed == lately' = IF lately = "started" THEN "installed" ELSE lately

\* ensure_installed, up to the copy certutil is given ...
LookUp(j) ==
    /\ job[j].step = "look"
    /\ IF certPem = 0 THEN Ends(j) /\ UNCHANGED lately
       ELSE IF Trusted(certPem) THEN Ends(j) /\ Installed
       ELSE /\ job' = [job EXCEPT ![j].step = "add", ![j].cert = certPem]
            /\ UNCHANGED lately
    /\ UNCHANGED <<certPem, tlsKey, Others, disturbances>>
\* ... and certutil -addstore.
AddToRoot(j) ==
    /\ job[j].step = "add"
    /\ \E fails \in BOOLEAN :
          /\ Step(fails)
          /\ root' = IF fails THEN root ELSE root \cup {job[j].cert}
          /\ IF fails THEN UNCHANGED lately ELSE Installed
    /\ Ends(j)
    /\ UNCHANGED <<certPem, tlsKey, keyPem, served, made>>

-----------------------------------------------------------------------------
(* The user, and the ends of processes.                                    *)

\* A menu item of the tray, or the install route; rotation makes its pair first.
Begin(a) ==
    /\ "certificates" \in scenario /\ job[a] = Rest
    /\ \E kind \in {"install", "uninstall", "rotate"} :
          /\ kind = "rotate" => made < MaxCertificates
          /\ made' = IF kind = "rotate" THEN made + 1 ELSE made
          /\ job' = [job EXCEPT ![a] = [kind |-> kind,
                         step |-> IF kind = "install" THEN "look" ELSE "clear",
                         cert |-> IF kind = "rotate" THEN made' ELSE 0]]
          /\ lately' = IF kind = "install" /\ lately # "starting" THEN lately ELSE "other"
    /\ UNCHANGED <<certPem, tlsKey, keyPem, root, served, disturbances>>

\* The tray exits, or the service ends, with an action under way.
Abandoned(a) ==
    /\ job[a] # Rest
    /\ Disturb("quit")
    /\ Ends(a)
    /\ UNCHANGED <<certPem, tlsKey, Others, lately>>

\* The key is cleared from the credential store.
LoseTlsKey ==
    /\ tlsKey # 0
    /\ Disturb("tls key")
    /\ tlsKey' = 0
    /\ UNCHANGED <<certPem, Others, job, lately>>

\* The service ends, while it starts or when it runs.
CertificateCrash ==
    /\ served' = 0
    /\ job' = [job EXCEPT !["start"] = Rest]
    /\ lately' = IF lately = "starting" THEN "other" ELSE lately
    /\ UNCHANGED <<certPem, tlsKey, keyPem, root, made>>

\* A pair in use and trusted, perhaps beside the file an earlier version has left.
CertificateInit ==
    /\ made = 1 /\ certPem = 1 /\ tlsKey = 1 /\ served = 1 /\ root = {1}
    /\ keyPem = IF "tls key" \in scenario THEN 1 ELSE 0
    /\ job = [j \in Jobs |-> Rest]
    /\ lately = "installed"

\* Actions have no names of their own: a new one takes the first that is free.
CertificateStep ==
    \/ LoadsPair \/ MakesPair \/ LoseTlsKey
    \/ \E j \in Jobs : ClearRoot(j) \/ WriteCert(j) \/ StoreKey(j) \/ LookUp(j) \/ AddToRoot(j)
    \/ \E a \in Actions : Abandoned(a)
    \/ \E a \in {CHOOSE b \in Actions : (\E c \in Actions : job[c] = Rest) => job[b] = Rest} :
          Begin(a)

-----------------------------------------------------------------------------
(* Whatever has failed half-way or crossed before, a start of the service  *)
(* and then an install that succeeds, with no removal or rotation at work  *)
(* meanwhile, mend it: the certificate presented is the one on disk and is *)
(* trusted. *)
StartAndInstallMend ==
    lately = "installed" /\ served # 0 => certPem = served /\ served \in root
=============================================================================
