------------------------------ MODULE AppData ------------------------------
(***************************************************************************)
(* The service around its files: the settings and their routes, the        *)
(* encrypted stores, the personal zone kept in one of them, the updaters   *)
(* and the certificate of one process, which crashes and starts with all of*)
(* them.                                                                   *)
(***************************************************************************)
EXTENDS EncryptedStore, ListUpdaters, PersonalZone, Certificate

vars == <<configVars, storeVars, updaterVars, zoneVars, certVars>>

Init == ConfigInit /\ StoresInit /\ UpdatersInit /\ ZoneInit /\ CertificateInit

\* The stores a route clears in memory as it puts its change in force.
Cleared(r) == CASE Handles(r, {"reset"}, "commit") -> {{"log", "cache"}}
                [] Handles(r, {"rating"}, "apply") -> {{"cache"}}
                [] Handles(r, {"runtime"}, "apply") -> {{}, {"cache"}}
                [] OTHER -> {{}}
Serve(r) == /\ Handle(r)
            /\ \E stores \in Cleared(r) : Forget(stores)
            /\ UNCHANGED <<updaterVars, zoneVars, certVars>>
User == /\ AdminPost \/ EditConfig \/ EditOverrides
        /\ UNCHANGED <<storeVars, updaterVars, zoneVars, certVars>>
Update == UpdatersStep /\ UNCHANGED <<storeVars, zoneVars, certVars>>

\* The settings are read once there is a certificate to serve.  Nothing that
\* follows concerns the certificate: a behaviour about it goes no further.
StartAll == /\ served # 0 /\ "certificates" \notin scenario
            /\ Start /\ UpdatersStart
            /\ UNCHANGED <<storeVars, zoneVars, certVars>>
CrashAll == Crash /\ StoresCrash /\ UpdatersCrash /\ ZoneCrash /\ CertificateCrash
StartCrash == /\ phase = "down" /\ (served # 0 \/ job["start"] # Rest)
              /\ Disturb("crash") /\ CertificateCrash
              /\ UNCHANGED <<phase, Settings, storeVars, updaterVars, zoneVars>>
Certify == CertificateStep /\ UNCHANGED <<phase, Settings, storeVars, updaterVars, zoneVars>>

(***************************************************************************)
(* The stores; what the zone's store reads or writes is the personal zone. *)
(***************************************************************************)
Opened == {f \in saved : \E sealed \in file["zone"] : \E with \in obtained :
                            ~with.orphaned /\ sealed.key = with.key}
Restore ==
    \/ /\ SkipStore
       /\ IF phase = "zone" THEN ZoneStarts({}, FALSE, FALSE) ELSE UNCHANGED zoneVars
    \/ /\ LoadStore
       /\ IF phase = "zone" THEN ZoneStarts(Opened, TRUE, file'["zone"] = {})
          ELSE UNCHANGED zoneVars
Write == \E s \in Stores : Flush(s) /\ IF s = "zone" THEN Republish ELSE UNCHANGED zoneVars
Remember ==
    /\ \/ Restore \/ Write
       \/ /\ ObtainKey \/ (\E s \in Stores : Learn(s)) \/ \E e \in Entries : LoseKey(e)
          /\ UNCHANGED zoneVars
    /\ UNCHANGED <<Settings, updaterVars, certVars>>
Browse == /\ ClockOrTable \/ \E h \in Hosts : Visit(h)
          /\ UNCHANGED <<phase, Settings, storeVars, updaterVars, certVars>>

Next == \/ \E r \in Requests : Serve(r)
        \/ User \/ StartAll \/ CrashAll \/ StartCrash
        \/ Remember \/ Update \/ Browse \/ Certify

\* Handlers and updaters are scheduled, and a parked task's timer runs out;
\* nothing obliges users, the watchdog or the flushers.
Fairness ==
    /\ \A r \in Requests : WF_vars(Serve(r))
    /\ WF_vars(BundlesStep /\ UNCHANGED <<storeVars, zoneVars, certVars>>)
    /\ WF_vars(GeoipStep /\ UNCHANGED <<storeVars, zoneVars, certVars>>)

Spec == Init /\ [][Next]_vars /\ Fairness
=============================================================================
