----------------------------- MODULE IpCertificate -----------------------------
(***************************************************************************)
(* The managed certificate of an IP address (service/ip_certificate_*.go,  *)
(* cronjob/certRenewJob.go, cmd/ip_certificate.go).  A renewal obtains a   *)
(* certificate, writes two files, then one setting after the other, and    *)
(* has the panel restarted to load the pair; the command line does the     *)
(* same while the panel is stopped.  Restarts for other reasons, failed    *)
(* writes and the death of the process fall between any two of the writes. *)
(*                                                                         *)
(* Auto-renewal is on and the panel is the target of the certificate.      *)
(* Time passes by the period of the cron job: a certificate is known by    *)
(* the passes it has left.                                                 *)
(***************************************************************************)
EXTENDS Integers

CONSTANTS
    Hosts, NoHost,
    Life,           \* passes a certificate is valid for
    RenewBelow,     \* ipCertRenewThreshold, in passes
    MaxRefused,     \* refusals of the authority in a row
    MaxMoves,       \* bound on changes of the target address
    MaxIncidents    \* bound on failed writes and deaths of the process

ASSUME IpCertificateAssumption ==
    /\ {Life, RenewBelow, MaxRefused, MaxMoves, MaxIncidents} \subseteq Nat
    /\ NoHost \notin Hosts /\ MaxRefused + 1 < RenewBelow /\ RenewBelow < Life

VARIABLES
    icTarget,       \* ipCertTargetIP
    icLast,         \* ipCertLastIP
    icLeft,         \* ipCertNotAfter: the passes left, 0 when unknown or over
    icFiles,        \* the files of an address: passes left, key and certificate match
    icWebCert, icWebKey,    \* webCertFile and webKeyFile: whose files they name
    icServed,       \* what the web server has loaded
    icPanel,        \* up; down: a process without a web server; dead
    icAt,           \* the issuance: idle, or its next write
    icIP, icCli,    \* its address; it runs in the command line
    icRefused, icMoves, icIncidents

icSettings == <<icTarget, icLast, icLeft, icWebCert, icWebKey>>
icPairs    == <<icFiles, icSettings>>
icJob      == <<icAt, icIP, icCli, icRefused>>
icVars     == <<icPairs, icServed, icPanel, icJob, icMoves, icIncidents>>

ICMaybe == Hosts \cup {NoHost}

\* Variant: the panel is restarted before the second setting is written.
ICAfterWithoutKey ==
    [crt |-> "key", key |-> "target", target |-> "last", last |-> "left",
     left |-> "webCert", webCert |-> "restart", webKey |-> "restart"]

\* The write that follows each one, in the order of obtainAndPersist and apply.
\* (The account, and settings only the status shows, are left out.)
ICAfter == [crt |-> "key", key |-> "target", target |-> "last", last |-> "left",
            left |-> "webCert", webCert |-> "webKey", webKey |-> "restart"]

ICTypeOK ==
    /\ {icTarget, icLast, icWebCert, icWebKey} \subseteq ICMaybe /\ icLeft \in 0..Life
    /\ icFiles \in [Hosts -> [left : 0..Life, whole : BOOLEAN]]
    /\ icServed \in [ip : ICMaybe, left : 0..Life]
    /\ icPanel \in {"up", "down", "dead"} /\ icCli \in BOOLEAN /\ icIP \in ICMaybe
    /\ icAt \in DOMAIN ICAfter \cup {"idle", "obtain", "restart"}
    /\ icRefused \in 0..MaxRefused /\ icMoves \in 0..MaxMoves /\ icIncidents \in 0..MaxIncidents

ICPlain == [ip |-> NoHost, left |-> 0]

ICInit ==
    /\ icTarget = NoHost /\ icLast = NoHost /\ icLeft = 0
    /\ icFiles = [a \in Hosts |-> [left |-> 0, whole |-> FALSE]]
    /\ icWebCert = NoHost /\ icWebKey = NoHost /\ icServed = ICPlain /\ icPanel = "up"
    /\ icAt = "idle" /\ icIP = NoHost /\ icCli = FALSE
    /\ icRefused = 0 /\ icMoves = 0 /\ icIncidents = 0

----------------------------------------------------------------------------

\* The web server starts on the two files, in a process that otherwise is `else`:
\* a boot that fails ends the process, a restart in place only logs it.
ICLoad(else) ==
    LET whole == icWebCert = icWebKey /\ icFiles[icWebCert].whole
    IN  IF icWebCert = NoHost /\ icWebKey = NoHost
        THEN icServed' = ICPlain /\ icPanel' = "up"
        ELSE IF icWebCert # NoHost /\ whole
        THEN /\ icServed' = [ip |-> icWebCert, left |-> icFiles[icWebCert].left]
             /\ icPanel' = "up"
        ELSE icServed' = ICPlain /\ icPanel' = else

\* The issuance is over; the management script starts the panel it has stopped.
ICFinish ==
    /\ icAt' = "idle" /\ icIP' = NoHost /\ icCli' = FALSE
    /\ IF icCli THEN ICLoad("dead") ELSE UNCHANGED <<icServed, icPanel>>

\* An administrator saves another target address, or the same panel restarts.
ICRetarget(a) ==
    /\ icPanel = "up" /\ icMoves < MaxMoves /\ icMoves' = icMoves + 1
    /\ a # icTarget /\ icTarget' = a
    /\ UNCHANGED <<icLast, icLeft, icWebCert, icWebKey, icFiles, icServed, icPanel, icJob,
                   icIncidents>>

ICRestart ==
    /\ icPanel # "dead" /\ ~icCli /\ ICLoad("down")
    /\ UNCHANGED <<icPairs, icJob, icMoves, icIncidents>>

ICAge(n) == IF n = 0 THEN 0 ELSE n - 1

\* Variant: a certificate is renewed once it is over.
ICDueWhenOver(left) == left = 0

\* shouldRenew, after the change of the address.
ICDue(left) == left < RenewBelow

ICNeeded(left) ==
    icTarget # NoHost /\ (ICDue(left) \/ (icLast # NoHost /\ icLast # icTarget))

\* One period of the cron job passes, and RenewIfNeeded runs.
ICPass ==
    /\ icAt = "idle" /\ icLeft' = ICAge(icLeft)
    /\ icFiles' = [a \in Hosts |-> [icFiles[a] EXCEPT !.left = ICAge(@)]]
    /\ icServed' = [icServed EXCEPT !.left = ICAge(@)]
    /\ IF icPanel # "dead" /\ ICNeeded(icLeft')
       THEN icAt' = "obtain" /\ icIP' = icTarget
       ELSE UNCHANGED <<icAt, icIP>>
    /\ UNCHANGED <<icTarget, icLast, icWebCert, icWebKey, icPanel, icCli, icRefused,
                   icMoves, icIncidents>>

\* The script stops the panel and runs the command line for address a.
ICCommand(a) ==
    /\ icAt = "idle" /\ icMoves < MaxMoves /\ icMoves' = icMoves + 1
    /\ icAt' = "obtain" /\ icIP' = a /\ icCli' = TRUE
    /\ icPanel' = "dead" /\ icServed' = ICPlain
    /\ UNCHANGED <<icPairs, icRefused, icIncidents>>

\* The authority issues the certificate, or refuses.
ICObtain ==
    /\ icAt = "obtain"
    /\ \/ /\ icAt' = "crt" /\ icRefused' = 0
          /\ UNCHANGED <<icIP, icCli, icServed, icPanel>>
       \/ icRefused < MaxRefused /\ icRefused' = icRefused + 1 /\ ICFinish
    /\ UNCHANGED <<icPairs, icMoves, icIncidents>>

\* writeCertFiles, persistIssued and setPanelCertSettings, one write a step.
ICWrite ==
    /\ icAt \in DOMAIN ICAfter /\ icAt' = ICAfter[icAt]
    /\ icFiles' = [icFiles EXCEPT ![icIP] =
           CASE icAt = "crt" -> [left |-> Life, whole |-> FALSE]
             [] icAt = "key" -> [@ EXCEPT !.whole = TRUE]
             [] OTHER -> @]
    /\ icTarget'  = IF icAt = "target" THEN icIP ELSE icTarget
    /\ icLast'    = IF icAt = "last" THEN icIP ELSE icLast
    /\ icLeft'    = IF icAt = "left" THEN Life ELSE icLeft
    /\ icWebCert' = IF icAt = "webCert" THEN icIP ELSE icWebCert
    /\ icWebKey'  = IF icAt = "webKey" THEN icIP ELSE icWebKey
    /\ UNCHANGED <<icServed, icPanel, icIP, icCli, icRefused, icMoves, icIncidents>>

\* applyToPanel waits for the restart; the script starts the panel.
ICReload ==
    /\ icAt = "restart" /\ icAt' = "idle" /\ icIP' = NoHost /\ icCli' = FALSE
    /\ ICLoad(IF icCli THEN "dead" ELSE "down")
    /\ UNCHANGED <<icPairs, icRefused, icMoves, icIncidents>>

\* A write fails, and the issuance with it; one of a file may have cut it short.
ICFail ==
    /\ icAt \in DOMAIN ICAfter
    /\ icIncidents < MaxIncidents /\ icIncidents' = icIncidents + 1 /\ ICFinish
    /\ \/ UNCHANGED icFiles
       \/ icAt = "crt" /\ icFiles' = [icFiles EXCEPT ![icIP].whole = FALSE]
    /\ UNCHANGED <<icSettings, icRefused, icMoves>>

\* The process dies, its issuance too, and boots again.
ICDie ==
    /\ icIncidents < MaxIncidents /\ icIncidents' = icIncidents + 1
    /\ icAt' = "idle" /\ icIP' = NoHost /\ icCli' = FALSE /\ ICLoad("dead")
    /\ UNCHANGED <<icPairs, icRefused, icMoves>>

----------------------------------------------------------------------------

ICIssuance == ICObtain \/ ICWrite \/ ICReload

ICNext ==
    \/ \E a \in Hosts : ICRetarget(a) \/ ICCommand(a)
    \/ ICRestart \/ ICPass
    \/ ICObtain \/ ICWrite \/ ICReload
    \/ ICFail \/ ICDie

\* The cron job keeps its period and an issuance ends within it.
ICFairness == WF_icVars(ICPass) /\ WF_icVars(ICIssuance)

ICSpec == ICInit /\ [][ICNext]_icVars /\ ICFairness

----------------------------------------------------------------------------

\* The margin of ipCertRenewThreshold: without an incident the certificate the
\* panel serves is still valid, although the authority refuses several times in
\* a row, the address moves and the panel restarts in the middle of a renewal.
ICServedIsValid ==
    icIncidents = 0 /\ icPanel = "up" /\ icServed.ip # NoHost => icServed.left > 0

\* What is stored never promises more than the files hold, or a renewal that is
\* due would be put off.
ICStoredIsTrue == icLast # NoHost => icLeft <= icFiles[icLast].left

\* A panel that runs comes to serve the address that is configured, whatever
\* failed in between: a failed apply, which leaves the new notAfter behind, is
\* made good at the latest by the next renewal.
ICServesTarget ==
    icTarget # icServed.ip /\ icTarget # NoHost
        ~> icTarget = icServed.ip \/ icPanel = "dead"

\* A restart that meets half of a pair leaves the panel without a web server
\* only until the renewal, which goes on, restarts it again.
ICTornIsRepaired ==
    \A n \in 0..MaxIncidents :
        icPanel = "down" /\ icAt \notin {"idle", "obtain"} /\ icIncidents = n
            ~> icPanel = "up" \/ icIncidents > n

\* What is served is valid, and what is stored of it true.
ICCertificateIsValid == ICTypeOK /\ ICServedIsValid /\ ICStoredIsTrue

\* The panel comes to serve the right certificate, whatever failed.
ICCertificateIsServed == ICServesTarget /\ ICTornIsRepaired
=============================================================================
