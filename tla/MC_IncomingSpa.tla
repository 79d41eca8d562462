--------------------------- MODULE MC_IncomingSpa ---------------------------
(***************************************************************************)
(* Small instances of IncomingSpa for TLC.  Three clients' messages and   *)
(* four access stanzas: a mis-keyed one first, an expiring Rijndael one   *)
(* that also allows commands, a GnuPG one that requires a signer, and a   *)
(* command-cycle one.  The .cfg files choose the configuration switches. *)
(***************************************************************************)
EXTENDS IncomingSpa

CONSTANTS k1, k2, k3, s1, s2, u1, u2, ip1, ip2, r1, r2

(* Whether the command stanza sets CMD_EXEC_USER to a user other than   *)
(* root (run_extcmd_as(), no timeout) or leaves it unset (run_extcmd()). *)
CONSTANT CmdAsUser

MC_Keys == {k1, k2, k3}
MC_Signers == {s1, s2}
MC_Users == {u1, u2}
MC_Ips == {ip1, ip2}
MC_Requests == {r1, r2}
MC_SdpIds == {1, 2}

(* A Rijndael access request for r1 asking for the packet source (0.0.0.0) *)
mAccess == [key |-> k1, enc |-> "rijndael", signer |-> s1, sdpId |-> 1,
            user |-> u1, type |-> "access", ts |-> 0, src |-> ZeroIp,
            req |-> r1, timeout |-> 0]
(* A Rijndael command message *)
mCmd == [key |-> k1, enc |-> "rijndael", signer |-> s1, sdpId |-> 1,
         user |-> u2, type |-> "cmd", ts |-> 0, src |-> ip2,
         req |-> r2, timeout |-> 30]
(* A GnuPG service-access request signed by s2 *)
mSvc == [key |-> k3, enc |-> "gpg", signer |-> s2, sdpId |-> 2,
         user |-> u1, type |-> "svc", ts |-> 1, src |-> ip1,
         req |-> r1, timeout |-> 0]

MC_Msgs == {mAccess, mCmd, mSvc}

NoStanza == [src |-> {}, hasDst |-> FALSE, dst |-> {}, expire |-> 0,
             key |-> NoKey, cmdExec |-> FALSE, gpgKey |-> NoKey,
             gpgPw |-> FALSE, gpgRequireSig |-> FALSE, hasFpr |-> FALSE,
             remoteFpr |-> {}, hasId |-> FALSE, remoteId |-> {},
             requireSrc |-> FALSE, requireUser |-> NoUser,
             cmdCycle |-> FALSE, openPorts |-> {}, services |-> {},
             timeout |-> 0, cycleTimer |-> 0, cmdAsUser |-> FALSE]

MC_Stanzas ==
    << [NoStanza EXCEPT !.src = {ip1}, !.key = k2, !.openPorts = {r1, r2}],
       [NoStanza EXCEPT !.src = {ip1, ip2}, !.key = k1, !.expire = 1,
                        !.cmdExec = TRUE, !.cmdAsUser = CmdAsUser,
                        !.openPorts = {r1},
                        !.hasDst = TRUE,
                        !.dst = {ZeroIp}],
       [NoStanza EXCEPT !.src = {ip1, ip2}, !.gpgKey = k3, !.gpgPw = TRUE,
                        !.gpgRequireSig = TRUE, !.hasFpr = TRUE,
                        !.remoteFpr = {s2}, !.services = {r1},
                        !.timeout = 1],
       [NoStanza EXCEPT !.src = {ip2}, !.key = k1, !.cmdCycle = TRUE,
                        !.cycleTimer = 1, !.requireUser = u2] >>

MC_AccHash == [id \in MC_SdpIds |-> IF id = 1 THEN 2 ELSE 3]
=============================================================================
