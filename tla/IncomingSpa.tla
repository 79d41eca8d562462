---------------------------- MODULE IncomingSpa ----------------------------
(***************************************************************************)
(* The SPA ingestion and authorization pipeline of fwknopd:                *)
(* src/server/incoming_spa.c, driven by the receive path of                *)
(* src/server/udp_server.c.                                                *)
(*                                                                         *)
(* One datagram at a time goes through                                     *)
(*   Receive -> Precheck -> ReplayCheck -> Lookup -> ProcessSpaData*       *)
(* where ProcessSpaData is one call of process_spa_data() for one access   *)
(* stanza (the whole handler, its early returns included).  In classic    *)
(* mode (DISABLE_SDP_MODE=Y) the stanzas are tried in list order until one *)
(* returns STOP_SEARCHING; in SDP mode the stanza found in the hash table  *)
(* by the client's SDP id is tried once.                                   *)
(*                                                                         *)
(* Data is abstracted: a datagram is a record naming the authenticated    *)
(* message it carries (a member of Msgs), how it is wrapped on the wire    *)
(* and which prefix its data starts with; cryptography (libfko) is         *)
(* abstracted to "decrypts iff the stanza holds the key the message was    *)
(* made with".  Firewall, command and command-cycle effects are recorded   *)
(* in the history variable `actions`.                                      *)
(***************************************************************************)
EXTENDS Integers, Sequences, FiniteSets

CONSTANTS
    Keys,        \* symmetric keys and GnuPG decryption identities
    Signers,     \* GnuPG signers (fingerprint and id are both of a signer)
    Users,       \* usernames carried in SPA data
    Ips,         \* IPv4 addresses other than 0.0.0.0
    Requests,    \* requested "proto/port" or service-id lists
    SdpIds,      \* non-zero SDP client ids
    NoKey,       \* stanza has no key of this kind (model value)
    NoUser,      \* stanza has no REQUIRE_USERNAME (model value)
    ZeroIp,      \* the address 0.0.0.0
    BadIp,       \* an embedded source that is not a valid IPv4 string
    NoComma,     \* an SPA message with no ',' after the source field
    NoPkt,       \* the packet slot before the first datagram (model value)
    Msgs,        \* the authenticated SPA messages clients have produced
    Stanzas,     \* access.conf stanzas, in file order (acc_stanzas list)
    AccHash,     \* SDP id -> stanza index, 0 when absent (acc_stanza_hash_tbl)
    MinSpaDataSize, MaxSpaPacketLen, MinGnupgMsgSize,
    HttpHeaderLen,  \* bytes an HTTP request adds around the SPA data
    DataLens,       \* lengths of SPA data the environment sends
    EnableSpaOverHttp, DisableSdpMode, EnableDigestPersistence,
    EnableSpaPacketAging, AllowLegacyAccessRequests,
    EnableForwarding, EnableLocalNat,  \* ENABLE_{IPT,FIREWD}_FORWARDING / _LOCAL_NAT
    NatSupported,   \* built with FIREWALL_IPTABLES or FIREWALL_FIREWALLD
    MaxSpaPacketAge,
    TestMode,       \* opts->test (--test)
    EnableFw,       \* opts->enable_fw: the loop checks firewall rules
    StoreMayFail,   \* add_replay() may fail (disk or db error)
    DefFwAccessTimeout,
    IntBits,        \* width of C int (ts_diff in check_pkt_age)
    MaxTime,        \* bound on the clock
    PacketCtrLimit  \* opts->packet_ctr_limit, also the bound on datagrams

KEEP == "KEEP_SEARCHING"
STOP == "STOP_SEARCHING"
ConfValues == {"Y", "N", "X"}    \* "X": any string starting with neither
EncTypes == {"rijndael", "gpg"}
Leads == {"none", "salt", "gpg"} \* B64_RIJNDAEL_SALT / B64_GPG_PREFIX
MsgTypes == {"access", "ctAccess", "nat", "ctNat", "localNat",
             "ctLocalNat", "cmd", "svc", "ctSvc"}
ServiceTypes == {"svc", "ctSvc"}
NatTypes == {"nat", "ctNat"}
LocalNatTypes == {"localNat", "ctLocalNat"}
SrcFields == Ips \cup {ZeroIp, BadIp, NoComma}
Addrs == Ips \cup {ZeroIp}

MsgRec == [key: Keys, enc: EncTypes, signer: Signers, sdpId: SdpIds \cup {0},
           user: Users, type: MsgTypes, ts: Nat, src: SrcFields,
           req: Requests, timeout: Nat]

StanzaRec == [src: SUBSET Ips, hasDst: BOOLEAN, dst: SUBSET Addrs,
              expire: Nat, key: Keys \cup {NoKey}, cmdExec: BOOLEAN,
              gpgKey: Keys \cup {NoKey}, gpgPw: BOOLEAN,
              gpgRequireSig: BOOLEAN, hasFpr: BOOLEAN,
              remoteFpr: SUBSET Signers, hasId: BOOLEAN,
              remoteId: SUBSET Signers, requireSrc: BOOLEAN,
              requireUser: Users \cup {NoUser}, cmdCycle: BOOLEAN,
              openPorts: SUBSET Requests, services: SUBSET Requests,
              timeout: Nat, cycleTimer: Nat, cmdAsUser: BOOLEAN]

ASSUME MsgsAssumption == Msgs \subseteq MsgRec

ASSUME StanzasAssumption ==
    /\ Stanzas \in Seq(StanzaRec)
    /\ AccHash \in [SdpIds -> 0..Len(Stanzas)]

ASSUME BoundsAssumption ==
    /\ {MinSpaDataSize, MaxSpaPacketLen, MinGnupgMsgSize, HttpHeaderLen,
        MaxSpaPacketAge, DefFwAccessTimeout, MaxTime} \subseteq Nat
    /\ DataLens \subseteq Nat
    /\ IntBits \in Nat \ {0}
    /\ PacketCtrLimit \in Nat \ {0}

ASSUME ConfigAssumption ==
    /\ {EnableSpaOverHttp, DisableSdpMode, EnableDigestPersistence,
        EnableSpaPacketAging, AllowLegacyAccessRequests, EnableForwarding,
        EnableLocalNat} \subseteq ConfValues
    /\ {NatSupported, TestMode, StoreMayFail, EnableFw} \subseteq BOOLEAN

ASSUME NoPktAssumption ==
    NoPkt \notin [msg: Msgs, srcIp: Ips, http: BOOLEAN, lead: Leads,
                  len: DataLens, b64: BOOLEAN]

(* A datagram: the message it carries, its UDP source, whether it is an   *)
(* HTTP request wrapping the SPA data, the prefix the SPA data starts      *)
(* with, the length of the SPA data and whether it is valid base64.       *)
Wire == [msg: Msgs, srcIp: Ips, http: BOOLEAN, lead: Leads,
         len: DataLens, b64: BOOLEAN]

(* The replay digest is a hash of the (preprocessed) SPA data: it tells   *)
(* apart data that differ in their leading prefix.                        *)
Digest(w) == <<w.lead, w.msg>>
Digests == Leads \X Msgs

ActionKinds == {"fw", "cmd", "cycle"}
ActionRec == [n: 1..PacketCtrLimit, stanza: Nat, msg: Msgs,
              digest: Digests, kind: ActionKinds, at: 0..MaxTime,
              from: Ips, src: Addrs, timeout: Nat]

Phases == {"idle", "select", "pre", "replay", "lookup", "stanza", "extcmd",
           "stopped"}

VARIABLES
    pc,           \* where the receive loop / incoming_spa() is
    spa_pkt,      \* opts->spa_pkt: the datagram being processed
    acc,          \* the stanza being tried (index into Stanzas)
    replayCache,  \* the persistent digest store (is_replay / add_replay)
    expired,      \* acc->expired of every stanza
    now,          \* time(NULL)
    actions,      \* history: firewall / command / command-cycle effects
    packet_ctr,   \* opts->packet_ctr
    rules,        \* firewall rules in place (effects of kind "fw")
    cycles        \* command cycles opened and not yet closed

vars == <<pc, spa_pkt, acc, replayCache, expired, now, actions, packet_ctr,
          rules, cycles>>

NStanzas == Len(Stanzas)

(* The phases in which incoming_spa() is working on a datagram. *)
InPacket == {"pre", "replay", "lookup", "stanza", "extcmd"}

TypeOK ==
    /\ pc \in Phases
    /\ spa_pkt \in Wire \cup {NoPkt}
    /\ acc \in 0..NStanzas
    /\ replayCache \subseteq Digests
    /\ expired \in [1..NStanzas -> BOOLEAN]
    /\ now \in 0..MaxTime
    /\ actions \subseteq ActionRec
    /\ packet_ctr \in 0..PacketCtrLimit
    /\ rules \subseteq ActionRec
    /\ cycles \subseteq ActionRec
    /\ pc \in {"idle", "select"} => packet_ctr < PacketCtrLimit
    /\ pc \in InPacket =>
           spa_pkt \in Wire /\ packet_ctr \in 1..PacketCtrLimit
    /\ pc \in {"stanza", "extcmd"} => acc \in 1..NStanzas

ClassicMode == DisableSdpMode = "Y"
CommitsDigest == ~TestMode /\ EnableDigestPersistence = "Y"
StoreOutcomes == IF StoreMayFail THEN BOOLEAN ELSE {TRUE}

(* run_udp_server() fills spa_pkt.packet_dst_ip from the address it bound *)
(* to, INADDR_ANY, not from the datagram.                                  *)
ListenAddr == ZeroIp

-----------------------------------------------------------------------------
(* preprocess_spa_data(): TRUE when it returns FKO_SUCCESS.  The prefix   *)
(* blacklist looks at the raw datagram; HTTP unwrapping comes after it.    *)
RawLen(w) == IF w.http THEN w.len + HttpHeaderLen ELSE w.len
RawLead(w) == IF w.http THEN "none" ELSE w.lead   \* raw data starts "GET /"
HttpUnwrapped(w) == EnableSpaOverHttp = "Y" /\ w.http

(* Mutant: the Rijndael salt prefix is not blacklisted. *)
PrefixBlacklistedGpgOnly(w) ==
    RawLen(w) > MinGnupgMsgSize /\ RawLead(w) = "gpg"

PrefixBlacklisted(w) ==
    \/ RawLead(w) = "salt"
    \/ RawLen(w) > MinGnupgMsgSize /\ RawLead(w) = "gpg"

(* spa_pkt->sdp_id as preprocessing leaves it (0 outside SDP mode). *)
SdpIdOf(w) == IF DisableSdpMode = "N" THEN w.msg.sdpId ELSE 0

preprocess_spa_data(w) ==
    /\ RawLen(w) >= MinSpaDataSize
    /\ RawLen(w) <= MaxSpaPacketLen
    /\ ~PrefixBlacklisted(w)
    /\ HttpUnwrapped(w) => w.len >= MinSpaDataSize
    /\ w.http => HttpUnwrapped(w)     \* "GET /..." itself is not base64
    /\ w.b64
    /\ DisableSdpMode = "N" => w.msg.sdpId # 0

(* replay_check(): with persistence on, a digest already stored is a     *)
(* replay.                                                                 *)
(* Mutant: the digest is computed but never looked up. *)
replay_check_no_lookup(w) == TRUE

replay_check(w) ==
    EnableDigestPersistence = "Y" => Digest(w) \notin replayCache

(* src_check(): some stanza's SOURCE list holds the packet source.       *)
src_check(w) == \E i \in 1..NStanzas : w.srcIp \in Stanzas[i].src

(* sdp_id_check(): the SDP id is non-zero and in the hash table. *)
sdp_id_check(w) == SdpIdOf(w) # 0 /\ AccHash[SdpIdOf(w)] # 0

-----------------------------------------------------------------------------
(* The checks of process_spa_data() for stanza i on the current packet.  *)
Msg == spa_pkt.msg
EncType == Msg.enc     \* fko_encryption_type()

(* Mutant: only the DESTINATION list is checked. *)
src_dst_check_no_source(a) == a.hasDst => ListenAddr \in a.dst

src_dst_check(a) ==
    /\ spa_pkt.srcIp \in a.src
    /\ a.hasDst => ListenAddr \in a.dst

(* Mutant: only the expired flag is consulted, never the clock. *)
check_stanza_expiration_flag_only(i) ==
    Stanzas[i].expire > 0 => ~expired[i]

check_stanza_expiration(i) ==
    Stanzas[i].expire > 0 => (~expired[i] /\ now <= Stanzas[i].expire)

(* The step in which check_stanza_expiration() sets acc->expired. *)
Expires(i) ==
    /\ Stanzas[i].expire > 0
    /\ ~expired[i]
    /\ now > Stanzas[i].expire

(* libfko decrypts data with key k iff the message was made with k; it   *)
(* adds the salt / GnuPG prefix only when the data does not start with   *)
(* it already, so data carrying its own matching prefix decrypts too.    *)
LeadFits(w) ==
    \/ w.lead = "none"
    \/ w.lead = "salt" /\ w.msg.enc = "rijndael"
    \/ w.lead = "gpg" /\ w.msg.enc = "gpg"

Decrypts(k, enc) == k = Msg.key /\ enc = Msg.enc /\ LeadFits(spa_pkt)

RijndaelOK(a) ==    \* handle_rijndael_enc() sets cmd_exec_success
    /\ a.key # NoKey
    /\ EncType = "rijndael" \/ a.cmdExec
    /\ Decrypts(a.key, "rijndael")

GpgAttempted(a) ==
    /\ a.gpgKey # NoKey
    /\ EncType = "gpg"
    /\ ~RijndaelOK(a)
    /\ a.gpgPw

(* Mutant: a decryption was attempted, whether or not it worked. *)
check_mode_ctx_attempt_only(a) ==
    \/ a.key # NoKey /\ (EncType = "rijndael" \/ a.cmdExec)
    \/ GpgAttempted(a)

(* check_mode_ctx(): a decryption was attempted and the last one worked. *)
check_mode_ctx(a) ==
    \/ RijndaelOK(a)
    \/ GpgAttempted(a) /\ Decrypts(a.gpgKey, "gpg")

(* Mutant: the return value of add_replay() is ignored. *)
add_replay_cache_unchecked(storeOk) == TRUE

(* add_replay_cache(): fails only when add_replay() does. *)
add_replay_cache(storeOk) == CommitsDigest => storeOk

MsgTypePermitted ==
    \/ Msg.type \in ServiceTypes \cup {"cmd"}
    \/ AllowLegacyAccessRequests # "N"

handle_gpg_sigs(a) ==
    EncType = "gpg" /\ a.gpgRequireSig =>
        /\ a.hasFpr => Msg.signer \in a.remoteFpr
        /\ a.hasId => Msg.signer \in a.remoteId

(* Conversion of a value to a C int of IntBits bits (two's complement). *)
ToCInt(x) == ((x + 2^(IntBits - 1)) % 2^IntBits) - 2^(IntBits - 1)
AbsDiff(x, y) == IF x >= y THEN x - y ELSE y - x

(* ts_diff = labs(now_ts - timestamp), stored in an int. *)
(* Mutant: an off-by-one in the age comparison. *)
check_pkt_age_off_by_one ==
    EnableSpaPacketAging = "Y" =>
        ToCInt(AbsDiff(now, Msg.ts)) <= MaxSpaPacketAge + 1

check_pkt_age ==
    EnableSpaPacketAging = "Y" =>
        ToCInt(AbsDiff(now, Msg.ts)) <= MaxSpaPacketAge

check_src_access(a) == ~(Msg.src = ZeroIp /\ a.requireSrc)

UseSrcIp == IF Msg.src = ZeroIp THEN spa_pkt.srcIp ELSE Msg.src

check_username(a) ==
    ClassicMode /\ a.requireUser # NoUser => Msg.user = a.requireUser

check_nat_access_types ==
    /\ Msg.type \in NatTypes => NatSupported /\ EnableForwarding = "Y"
    /\ Msg.type \in LocalNatTypes => NatSupported /\ EnableLocalNat = "Y"

set_timeout(a) ==
    IF Msg.timeout > 0 THEN Msg.timeout
    ELSE IF a.timeout > 0 THEN a.timeout
    ELSE DefFwAccessTimeout

(* The early returns of process_spa_data(), in code order, each with the *)
(* verdict it returns.                                                     *)
Stages(i, storeOk) ==
    LET a == Stanzas[i] IN
    << [pass |-> src_dst_check(a),           onFail |-> KEEP],
       [pass |-> check_stanza_expiration(i), onFail |-> KEEP],
       [pass |-> check_mode_ctx(a),          onFail |-> KEEP],
       [pass |-> add_replay_cache(storeOk),  onFail |-> KEEP],
       [pass |-> MsgTypePermitted,           onFail |-> STOP],
       [pass |-> handle_gpg_sigs(a),         onFail |-> KEEP],
       [pass |-> check_pkt_age,              onFail |-> KEEP],
       [pass |-> Msg.src # NoComma,          onFail |-> KEEP],
       [pass |-> Msg.src # BadIp,            onFail |-> STOP],
       [pass |-> check_src_access(a),        onFail |-> KEEP],
       [pass |-> check_username(a),          onFail |-> KEEP],
       [pass |-> check_nat_access_types,     onFail |-> KEEP] >>

ExpiryStage == 2
CommitStage == 4

Result(v, k) == [verdict |-> v, kind |-> k]

process_cmd_msg(a) ==
    IF a.cmdExec /\ ~TestMode THEN Result(STOP, "cmd") ELSE Result(KEEP, "none")

(* What process_spa_data() does once every check has passed. *)
Dispatch(a, cycleOk) ==
    IF a.cmdCycle
        THEN IF cycleOk THEN Result(STOP, "cycle") ELSE Result(KEEP, "none")
    ELSE IF Msg.type = "cmd" THEN process_cmd_msg(a)
    ELSE IF Msg.type \in ServiceTypes /\ Msg.req \notin a.services
        THEN Result(STOP, "none")
    ELSE IF Msg.type \notin ServiceTypes /\ Msg.req \notin a.openPorts
        THEN Result(KEEP, "none")
    ELSE IF TestMode THEN Result(KEEP, "none")
    ELSE Result(STOP, "fw")

-----------------------------------------------------------------------------
(* The end of incoming_spa() and of one round of the receive loop: the   *)
(* loop stops once packet_ctr reaches packet_ctr_limit.                  *)
(* Mutant: the loop ignores packet_ctr_limit. *)
EndPacketNoLimit ==
    /\ pc' = "idle"
    /\ acc' = 0

EndPacket ==
    /\ pc' = IF packet_ctr >= PacketCtrLimit THEN "stopped" ELSE "idle"
    /\ acc' = 0

(* What the receive loop's housekeeping does with an effect.  A firewall *)
(* rule expires timeout seconds after it was added (check_firewall_rules *)
(* deletes rules whose expiry has come); a command cycle is closed       *)
(* cmd_cycle_timer seconds after it was opened (cmd_cycle_close).        *)
Expiry(x) == x.at + x.timeout

RuleExpired(x) == Expiry(x) <= now

CycleDue(x) == Expiry(x) <= now

Init ==
    /\ pc = "idle"
    /\ spa_pkt = NoPkt
    /\ acc = 0
    /\ replayCache = {}
    /\ expired = [i \in 1..NStanzas |-> FALSE]
    /\ now = 0
    /\ actions = {}
    /\ packet_ctr = 0
    /\ rules = {}
    /\ cycles = {}

(* Top of the receive loop: a terminating signal ends it (sig_do_stop). *)
SigStop ==
    /\ pc = "idle"
    /\ pc' = "stopped"
    /\ UNCHANGED <<spa_pkt, acc, replayCache, expired, now, actions,
                   packet_ctr, rules, cycles>>

(* Outside --test: check_firewall_rules() and cmd_cycle_close(), then   *)
(* select() on the socket.                                               *)
Housekeep ==
    /\ pc = "idle"
    /\ pc' = "select"
    /\ IF TestMode
          THEN UNCHANGED <<rules, cycles>>
          ELSE /\ rules' = IF EnableFw THEN {x \in rules : ~RuleExpired(x)}
                                       ELSE rules
               /\ cycles' = {x \in cycles : ~CycleDue(x)}
    /\ UNCHANGED <<spa_pkt, acc, replayCache, expired, now, actions,
                   packet_ctr>>

(* Mutant: after a timeout select() is called again at once, without   *)
(* going back to the top of the loop and its housekeeping.              *)
SelectTimeoutRetry ==
    /\ pc = "select"
    /\ UNCHANGED vars

(* select() returned 0 (the timeout) or -1 with EINTR: next round.  Any *)
(* other error leaves the loop.                                           *)
SelectTimeout ==
    /\ pc = "select"
    /\ pc' = "idle"
    /\ UNCHANGED <<spa_pkt, acc, replayCache, expired, now, actions,
                   packet_ctr, rules, cycles>>

SelectError ==
    /\ pc = "select"
    /\ pc' = "stopped"
    /\ UNCHANGED <<spa_pkt, acc, replayCache, expired, now, actions,
                   packet_ctr, rules, cycles>>

(* recvfrom() returned a datagram; it is copied into opts->spa_pkt. *)
Receive ==
    /\ pc = "select"
    /\ \E w \in Wire :
        /\ spa_pkt' = w
        /\ pc' = "pre"
        /\ packet_ctr' = packet_ctr + 1
    /\ UNCHANGED <<acc, replayCache, expired, now, actions, rules, cycles>>

(* recvfrom() returned an empty datagram: incoming_spa() is not called,  *)
(* the packet still counts towards packet_ctr_limit.                     *)
ReceiveEmpty ==
    /\ pc = "select"
    /\ packet_ctr' = packet_ctr + 1
    /\ pc' = IF packet_ctr + 1 >= PacketCtrLimit THEN "stopped" ELSE "idle"
    /\ UNCHANGED <<spa_pkt, acc, replayCache, expired, now, actions,
                   rules, cycles>>

Precheck ==
    /\ pc = "pre"
    /\ IF preprocess_spa_data(spa_pkt)
          THEN pc' = "replay" /\ UNCHANGED acc
          ELSE EndPacket
    /\ UNCHANGED <<spa_pkt, replayCache, expired, now, actions, packet_ctr,
                   rules, cycles>>

ReplayCheck ==
    /\ pc = "replay"
    /\ IF replay_check(spa_pkt)
          THEN pc' = "lookup" /\ UNCHANGED acc
          ELSE EndPacket
    /\ UNCHANGED <<spa_pkt, replayCache, expired, now, actions, packet_ctr,
                   rules, cycles>>

(* src_check() in classic mode, sdp_id_check() in SDP mode. *)
Lookup ==
    /\ pc = "lookup"
    /\ \/ /\ ClassicMode
          /\ IF src_check(spa_pkt)
                THEN pc' = "stanza" /\ acc' = 1
                ELSE EndPacket
       \/ /\ ~ClassicMode
          /\ IF sdp_id_check(spa_pkt)
                THEN pc' = "stanza" /\ acc' = AccHash[SdpIdOf(spa_pkt)]
                ELSE EndPacket
    /\ UNCHANGED <<spa_pkt, replayCache, expired, now, actions, packet_ctr,
                   rules, cycles>>

(* Stage k of st is reached when every earlier stage passed; the first   *)
(* stage that fails gives process_spa_data() its return value.          *)
Reached(st, k) == \A j \in 1..(k - 1) : st[j].pass
AllPass(st) == \A k \in 1..Len(st) : st[k].pass
FirstFailure(st) == CHOOSE k \in 1..Len(st) : Reached(st, k) /\ ~st[k].pass

Outcome(st, a, cycleOk) ==
    IF AllPass(st) THEN Dispatch(a, cycleOk)
    ELSE Result(st[FirstFailure(st)].onFail, "none")

(* The effect record process_spa_data() leaves when it acts; a command  *)
(* cycle is timed by the stanza's CMD_CYCLE_TIMER.                       *)
Effect(a, kind) ==
    [n |-> packet_ctr, stanza |-> acc, msg |-> Msg, digest |-> Digest(spa_pkt),
     kind |-> kind, at |-> now, from |-> spa_pkt.srcIp, src |-> UseSrcIp,
     timeout |-> IF kind = "cycle" THEN a.cycleTimer ELSE set_timeout(a)]

(* Mutant: acc = acc->next is left out of the stanza loop. *)
NextStanzaSame == acc

NextStanza == acc + 1

(* Whether the stanza loop goes on to the next stanza after a verdict.  *)
(* Mutant: the loop does not break on STOP_SEARCHING.                    *)
SearchOnNoBreak(out) == ClassicMode /\ acc < NStanzas

SearchOn(out) == out.verdict = KEEP /\ ClassicMode /\ acc < NStanzas

(* The loop of incoming_spa() after process_spa_data() returned out:     *)
(* acc = acc->next, or the end of the packet.                            *)
AfterVerdict(out) ==
    IF SearchOn(out) THEN pc' = "stanza" /\ acc' = NextStanza ELSE EndPacket

(* One call of process_spa_data() for stanza acc, and what the loop of   *)
(* incoming_spa() does with its verdict; storeOk is whether add_replay() *)
(* succeeds and cycleOk whether cmd_cycle_open() does.  A command is     *)
(* started here and process_spa_data() waits for it in phase "extcmd".   *)
ProcessStanza(storeOk, cycleOk) ==
    LET a == Stanzas[acc]
        st == Stages(acc, storeOk)
        out == Outcome(st, a, cycleOk)
        e == Effect(a, out.kind)
    IN
    /\ expired' = IF Reached(st, ExpiryStage) /\ Expires(acc)
                     THEN [expired EXCEPT ![acc] = TRUE]
                     ELSE expired
    /\ replayCache' = IF Reached(st, CommitStage) /\ CommitsDigest /\ storeOk
                         THEN replayCache \cup {Digest(spa_pkt)}
                         ELSE replayCache
    /\ actions' = IF out.kind = "none" THEN actions ELSE actions \cup {e}
    /\ rules' = IF out.kind = "fw" THEN rules \cup {e} ELSE rules
    /\ cycles' = IF out.kind = "cycle" THEN cycles \cup {e} ELSE cycles
    /\ IF out.kind = "cmd" THEN pc' = "extcmd" /\ UNCHANGED acc
                            ELSE AfterVerdict(out)

ProcessSpaData ==
    /\ pc = "stanza"
    /\ \E storeOk \in StoreOutcomes, cycleOk \in BOOLEAN :
          ProcessStanza(storeOk, cycleOk)
    /\ UNCHANGED <<spa_pkt, now, packet_ctr>>

(* process_cmd_msg() gets the command's status back from run_extcmd() *)
(* (5 s timeout) or run_extcmd_as() (CMD_EXEC_USER not root, no        *)
(* timeout) and returns 1: process_spa_data() returns STOP_SEARCHING.   *)
CmdReturn ==
    /\ pc = "extcmd"
    /\ AfterVerdict(Result(STOP, "cmd"))
    /\ UNCHANGED <<spa_pkt, replayCache, expired, now, actions, packet_ctr,
                   rules, cycles>>

(* The clock advances. *)
Tick ==
    /\ now < MaxTime
    /\ now' = now + 1
    /\ UNCHANGED <<pc, spa_pkt, acc, replayCache, expired, actions, packet_ctr,
                   rules, cycles>>

(* The receive loop has left: the process stays as it is. *)
Stopped ==
    /\ pc = "stopped"
    /\ UNCHANGED vars

Next ==
    \/ SigStop
    \/ Housekeep
    \/ SelectTimeout
    \/ SelectError
    \/ Receive
    \/ ReceiveEmpty
    \/ Precheck
    \/ ReplayCheck
    \/ Lookup
    \/ ProcessSpaData
    \/ CmdReturn
    \/ Tick
    \/ Stopped

Spec == Init /\ [][Next]_vars

(* The receive loop is one thread that runs each step of a packet to its *)
(* end, and comes back to housekeeping after every select() timeout; the *)
(* clock keeps running.  A command run by run_extcmd() is killed after   *)
(* 5 seconds, so it returns; one run by run_extcmd_as() has no timeout   *)
(* and may never return.  Datagrams, signals and socket errors come from *)
(* outside and are not assumed to happen.                                *)
Fairness ==
    /\ WF_vars(Housekeep)
    /\ WF_vars(SelectTimeout)
    /\ WF_vars(Precheck)
    /\ WF_vars(ReplayCheck)
    /\ WF_vars(Lookup)
    /\ WF_vars(ProcessSpaData)
    /\ WF_vars(CmdReturn /\ ~Stanzas[acc].cmdAsUser)
    /\ WF_vars(Tick)

LiveSpec == Spec /\ Fairness

-----------------------------------------------------------------------------
(* Properties *)

(* P2, replay suppression: with digest persistence on and outside --test, *)
(* no two firewall / command / command-cycle effects come from data with  *)
(* the same digest, in one packet or across packets.  It rests on         *)
(* replay_check() refusing stored digests and on add_replay_cache()       *)
(* storing the digest before any effect of process_spa_data().           *)
ReplayOncePerDigest ==
    CommitsDigest =>
        \A x, y \in actions : x.digest = y.digest => x = y

(* The same for the authenticated message itself: a message a client     *)
(* produced has at most one effect however it is re-wrapped on the wire. *)
(* This is what the prefix blacklist of preprocess_spa_data() is for.   *)
OneEffectPerMessage ==
    CommitsDigest =>
        \A x, y \in actions : x.msg = y.msg => x = y

(* The access policy of the stanza an effect is attributed to admits it: *)
(* the packet came from its SOURCE, the stanza holds the message's key,  *)
(* had not expired, and its policy admits the message type and request.  *)
Authorized(x) ==
    LET a == Stanzas[x.stanza]
        m == x.msg
    IN
    /\ x.from \in a.src
    /\ m.key \in {a.key, a.gpgKey}
    /\ a.expire > 0 => x.at <= a.expire
    /\ AllowLegacyAccessRequests = "N" =>
           m.type \in ServiceTypes \cup {"cmd"}
    /\ x.kind = "cmd" => a.cmdExec /\ m.type = "cmd"
    /\ x.kind = "fw" =>
           \/ m.type \in ServiceTypes /\ m.req \in a.services
           \/ m.type \notin ServiceTypes \cup {"cmd"}
              /\ m.req \in a.openPorts
    /\ x.kind = "cycle" => a.cmdCycle

(* With packet aging on, the message's timestamp is within              *)
(* MAX_SPA_PACKET_AGE seconds of the server clock when it is acted on.   *)
Fresh(x) ==
    EnableSpaPacketAging = "Y" => AbsDiff(x.at, x.msg.ts) <= MaxSpaPacketAge

(* Every effect is justified by the stanza it is attributed to           *)
(* (src_dst_check, check_stanza_expiration, check_mode_ctx, the message  *)
(* type, command, service and port checks of process_spa_data()).        *)
GrantAuthorized == \A x \in actions : Authorized(x)

(* P4, freshness: with packet aging on, no effect is produced for a     *)
(* message whose timestamp is more than MAX_SPA_PACKET_AGE seconds away *)
(* from the server clock (check_pkt_age()).                             *)
Freshness == \A x \in actions : Fresh(x)

(* P8, test mode: with --test the server neither changes the firewall   *)
(* nor runs commands, whatever it receives.                             *)
TestModeInert == TestMode => actions = {}

(* The SPA path implements its abstract specification: each datagram     *)
(* fwknopd receives (packet_ctr counts them) is granted at most one      *)
(* effect, while it is being handled, whatever the verdicts of the       *)
(* stanzas tried for it; each effect is admitted by the policy of its    *)
(* stanza and fresh, and with digest persistence on (outside --test) no  *)
(* two are for the same SPA data.                                        *)
Authorization ==
    INSTANCE SpaAuthorization
        WITH handled <- packet_ctr,
             granted <- actions,
             Grantable <- {x \in ActionRec : Authorized(x) /\ Fresh(x)},
             OncePerDigest <- CommitsDigest,
             Limit <- PacketCtrLimit

AuthorizationSpec == Authorization!Spec

(* Commit before effect: with digest persistence on and outside --test, *)
(* a step that produces a firewall, command or cycle effect stores the   *)
(* effect's digest in the replay store in that same step; a failed       *)
(* add_replay() (add_replay_cache(), incoming_spa.c 918-936) must keep   *)
(* process_spa_data() from acting on the packet at all.                  *)
CommitBeforeEffect ==
    [][CommitsDigest =>
         \A x \in actions' \ actions : x.digest \in replayCache']_vars

(* The receive loop is stuck in a command run as CMD_EXEC_USER, which has *)
(* no timeout.                                                           *)
BlockedInCommand == pc = "extcmd" /\ Stanzas[acc].cmdAsUser

(* The stanza loop terminates: every datagram handed to incoming_spa()   *)
(* is eventually done with, whatever each process_spa_data() call       *)
(* returns, and the receive loop is back at its top or has left, unless *)
(* it waits for a command that has no timeout.                          *)
PacketEnds ==
    pc \in InPacket ~> (pc \in {"idle", "stopped"} \/ BlockedInCommand)

(* Access is time-boxed: a firewall rule added for the n-th datagram is  *)
(* eventually deleted by the receive loop's check_firewall_rules(),      *)
(* unless the loop has left or is stuck in a command without timeout    *)
(* (rules whose expiry lies beyond the clock bound MaxTime are not       *)
(* followed).                                                            *)
RulesExpire ==
    \A n \in 1..PacketCtrLimit :
        (\E x \in rules : x.n = n /\ Expiry(x) <= MaxTime)
            ~> ((\A x \in rules : x.n # n) \/ pc = "stopped"
                \/ BlockedInCommand)

(* Every command cycle opened by cmd_cycle_open() is eventually closed  *)
(* by the receive loop's cmd_cycle_close(), unless the loop has left or *)
(* is stuck in a command without timeout.                                *)
CyclesClose ==
    \A n \in 1..PacketCtrLimit :
        (\E x \in cycles : x.n = n /\ Expiry(x) <= MaxTime)
            ~> ((\A x \in cycles : x.n # n) \/ pc = "stopped"
                \/ BlockedInCommand)

=============================================================================
