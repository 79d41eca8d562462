------------------------- MODULE IncomingSpaProofs -------------------------
(***************************************************************************)
(* Proofs about IncomingSpa, for every value of the constants that        *)
(* satisfies its assumptions.                                              *)
(***************************************************************************)
EXTENDS IncomingSpa, TLAPS

(* The inductive strengthening of ReplayOncePerDigest.  With digest     *)
(* persistence on and outside --test: every effect's digest is in the  *)
(* store (add_replay_cache() runs before any effect), and from the      *)
(* replay check until the packet ends no effect carries the current     *)
(* packet's digest (an effect always comes with STOP_SEARCHING, which   *)
(* ends the packet).                                                    *)
ReplayInv ==
    /\ TypeOK
    /\ CommitsDigest => \A x \in actions : x.digest \in replayCache
    /\ CommitsDigest /\ pc \in {"lookup", "stanza"} =>
           \A x \in actions : x.digest # Digest(spa_pkt)
    /\ ReplayOncePerDigest

LEMMA InitTypeOK == Init => TypeOK
  BY BoundsAssumption, StanzasAssumption DEF Init, TypeOK, Phases, NStanzas, InPacket

LEMMA ReceiveTypeOK == TypeOK /\ Receive => TypeOK'
  BY BoundsAssumption DEF Receive, TypeOK, Phases, InPacket

LEMMA ReceiveEmptyTypeOK == TypeOK /\ ReceiveEmpty => TypeOK'
  BY BoundsAssumption DEF ReceiveEmpty, TypeOK, Phases, InPacket

LEMMA SigStopTypeOK == TypeOK /\ SigStop => TypeOK'
  BY DEF SigStop, TypeOK, Phases, InPacket

LEMMA HousekeepTypeOK == TypeOK /\ Housekeep => TypeOK'
  BY DEF Housekeep, TypeOK, Phases, InPacket

LEMMA SelectTimeoutTypeOK == TypeOK /\ SelectTimeout => TypeOK'
  BY DEF SelectTimeout, TypeOK, Phases, InPacket

LEMMA SelectErrorTypeOK == TypeOK /\ SelectError => TypeOK'
  BY DEF SelectError, TypeOK, Phases, InPacket

(* A step that ends a packet leaves pc idle only below packet_ctr_limit. *)
LEMMA EndPacketTypeOK ==
    ASSUME TypeOK, EndPacket
    PROVE  /\ pc' \in {"idle", "stopped"}
           /\ pc' = "idle" => packet_ctr < PacketCtrLimit
           /\ acc' = 0
  BY BoundsAssumption DEF EndPacket, TypeOK

LEMMA NStanzasNat == NStanzas \in Nat
  BY StanzasAssumption DEF NStanzas

(* After a verdict for stanza acc the loop tries the next stanza, which *)
(* exists, or ends the packet; it goes on only when SearchOn(out).       *)
LEMMA AfterVerdictTypeOK ==
    ASSUME TypeOK, acc \in 1..NStanzas, NEW out, AfterVerdict(out)
    PROVE  /\ pc' \in {"stanza", "idle", "stopped"}
           /\ acc' \in 0..NStanzas
           /\ pc' = "idle" => packet_ctr < PacketCtrLimit
           /\ pc' = "stanza" => acc' \in 1..NStanzas /\ SearchOn(out)
           /\ ~SearchOn(out) => pc' \in {"idle", "stopped"} /\ acc' = 0
  <1>1. CASE SearchOn(out)
    BY <1>1, NStanzasNat DEF AfterVerdict, SearchOn, NextStanza
  <1>2. CASE ~SearchOn(out)
    BY <1>2, EndPacketTypeOK, NStanzasNat DEF AfterVerdict
  <1>3. QED
    BY <1>1, <1>2

(* A verdict with an effect is STOP_SEARCHING, after which the loop does *)
(* not go on.                                                            *)
LEMMA StopEnds ==
    ASSUME NEW out, out.verdict = STOP
    PROVE  ~SearchOn(out)
  BY DEF SearchOn, KEEP, STOP

(* process_spa_data() returns STOP_SEARCHING once the command returned. *)
LEMMA CmdReturnEnds == CmdReturn => EndPacket
  <1>1. ~SearchOn(Result(STOP, "cmd"))
    BY StopEnds DEF Result
  <1>2. QED
    BY <1>1 DEF CmdReturn, AfterVerdict

LEMMA PrecheckTypeOK == TypeOK /\ Precheck => TypeOK'
  <1> SUFFICES ASSUME TypeOK, Precheck PROVE TypeOK'
    OBVIOUS
  <1>1. CASE preprocess_spa_data(spa_pkt)
    BY <1>1 DEF Precheck, TypeOK, Phases, InPacket
  <1>2. CASE ~preprocess_spa_data(spa_pkt)
    BY <1>2, EndPacketTypeOK, NStanzasNat DEF Precheck, TypeOK, Phases, InPacket
  <1>3. QED
    BY <1>1, <1>2

LEMMA ReplayCheckTypeOK == TypeOK /\ ReplayCheck => TypeOK'
  <1> SUFFICES ASSUME TypeOK, ReplayCheck PROVE TypeOK'
    OBVIOUS
  <1>1. CASE replay_check(spa_pkt)
    BY <1>1 DEF ReplayCheck, TypeOK, Phases, InPacket
  <1>2. CASE ~replay_check(spa_pkt)
    BY <1>2, EndPacketTypeOK, NStanzasNat
    DEF ReplayCheck, TypeOK, Phases, InPacket
  <1>3. QED
    BY <1>1, <1>2

LEMMA LookupTypeOK == TypeOK /\ Lookup => TypeOK'
  <1> SUFFICES ASSUME TypeOK, Lookup PROVE TypeOK'
    OBVIOUS
  <1>1. CASE ClassicMode /\ src_check(spa_pkt)
    <2>1. 1 \in 1..NStanzas
      BY <1>1, StanzasAssumption DEF src_check, NStanzas
    <2>2. QED
      BY <1>1, <2>1 DEF Lookup, TypeOK, Phases, InPacket
  <1>2. CASE ~ClassicMode /\ sdp_id_check(spa_pkt)
    <2>1. spa_pkt \in Wire
      BY DEF Lookup, TypeOK, InPacket
    <2>2. SdpIdOf(spa_pkt) \in SdpIds
      BY <1>2, <2>1, MsgsAssumption DEF sdp_id_check, SdpIdOf, Wire, MsgRec
    <2>3. AccHash[SdpIdOf(spa_pkt)] \in 1..NStanzas
      BY <1>2, <2>2, StanzasAssumption DEF sdp_id_check, NStanzas
    <2>4. QED
      BY <1>2, <2>3 DEF Lookup, TypeOK, Phases, InPacket
  <1>3. CASE ~(ClassicMode /\ src_check(spa_pkt))
             /\ ~(~ClassicMode /\ sdp_id_check(spa_pkt))
    BY <1>3, EndPacketTypeOK, NStanzasNat DEF Lookup, TypeOK, Phases, InPacket
  <1>4. QED
    BY <1>1, <1>2, <1>3

LEMMA TickTypeOK == TypeOK /\ Tick => TypeOK'
  BY BoundsAssumption DEF Tick, TypeOK

LEMMA CmdReturnTypeOK == TypeOK /\ CmdReturn => TypeOK'
  BY CmdReturnEnds, EndPacketTypeOK, NStanzasNat
  DEF CmdReturn, TypeOK, Phases, InPacket

(* Stage 8 and stage 9 of process_spa_data() refuse a message whose    *)
(* source field has no ',' after it or is not an IPv4 address: when all *)
(* stages pass, the source is 0.0.0.0 or an address.                     *)
LEMMA AllPassSource ==
    ASSUME NEW i, NEW storeOk, AllPass(Stages(i, storeOk))
    PROVE  Msg.src \notin {NoComma, BadIp}
  <1>1. /\ Len(Stages(i, storeOk)) = 12
        /\ Stages(i, storeOk)[8].pass = (Msg.src # NoComma)
        /\ Stages(i, storeOk)[9].pass = (Msg.src # BadIp)
    BY DEF Stages
  <1>2. /\ Stages(i, storeOk)[8].pass
        /\ Stages(i, storeOk)[9].pass
    <2>1. \A k \in 1..12 : Stages(i, storeOk)[k].pass
      BY <1>1 DEF AllPass
    <2>2. 8 \in 1..12 /\ 9 \in 1..12
      OBVIOUS
    <2>3. QED
      BY <2>1, <2>2, Zenon
  <1>3. QED
    BY <1>1, <1>2

(* Every check of process_spa_data() passed. *)
LEMMA AllPassStages ==
    ASSUME NEW i, NEW storeOk, AllPass(Stages(i, storeOk))
    PROVE  \A k \in 1..12 : Stages(i, storeOk)[k].pass
  <1>1. Len(Stages(i, storeOk)) = 12
    BY DEF Stages
  <1>2. QED
    BY <1>1 DEF AllPass

(* An effect that process_spa_data() records is an effect record: its *)
(* source is an address because stages 8 and 9 passed.                 *)
LEMMA EffectTyped ==
    ASSUME TypeOK, pc = "stanza", NEW storeOk, NEW cycleOk,
           Outcome(Stages(acc, storeOk), Stanzas[acc], cycleOk).kind # "none"
    PROVE  Effect(Stanzas[acc],
                  Outcome(Stages(acc, storeOk), Stanzas[acc], cycleOk).kind)
             \in ActionRec
  <1> DEFINE a == Stanzas[acc]
             st == Stages(acc, storeOk)
             out == Outcome(st, a, cycleOk)
  <1>1. /\ spa_pkt \in Wire
        /\ acc \in 1..NStanzas
        /\ packet_ctr \in 1..PacketCtrLimit
    BY DEF TypeOK, InPacket
  <1>2. a \in StanzaRec
    BY <1>1, StanzasAssumption DEF NStanzas
  <1>3. Msg \in MsgRec
    BY <1>1, MsgsAssumption DEF Msg, Wire
  <1>4. out.kind \in ActionKinds
    BY DEF Outcome, Dispatch, process_cmd_msg, Result, ActionKinds
  <1>5. AllPass(st)
    BY DEF Outcome, Result
  <1>6. Msg.src \notin {NoComma, BadIp}
    BY <1>5, AllPassSource
  <1>7. UseSrcIp \in Addrs
    BY <1>1, <1>3, <1>6 DEF UseSrcIp, MsgRec, SrcFields, Addrs, Wire
  <1>8. set_timeout(a) \in Nat /\ a.cycleTimer \in Nat
    BY <1>2, <1>3, BoundsAssumption DEF set_timeout, MsgRec, StanzaRec
  <1>9. Digest(spa_pkt) \in Digests
    BY <1>1 DEF Digest, Digests, Wire
  <1>10. QED
    BY <1>1, <1>4, <1>7, <1>8, <1>9
    DEF Effect, ActionRec, TypeOK, Msg, Wire

(* An effect is new in a step only when process_spa_data() acted in it: *)
(* every other step of the loop leaves actions alone.                   *)
LEMMA NewEffect ==
    ASSUME [Next]_vars, NEW x \in actions', x \notin actions
    PROVE  \E storeOk, cycleOk :
              /\ pc = "stanza"
              /\ ProcessStanza(storeOk, cycleOk)
              /\ Outcome(Stages(acc, storeOk), Stanzas[acc], cycleOk).kind
                    # "none"
              /\ x = Effect(Stanzas[acc],
                     Outcome(Stages(acc, storeOk), Stanzas[acc], cycleOk).kind)
  <1>1. ProcessSpaData
    BY DEF Next, vars, SigStop, Housekeep, SelectTimeout, SelectError,
           Receive, ReceiveEmpty, Precheck, ReplayCheck, Lookup, CmdReturn,
           Tick, Stopped
  <1>2. PICK storeOk \in StoreOutcomes, cycleOk \in BOOLEAN :
               ProcessStanza(storeOk, cycleOk)
    BY <1>1 DEF ProcessSpaData
  <1>3. QED
    BY <1>1, <1>2 DEF ProcessSpaData, ProcessStanza

(* One call of process_spa_data() keeps TypeOK: an effect it records is *)
(* a well-formed record, in particular its source is an address.        *)
LEMMA ProcessSpaDataTypeOK == TypeOK /\ ProcessSpaData => TypeOK'
  <1> SUFFICES ASSUME TypeOK, ProcessSpaData PROVE TypeOK'
    OBVIOUS
  <1>1. /\ pc = "stanza"
        /\ spa_pkt \in Wire
        /\ acc \in 1..NStanzas
        /\ packet_ctr \in 1..PacketCtrLimit
        /\ UNCHANGED <<spa_pkt, now, packet_ctr>>
    BY DEF ProcessSpaData, TypeOK, InPacket
  <1>2. PICK storeOk \in StoreOutcomes, cycleOk \in BOOLEAN :
               ProcessStanza(storeOk, cycleOk)
    BY DEF ProcessSpaData
  <1> DEFINE a == Stanzas[acc]
             st == Stages(acc, storeOk)
             out == Outcome(st, a, cycleOk)
  <1>3. a \in StanzaRec
    BY <1>1, StanzasAssumption DEF NStanzas
  <1>4. Msg \in MsgRec
    BY <1>1, MsgsAssumption DEF Msg, Wire
  <1>5. out.kind \in ActionKinds \cup {"none"}
    BY DEF Outcome, Dispatch, process_cmd_msg, Result, ActionKinds
  <1>6. out.kind # "none" => AllPass(st)
    BY DEF Outcome, Result
  <1>7. out.kind # "none" => Effect(a, out.kind) \in ActionRec
    BY <1>1, EffectTyped
  <1>8. actions' \subseteq ActionRec
    BY <1>2, <1>7 DEF ProcessStanza, TypeOK
  <1>13. rules' \subseteq ActionRec /\ cycles' \subseteq ActionRec
    BY <1>2, <1>7 DEF ProcessStanza, TypeOK
  <1>9. replayCache' \subseteq Digests
    BY <1>1, <1>2 DEF ProcessStanza, TypeOK, Digest, Digests, Wire
  <1>10. expired' \in [1..NStanzas -> BOOLEAN]
    BY <1>1, <1>2 DEF ProcessStanza, TypeOK
  <1>11. /\ pc' \in Phases
         /\ acc' \in 0..NStanzas
         /\ pc' \in {"idle", "select"} => packet_ctr < PacketCtrLimit
         /\ pc' \in {"stanza", "extcmd"} => acc' \in 1..NStanzas
    <2>1. CASE out.kind = "cmd"
      BY <1>1, <1>2, <2>1 DEF ProcessStanza, Phases
    <2>2. CASE out.kind # "cmd"
      <3>1. AfterVerdict(out)
        BY <1>2, <2>2 DEF ProcessStanza
      <3>2. QED
        BY <1>1, <3>1, AfterVerdictTypeOK DEF Phases
    <2>3. QED
      BY <2>1, <2>2
  <1>12. QED
    BY <1>1, <1>8, <1>9, <1>10, <1>11, <1>13 DEF TypeOK, InPacket

LEMMA StoppedTypeOK == TypeOK /\ Stopped => TypeOK'
  BY DEF Stopped, vars, TypeOK

LEMMA StutterTypeOK == TypeOK /\ UNCHANGED vars => TypeOK'
  BY DEF vars, TypeOK

LEMMA NextTypeOK == TypeOK /\ [Next]_vars => TypeOK'
  BY SigStopTypeOK, HousekeepTypeOK, SelectTimeoutTypeOK,
     SelectErrorTypeOK, ReceiveTypeOK, ReceiveEmptyTypeOK, PrecheckTypeOK,
     ReplayCheckTypeOK, LookupTypeOK, ProcessSpaDataTypeOK, CmdReturnTypeOK,
     TickTypeOK, StoppedTypeOK, StutterTypeOK
  DEF Next

(* Type correctness: every reachable state of the receive loop and of   *)
(* incoming_spa() is well typed; in particular an effect is only ever   *)
(* recorded for a packet counted by packet_ctr, and the loop never      *)
(* processes a datagram once packet_ctr has reached packet_ctr_limit.   *)
THEOREM TypeCorrect == Spec => []TypeOK
  <1>1. Init => TypeOK
    BY InitTypeOK
  <1>2. TypeOK /\ [Next]_vars => TypeOK'
    BY NextTypeOK
  <1>3. QED
    BY <1>1, <1>2, PTL DEF Spec

-----------------------------------------------------------------------------
(* Replay suppression *)

(* process_spa_data() records an effect only on its STOP_SEARCHING      *)
(* paths, and only after every check has passed.                        *)
LEMMA EffectIsStop ==
    ASSUME NEW st, NEW a, NEW cycleOk,
           Outcome(st, a, cycleOk).kind # "none"
    PROVE  /\ Outcome(st, a, cycleOk).verdict = STOP
           /\ AllPass(st)
  BY DEF Outcome, Dispatch, process_cmd_msg, Result

(* When every check passed, the digest commit of add_replay_cache() was *)
(* reached and succeeded.                                               *)
LEMMA AllPassCommit ==
    ASSUME NEW i, NEW storeOk, AllPass(Stages(i, storeOk))
    PROVE  /\ Reached(Stages(i, storeOk), CommitStage)
           /\ add_replay_cache(storeOk)
  <1>1. /\ Len(Stages(i, storeOk)) = 12
        /\ Stages(i, storeOk)[4].pass = add_replay_cache(storeOk)
    BY DEF Stages
  <1>2. \A k \in 1..12 : Stages(i, storeOk)[k].pass
    BY <1>1 DEF AllPass
  <1>3. 1..(CommitStage - 1) \subseteq 1..12 /\ 4 \in 1..12
    BY DEF CommitStage
  <1>4. QED
    BY <1>1, <1>2, <1>3, Zenon DEF Reached

(* The steps that leave actions and replayCache alone, and enter the    *)
(* lookup or stanza phase only from one of them with the same packet,  *)
(* keep ReplayInv.                                                      *)
LEMMA ReplayInvFrame ==
    ASSUME ReplayInv, TypeOK',
           UNCHANGED <<actions, replayCache>>,
           pc' \in {"lookup", "stanza"} =>
               pc \in {"lookup", "stanza"} /\ spa_pkt' = spa_pkt
    PROVE  ReplayInv'
  BY DEF ReplayInv, ReplayOncePerDigest, CommitsDigest

(* With digest persistence on and outside --test, no two firewall,      *)
(* command or command-cycle effects come from data with the same digest *)
(* (replay_check() and add_replay_cache() together), for every stanza   *)
(* list, every configuration and every number of datagrams.             *)
(* ReplayInv holds in every reachable state. *)
LEMMA ReplayInvHolds == Spec => []ReplayInv
  <1>1. Init => ReplayInv
    BY InitTypeOK DEF Init, ReplayInv, ReplayOncePerDigest
  <1>2. ReplayInv /\ [Next]_vars => ReplayInv'
    <2> SUFFICES ASSUME ReplayInv, [Next]_vars PROVE ReplayInv'
      OBVIOUS
    <2>0. TypeOK /\ TypeOK'
      BY NextTypeOK DEF ReplayInv
    <2>1. CASE Receive
      BY <2>0, <2>1, ReplayInvFrame DEF Receive
    <2>2. CASE Precheck
      BY <2>0, <2>2, ReplayInvFrame, EndPacketTypeOK DEF Precheck
    <2>3. CASE ReplayCheck
      <3>1. CASE replay_check(spa_pkt)
        <4>1. pc' = "lookup" /\ UNCHANGED <<actions, replayCache, spa_pkt>>
          BY <2>3, <3>1 DEF ReplayCheck
        <4>2. CommitsDigest => \A x \in actions : x.digest # Digest(spa_pkt)
          BY <3>1 DEF replay_check, CommitsDigest, ReplayInv
        <4>3. QED
          BY <2>0, <4>1, <4>2 DEF ReplayInv, ReplayOncePerDigest
      <3>2. CASE ~replay_check(spa_pkt)
        BY <2>0, <2>3, <3>2, ReplayInvFrame, EndPacketTypeOK DEF ReplayCheck
      <3>3. QED
        BY <3>1, <3>2
    <2>4. CASE Lookup
      BY <2>0, <2>4, ReplayInvFrame, EndPacketTypeOK DEF Lookup
    <2>5. CASE ProcessSpaData
      <3>1. pc = "stanza" /\ UNCHANGED spa_pkt
        BY <2>5 DEF ProcessSpaData
      <3>2. PICK storeOk \in StoreOutcomes, cycleOk \in BOOLEAN :
                   ProcessStanza(storeOk, cycleOk)
        BY <2>5 DEF ProcessSpaData
      <3> DEFINE a == Stanzas[acc]
                 st == Stages(acc, storeOk)
                 out == Outcome(st, a, cycleOk)
      <3>3. replayCache \subseteq replayCache'
        BY <3>2 DEF ProcessStanza
      <3>4. CASE out.kind = "none"
        <4>1. actions' = actions
          BY <3>2, <3>4 DEF ProcessStanza
        <4>2. QED
          BY <2>0, <3>1, <3>3, <4>1 DEF ReplayInv, ReplayOncePerDigest
      <3>5. CASE out.kind # "none"
        <4>1. out.verdict = STOP /\ AllPass(st)
          BY <3>5, EffectIsStop
        <4>2. Reached(st, CommitStage) /\ add_replay_cache(storeOk)
          BY <4>1, AllPassCommit
        <4>3. CommitsDigest => Digest(spa_pkt) \in replayCache'
          BY <3>2, <4>2 DEF ProcessStanza, add_replay_cache
        <4>4. actions' = actions \cup {Effect(a, out.kind)}
          BY <3>2, <3>5 DEF ProcessStanza
        <4>5. Effect(a, out.kind).digest = Digest(spa_pkt)
          BY DEF Effect
        <4>6. pc' \notin {"lookup", "stanza"}
          <5>1. CASE out.kind = "cmd"
            BY <3>2, <5>1 DEF ProcessStanza
          <5>2. CASE out.kind # "cmd"
            <6>1. AfterVerdict(out) /\ ~SearchOn(out)
              BY <3>2, <4>1, <5>2, StopEnds DEF ProcessStanza
            <6>2. QED
              BY <2>0, <6>1, EndPacketTypeOK DEF AfterVerdict
          <5>3. QED
            BY <5>1, <5>2
        <4>7. CommitsDigest => \A x \in actions' : x.digest \in replayCache'
          BY <3>1, <3>3, <4>3, <4>4, <4>5 DEF ReplayInv
        <4>8. ReplayOncePerDigest'
          BY <3>1, <4>4, <4>5 DEF ReplayInv, ReplayOncePerDigest
        <4>9. QED
          BY <2>0, <4>6, <4>7, <4>8 DEF ReplayInv
      <3>6. QED
        BY <3>4, <3>5
    <2>6. CASE Tick
      BY <2>0, <2>6, ReplayInvFrame DEF Tick
    <2>11. CASE CmdReturn
      BY <2>0, <2>11, CmdReturnEnds, EndPacketTypeOK, ReplayInvFrame
      DEF CmdReturn
    <2>7. CASE Stopped
      BY <2>0, <2>7, ReplayInvFrame DEF Stopped, vars
    <2>8. CASE UNCHANGED vars
      BY <2>0, <2>8, ReplayInvFrame DEF vars
    <2>10. CASE SigStop \/ Housekeep \/ SelectTimeout \/ SelectError
                \/ ReceiveEmpty
      BY <2>0, <2>10, ReplayInvFrame
      DEF SigStop, Housekeep, SelectTimeout, SelectError, ReceiveEmpty
    <2>9. QED
      BY <2>1, <2>2, <2>3, <2>4, <2>5, <2>6, <2>7, <2>8, <2>10, <2>11
      DEF Next
  <1>3. QED
    BY <1>1, <1>2, PTL DEF Spec

(* P1, replay suppression: with digest persistence on and outside       *)
(* --test, no two effects of fwknopd carry the same SPA digest, however *)
(* the datagrams and the stanzas' verdicts interleave (replay_check,    *)
(* add_replay_cache and the stanza loop of incoming_spa()).             *)
THEOREM ReplayOnce == Spec => []ReplayOncePerDigest
  <1>1. ReplayInv => ReplayOncePerDigest
    BY DEF ReplayInv
  <1>2. QED
    BY <1>1, ReplayInvHolds, PTL

-----------------------------------------------------------------------------
(* One effect per message.  The prefix blacklist of preprocess_spa_data() *)
(* relies on GnuPG data being long: a GnuPG datum that passes the length  *)
(* check is longer than MIN_GNUPG_MSG_SIZE.                              *)
GpgDataLong ==
    \A w \in Wire :
        w.msg.enc = "gpg" /\ w.len >= MinSpaDataSize => w.len > MinGnupgMsgSize

(* The strengthening of OneEffectPerMessage, with SPA over HTTP off: from *)
(* the replay check on, a packet whose prefix libfko would accept carries *)
(* no prefix, and so every effect's digest is that of the bare message.  *)
MsgInv ==
    /\ ReplayInv
    /\ pc \in {"replay", "lookup", "stanza"} =>
           (LeadFits(spa_pkt) => spa_pkt.lead = "none")
    /\ \A x \in actions : x.digest = <<"none", x.msg>>

(* With SPA over HTTP off, a datagram that passes preprocess_spa_data()  *)
(* and whose prefix fits its encryption has no prefix: the salt is       *)
(* always refused, and the GnuPG prefix on data as long as GnuPG data.   *)
LEMMA PrecheckLead ==
    ASSUME EnableSpaOverHttp # "Y", GpgDataLong,
           NEW w \in Wire, preprocess_spa_data(w), LeadFits(w)
    PROVE  w.lead = "none"
  <1>1. ~w.http
    BY DEF preprocess_spa_data, HttpUnwrapped
  <1>2. RawLen(w) = w.len /\ RawLead(w) = w.lead
    BY <1>1 DEF RawLen, RawLead
  <1>3. w.lead # "salt"
    BY <1>2 DEF preprocess_spa_data, PrefixBlacklisted
  <1>4. w.lead # "gpg"
    <2> SUFFICES ASSUME w.lead = "gpg" PROVE FALSE
      OBVIOUS
    <2>1. w.msg.enc = "gpg" /\ w.len >= MinSpaDataSize
      BY <1>2 DEF LeadFits, preprocess_spa_data
    <2>2. w.len > MinGnupgMsgSize
      BY <2>1 DEF GpgDataLong
    <2>3. QED
      BY <1>2, <2>2 DEF preprocess_spa_data, PrefixBlacklisted
  <1>5. QED
    BY <1>3, <1>4 DEF Wire, Leads

(* A stanza acts only on data libfko decrypts, whose prefix fits. *)
LEMMA EffectLeadFits ==
    ASSUME NEW i, NEW storeOk, NEW a, NEW cycleOk,
           Outcome(Stages(i, storeOk), a, cycleOk).kind # "none"
    PROVE  LeadFits(spa_pkt)
  <1>1. AllPass(Stages(i, storeOk))
    BY EffectIsStop
  <1>2. Stages(i, storeOk)[3].pass
    <2>1. 3 \in 1..12
      OBVIOUS
    <2>2. QED
      BY <1>1, <2>1, AllPassStages, Zenon
  <1>3. check_mode_ctx(Stanzas[i])
    BY <1>2 DEF Stages
  <1>4. QED
    BY <1>3 DEF check_mode_ctx, RijndaelOK, Decrypts

(* The steps that leave actions alone and enter the replay, lookup or   *)
(* stanza phase only from one of them with the same packet keep MsgInv. *)
LEMMA MsgInvFrame ==
    ASSUME MsgInv, ReplayInv', UNCHANGED actions,
           pc' \in {"replay", "lookup", "stanza"} =>
               pc \in {"replay", "lookup", "stanza"} /\ spa_pkt' = spa_pkt
    PROVE  MsgInv'
  BY DEF MsgInv

(* P2, one effect per message: with digest persistence on, outside       *)
(* --test and with SPA over HTTP off, no authenticated message has two    *)
(* effects however it is re-sent (the prefix blacklist of                 *)
(* preprocess_spa_data() with replay_check() and add_replay_cache()).     *)
(* http_prefix_replay shows that the theorem needs SPA over HTTP off.    *)
THEOREM OneEffect ==
    EnableSpaOverHttp # "Y" /\ GpgDataLong =>
        (Spec => []OneEffectPerMessage)
  <1> SUFFICES ASSUME EnableSpaOverHttp # "Y", GpgDataLong
               PROVE  Spec => []OneEffectPerMessage
    OBVIOUS
  <1>1. Init => MsgInv
    BY InitTypeOK DEF Init, MsgInv, ReplayInv, ReplayOncePerDigest
  <1>2. MsgInv /\ ReplayInv' /\ [Next]_vars => MsgInv'
    <2> SUFFICES ASSUME MsgInv, ReplayInv', [Next]_vars PROVE MsgInv'
      OBVIOUS
    <2>0. TypeOK /\ TypeOK'
      BY DEF MsgInv, ReplayInv
    <2>1. CASE Precheck
      <3>1. CASE preprocess_spa_data(spa_pkt)
        <4>1. pc' = "replay" /\ UNCHANGED <<spa_pkt, actions>>
          BY <2>1, <3>1 DEF Precheck
        <4>2. spa_pkt \in Wire
          BY <2>0, <2>1 DEF Precheck, TypeOK, InPacket
        <4>3. LeadFits(spa_pkt) => spa_pkt.lead = "none"
          BY <3>1, <4>2, PrecheckLead
        <4>4. QED
          BY <4>1, <4>3 DEF MsgInv
      <3>2. CASE ~preprocess_spa_data(spa_pkt)
        <4>1. EndPacket /\ UNCHANGED actions
          BY <2>1, <3>2 DEF Precheck
        <4>2. QED
          BY <2>0, <4>1, EndPacketTypeOK, MsgInvFrame
      <3>3. QED
        BY <3>1, <3>2
    <2>2. CASE ReplayCheck
      BY <2>0, <2>2, MsgInvFrame, EndPacketTypeOK DEF ReplayCheck
    <2>3. CASE Lookup
      BY <2>0, <2>3, MsgInvFrame, EndPacketTypeOK DEF Lookup
    <2>4. CASE ProcessSpaData
      <3>1. pc = "stanza" /\ UNCHANGED spa_pkt
        BY <2>4 DEF ProcessSpaData
      <3>2. PICK storeOk \in StoreOutcomes, cycleOk \in BOOLEAN :
                   ProcessStanza(storeOk, cycleOk)
        BY <2>4 DEF ProcessSpaData
      <3> DEFINE a == Stanzas[acc]
                 st == Stages(acc, storeOk)
                 out == Outcome(st, a, cycleOk)
      <3>3. pc' \in {"replay", "lookup", "stanza"} => pc' = "stanza"
        <4>1. CASE out.kind = "cmd"
          BY <3>2, <4>1 DEF ProcessStanza
        <4>2. CASE out.kind # "cmd"
          <5>1. AfterVerdict(out)
            BY <3>2, <4>2 DEF ProcessStanza
          <5>2. acc \in 1..NStanzas
            BY <2>0, <3>1 DEF TypeOK
          <5>3. QED
            BY <2>0, <5>1, <5>2, AfterVerdictTypeOK
        <4>3. QED
          BY <4>1, <4>2
      <3>4. CASE out.kind = "none"
        <4>1. actions' = actions
          BY <3>2, <3>4 DEF ProcessStanza
        <4>2. QED
          BY <3>1, <3>3, <4>1 DEF MsgInv
      <3>5. CASE out.kind # "none"
        <4>1. actions' = actions \cup {Effect(a, out.kind)}
          BY <3>2, <3>5 DEF ProcessStanza
        <4>2. spa_pkt.lead = "none"
          BY <3>1, <3>5, EffectLeadFits DEF MsgInv
        <4>3. Effect(a, out.kind).digest = <<"none", Effect(a, out.kind).msg>>
          BY <4>2 DEF Effect, Digest, Msg
        <4>4. QED
          BY <3>1, <3>3, <4>1, <4>3 DEF MsgInv
      <3>6. QED
        BY <3>4, <3>5
    <2>5. CASE Receive \/ SigStop \/ Housekeep \/ SelectTimeout
               \/ SelectError \/ ReceiveEmpty \/ Tick \/ Stopped
               \/ UNCHANGED vars
      BY <2>5, MsgInvFrame
      DEF Receive, SigStop, Housekeep, SelectTimeout, SelectError,
          ReceiveEmpty, Tick, Stopped, vars
    <2>7. CASE CmdReturn
      BY <2>0, <2>7, CmdReturnEnds, EndPacketTypeOK, MsgInvFrame DEF CmdReturn
    <2>6. QED
      BY <2>1, <2>2, <2>3, <2>4, <2>5, <2>7 DEF Next
  <1>3. MsgInv => OneEffectPerMessage
    BY DEF MsgInv, ReplayInv, ReplayOncePerDigest, OneEffectPerMessage
  <1>4. QED
    BY <1>1, <1>2, <1>3, ReplayInvHolds, PTL DEF Spec

(* Commit before effect: with digest persistence on and outside --test, *)
(* the step in which process_spa_data() acts also stores the packet's    *)
(* digest, because add_replay_cache() comes before every effect and a    *)
(* failed add_replay() ends the stanza with KEEP_SEARCHING.              *)
THEOREM CommitFirst == Spec => CommitBeforeEffect
  <1>1. [Next]_vars =>
          [CommitsDigest =>
             \A x \in actions' \ actions : x.digest \in replayCache']_vars
    <2> SUFFICES ASSUME [Next]_vars, CommitsDigest,
                        NEW x \in actions', x \notin actions
                 PROVE  x.digest \in replayCache'
      OBVIOUS
    <2>1. PICK storeOk, cycleOk :
              /\ pc = "stanza"
              /\ ProcessStanza(storeOk, cycleOk)
              /\ Outcome(Stages(acc, storeOk), Stanzas[acc], cycleOk).kind
                    # "none"
              /\ x = Effect(Stanzas[acc],
                     Outcome(Stages(acc, storeOk), Stanzas[acc], cycleOk).kind)
      BY NewEffect
    <2>2. AllPass(Stages(acc, storeOk))
      BY <2>1, EffectIsStop
    <2>3. Reached(Stages(acc, storeOk), CommitStage) /\ add_replay_cache(storeOk)
      BY <2>2, AllPassCommit
    <2>4. Digest(spa_pkt) \in replayCache'
      BY <2>1, <2>3 DEF ProcessStanza, add_replay_cache
    <2>5. QED
      BY <2>1, <2>4 DEF Effect
  <1>2. QED
    BY <1>1, PTL DEF Spec, CommitBeforeEffect

=============================================================================
