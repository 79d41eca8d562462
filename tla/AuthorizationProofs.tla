------------------------ MODULE AuthorizationProofs -------------------------
(***************************************************************************)
(* Proof that IncomingSpa implements SpaAuthorization under the mapping   *)
(* of IncomingSpa (handled <- packet_ctr, granted <- actions): a datagram *)
(* gets at most one effect, every effect fwknopd records is admitted by   *)
(* its stanza, fresh, and, with digest persistence on and outside --test, *)
(* the first for its SPA data.  Freshness needs the age check's int to    *)
(* hold every clock difference the model can produce.                     *)
(***************************************************************************)
EXTENDS IncomingSpaProofs

(* ts_diff fits in an int: no clock difference the model reaches wraps.  *)
NoWrap == \A m \in Msgs, t \in 0..MaxTime :
              ToCInt(AbsDiff(t, m.ts)) = AbsDiff(t, m.ts)

(* The effect of a stanza whose checks all passed satisfies the stanza's *)
(* policy: each condition of Authorized is read off the stage that       *)
(* checks it, or off the dispatch.                                       *)
LEMMA EffectAuthorized ==
    ASSUME NEW storeOk, NEW cycleOk,
           Outcome(Stages(acc, storeOk), Stanzas[acc], cycleOk).kind # "none"
    PROVE  Authorized(Effect(Stanzas[acc],
                 Outcome(Stages(acc, storeOk), Stanzas[acc], cycleOk).kind))
  <1> DEFINE a == Stanzas[acc]
             st == Stages(acc, storeOk)
             out == Outcome(st, a, cycleOk)
             e == Effect(a, out.kind)
  <1>1. AllPass(st) /\ out = Dispatch(a, cycleOk)
    BY DEF Outcome, Result
  <1>2. \A k \in 1..12 : st[k].pass
    BY <1>1, AllPassStages
  <1>3. /\ st[1].pass = src_dst_check(a)
        /\ st[2].pass = check_stanza_expiration(acc)
        /\ st[3].pass = check_mode_ctx(a)
        /\ st[5].pass = MsgTypePermitted
    BY DEF Stages
  <1>4. /\ src_dst_check(a)
        /\ check_stanza_expiration(acc)
        /\ check_mode_ctx(a)
        /\ MsgTypePermitted
    <2>1. {1, 2, 3, 5} \subseteq 1..12
      OBVIOUS
    <2>2. QED
      BY <1>2, <1>3, <2>1, Zenon
  <1>5. /\ e.stanza = acc /\ e.msg = Msg /\ e.kind = out.kind
        /\ e.at = now /\ e.from = spa_pkt.srcIp
    BY DEF Effect
  <1>6. e.from \in a.src
    BY <1>4, <1>5 DEF src_dst_check
  <1>7. e.msg.key \in {a.key, a.gpgKey}
    BY <1>4, <1>5 DEF check_mode_ctx, RijndaelOK, GpgAttempted, Decrypts
  <1>8. a.expire > 0 => e.at <= a.expire
    BY <1>4, <1>5 DEF check_stanza_expiration
  <1>9. AllowLegacyAccessRequests = "N" =>
            e.msg.type \in ServiceTypes \cup {"cmd"}
    BY <1>4, <1>5 DEF MsgTypePermitted
  <1>10. /\ e.kind = "cmd" => a.cmdExec /\ e.msg.type = "cmd"
         /\ e.kind = "fw" =>
              \/ e.msg.type \in ServiceTypes /\ e.msg.req \in a.services
              \/ e.msg.type \notin ServiceTypes \cup {"cmd"}
                 /\ e.msg.req \in a.openPorts
         /\ e.kind = "cycle" => a.cmdCycle
    BY <1>1, <1>5 DEF Dispatch, process_cmd_msg, Result
  <1>11. QED
    BY <1>5, <1>6, <1>7, <1>8, <1>9, <1>10 DEF Authorized

(* When ts_diff does not wrap, check_pkt_age() passing means the message *)
(* is within MAX_SPA_PACKET_AGE of the clock when the stanza acts.       *)
LEMMA EffectFresh ==
    ASSUME TypeOK, pc = "stanza", NoWrap, NEW storeOk, NEW cycleOk,
           Outcome(Stages(acc, storeOk), Stanzas[acc], cycleOk).kind # "none"
    PROVE  Fresh(Effect(Stanzas[acc],
                 Outcome(Stages(acc, storeOk), Stanzas[acc], cycleOk).kind))
  <1> DEFINE st == Stages(acc, storeOk)
             e == Effect(Stanzas[acc], Outcome(st, Stanzas[acc], cycleOk).kind)
  <1>1. AllPass(st)
    BY EffectIsStop
  <1>2. check_pkt_age
    <2>1. st[7].pass = check_pkt_age
      BY DEF Stages
    <2>2. 7 \in 1..12
      OBVIOUS
    <2>3. QED
      BY <1>1, <2>1, <2>2, AllPassStages, Zenon
  <1>3. Msg \in Msgs /\ now \in 0..MaxTime
    BY DEF TypeOK, InPacket, Msg, Wire
  <1>4. ToCInt(AbsDiff(now, Msg.ts)) = AbsDiff(now, Msg.ts)
    BY <1>3 DEF NoWrap
  <1>5. e.at = now /\ e.msg = Msg
    BY DEF Effect
  <1>6. QED
    BY <1>2, <1>4, <1>5 DEF check_pkt_age, Fresh

(* Effects are tagged with the datagram they are for: no effect is for  *)
(* a datagram not yet received, and while incoming_spa() works on a     *)
(* datagram, up to the stanza loop, no effect has been granted for it.  *)
CtrInv ==
    /\ \A x \in actions : x.n <= packet_ctr
    /\ pc \in {"pre", "replay", "lookup", "stanza"} =>
           \A x \in actions : x.n < packet_ctr

(* A step that leaves actions and packet_ctr alone and enters the packet *)
(* phases only from one of them keeps CtrInv.                           *)
LEMMA CtrInvFrame ==
    ASSUME CtrInv, UNCHANGED <<actions, packet_ctr>>,
           pc' \in {"pre", "replay", "lookup", "stanza"} =>
               pc \in {"pre", "replay", "lookup", "stanza"}
    PROVE  CtrInv'
  BY DEF CtrInv

(* The step in which process_spa_data() acts leaves the stanza loop: the *)
(* loop waits for the command or the packet ends.                        *)
LEMMA EffectLeavesLoop ==
    ASSUME TypeOK, pc = "stanza", NEW storeOk, NEW cycleOk,
           ProcessStanza(storeOk, cycleOk),
           Outcome(Stages(acc, storeOk), Stanzas[acc], cycleOk).kind # "none"
    PROVE  pc' \in {"extcmd", "idle", "stopped"}
  <1> DEFINE out == Outcome(Stages(acc, storeOk), Stanzas[acc], cycleOk)
  <1>1. CASE out.kind = "cmd"
    BY <1>1 DEF ProcessStanza
  <1>2. CASE out.kind # "cmd"
    <2>1. AfterVerdict(out) /\ ~SearchOn(out)
      BY <1>2, EffectIsStop, StopEnds DEF ProcessStanza
    <2>2. QED
      BY <2>1, EndPacketTypeOK DEF AfterVerdict
  <1>3. QED
    BY <1>1, <1>2

LEMMA CtrInvHolds == Spec => []CtrInv
  <1>1. Init => CtrInv
    BY DEF Init, CtrInv
  <1>2. TypeOK /\ CtrInv /\ [Next]_vars => CtrInv'
    <2> SUFFICES ASSUME TypeOK, CtrInv, [Next]_vars PROVE CtrInv'
      OBVIOUS
    <2>0. /\ \A x \in actions : x.n \in Nat
          /\ packet_ctr \in Nat
      BY BoundsAssumption DEF TypeOK, ActionRec
    <2>1. CASE Receive \/ ReceiveEmpty
      <3>1. packet_ctr' = packet_ctr + 1 /\ UNCHANGED actions
            /\ packet_ctr \in Nat
        BY <2>1 DEF Receive, ReceiveEmpty, TypeOK
      <3>2. \A x \in actions' : x.n < packet_ctr'
        BY <2>0, <3>1 DEF CtrInv
      <3>3. QED
        BY <2>0, <3>1, <3>2 DEF CtrInv
    <2>2. CASE ProcessSpaData
      <3>1. pc = "stanza" /\ UNCHANGED packet_ctr
        BY <2>2 DEF ProcessSpaData
      <3>2. PICK storeOk \in StoreOutcomes, cycleOk \in BOOLEAN :
                   ProcessStanza(storeOk, cycleOk)
        BY <2>2 DEF ProcessSpaData
      <3> DEFINE out == Outcome(Stages(acc, storeOk), Stanzas[acc], cycleOk)
      <3>3. CASE out.kind = "none"
        BY <3>1, <3>2, <3>3 DEF ProcessStanza, CtrInv
      <3>4. CASE out.kind # "none"
        <4>1. actions' = actions \cup {Effect(Stanzas[acc], out.kind)}
          BY <3>2, <3>4 DEF ProcessStanza
        <4>2. Effect(Stanzas[acc], out.kind).n = packet_ctr
          BY DEF Effect
        <4>3. pc' \in {"extcmd", "idle", "stopped"}
          BY <3>1, <3>2, <3>4, EffectLeavesLoop
        <4>4. QED
          BY <2>0, <3>1, <4>1, <4>2, <4>3 DEF CtrInv
      <3>5. QED
        BY <3>3, <3>4
    <2>3. CASE CmdReturn
      BY <2>3, CmdReturnEnds, EndPacketTypeOK, CtrInvFrame DEF CmdReturn
    <2>4. CASE Precheck \/ ReplayCheck \/ Lookup
      BY <2>4, CtrInvFrame, EndPacketTypeOK DEF Precheck, ReplayCheck, Lookup
    <2>5. CASE SigStop \/ Housekeep \/ SelectTimeout \/ SelectError
               \/ Tick \/ Stopped \/ UNCHANGED vars
      BY <2>5, CtrInvFrame
      DEF SigStop, Housekeep, SelectTimeout, SelectError, Tick, Stopped, vars
    <2>6. QED
      BY <2>1, <2>2, <2>3, <2>4, <2>5 DEF Next
  <1>3. QED
    BY <1>1, <1>2, TypeCorrect, PTL DEF Spec

(* Refinement: when ts_diff cannot wrap, every behaviour of the SPA path *)
(* of fwknopd (receive loop, precheck, replay check, lookup, stanza loop *)
(* of incoming_spa() and command runs) is a behaviour of                 *)
(* SpaAuthorization: each datagram counted by packet_ctr is granted at  *)
(* most one effect, while it is handled; each effect is granted by the   *)
(* policy, fresh, and with persistence on and outside --test the first   *)
(* for its digest.                                                       *)
THEOREM Implements == NoWrap => (Spec => AuthorizationSpec)
  <1> SUFFICES ASSUME NoWrap PROVE Spec => AuthorizationSpec
    OBVIOUS
  <1>1. Init => Authorization!Init
    BY DEF Init, Authorization!Init
  <1>2. ReplayInv /\ CtrInv /\ [Next]_vars
          => [Authorization!Next]_Authorization!vars
    <2> SUFFICES ASSUME ReplayInv, CtrInv, [Next]_vars
                 PROVE  [Authorization!Next]_Authorization!vars
      OBVIOUS
    <2>0. TypeOK
      BY DEF ReplayInv
    <2>1. CASE ProcessSpaData
      <3>1. pc = "stanza" /\ UNCHANGED packet_ctr
        BY <2>1 DEF ProcessSpaData
      <3>2. PICK storeOk \in StoreOutcomes, cycleOk \in BOOLEAN :
                   ProcessStanza(storeOk, cycleOk)
        BY <2>1 DEF ProcessSpaData
      <3> DEFINE a == Stanzas[acc]
                 st == Stages(acc, storeOk)
                 out == Outcome(st, a, cycleOk)
                 e == Effect(a, out.kind)
      <3>3. CASE out.kind = "none"
        BY <3>1, <3>2, <3>3 DEF ProcessStanza, Authorization!vars
      <3>4. CASE out.kind # "none" /\ e \in actions
        BY <3>1, <3>2, <3>4 DEF ProcessStanza, Authorization!vars
      <3>5. CASE out.kind # "none" /\ e \notin actions
        <4>1. actions' = actions \cup {e}
          BY <3>2, <3>5 DEF ProcessStanza
        <4>2. Authorized(e) /\ Fresh(e)
          BY <2>0, <3>1, <3>5, EffectAuthorized, EffectFresh
        <4>3. e \in ActionRec
          BY <2>0, <3>1, <3>5, EffectTyped
        <4>4. CommitsDigest => \A x \in actions : x.digest # e.digest
          BY <3>1 DEF ReplayInv, Effect
        <4>5. /\ e.n = packet_ctr
              /\ packet_ctr > 0
              /\ \A x \in actions : x.n # e.n
          BY <2>0, <3>1 DEF Effect, TypeOK, InPacket, CtrInv
        <4>6. Authorization!Grant(e)
          BY <3>1, <4>1, <4>2, <4>3, <4>4, <4>5 DEF Authorization!Grant
        <4>7. QED
          BY <3>5, <4>1, <4>6 DEF Authorization!Next
      <3>6. QED
        BY <3>3, <3>4, <3>5
    <2>2. CASE Receive \/ ReceiveEmpty
      <3>1. /\ pc = "select"
            /\ packet_ctr' = packet_ctr + 1
            /\ UNCHANGED actions
        BY <2>2 DEF Receive, ReceiveEmpty
      <3>2. packet_ctr < PacketCtrLimit
        BY <2>0, <3>1 DEF TypeOK
      <3>3. QED
        BY <3>1, <3>2 DEF Authorization!Next, Authorization!Take
    <2>3. CASE ~ProcessSpaData /\ ~Receive /\ ~ReceiveEmpty
      <3>1. UNCHANGED <<actions, packet_ctr>>
        BY <2>3 DEF Next, vars, SigStop, Housekeep, SelectTimeout,
                    SelectError, Precheck, ReplayCheck, Lookup, CmdReturn,
                    Tick, Stopped
      <3>2. QED
        BY <3>1 DEF Authorization!vars
    <2>4. QED
      BY <2>1, <2>2, <2>3
  <1>3. QED
    BY <1>1, <1>2, ReplayInvHolds, CtrInvHolds, PTL
    DEF Spec, AuthorizationSpec, Authorization!Spec

(* P3, authorization: for every stanza list and configuration, every     *)
(* firewall, command or cycle effect of process_spa_data() is admitted   *)
(* by the stanza it is attributed to (SOURCE, key, expiry, legacy type,  *)
(* command, service, port and cycle policy), whatever the interleaving   *)
(* of datagrams, stanzas and clock.                                      *)
THEOREM AuthorizedAlways == Spec => []GrantAuthorized
  <1>1. Init => GrantAuthorized
    BY DEF Init, GrantAuthorized
  <1>2. GrantAuthorized /\ [Next]_vars => GrantAuthorized'
    <2> SUFFICES ASSUME GrantAuthorized, [Next]_vars,
                        NEW x \in actions'
                 PROVE  Authorized(x)
      BY DEF GrantAuthorized
    <2>1. CASE x \in actions
      BY <2>1 DEF GrantAuthorized
    <2>2. CASE x \notin actions
      BY <2>2, NewEffect, EffectAuthorized
    <2>3. QED
      BY <2>1, <2>2
  <1>3. QED
    BY <1>1, <1>2, PTL DEF Spec

(* P4, freshness: when ts_diff cannot wrap, every effect is for a        *)
(* message whose timestamp was within MAX_SPA_PACKET_AGE of the clock    *)
(* when the stanza acted (check_pkt_age()); pkt_age_wrap shows that the  *)
(* hypothesis is needed.                                                 *)
THEOREM FreshAlways == NoWrap => (Spec => []Freshness)
  <1> SUFFICES ASSUME NoWrap PROVE Spec => []Freshness
    OBVIOUS
  <1>1. Init => Freshness
    BY DEF Init, Freshness
  <1>2. TypeOK /\ Freshness /\ [Next]_vars => Freshness'
    <2> SUFFICES ASSUME TypeOK, Freshness, [Next]_vars,
                        NEW x \in actions'
                 PROVE  Fresh(x)
      BY DEF Freshness
    <2>1. CASE x \in actions
      BY <2>1 DEF Freshness
    <2>2. CASE x \notin actions
      BY <2>2, NewEffect, EffectFresh
    <2>3. QED
      BY <2>1, <2>2
  <1>3. QED
    BY <1>1, <1>2, TypeCorrect, PTL DEF Spec
=============================================================================
