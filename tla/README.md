# A TLA+ model of fwknopd's SPA ingestion path

This directory holds a TLA+ model of the server side of fwknop's Single Packet
Authorization (SPA). It covers `src/server/incoming_spa.c` and the receive
loop of `src/server/udp_server.c`. It includes TLC configurations that
model-check small instances and TLAPS proofs that hold for every value of the
constants.

## The system

`run_udp_server()` (udp_server.c) loops. Each round it:

- checks for a terminating signal;
- outside `--test`, removes expired firewall rules (`check_firewall_rules`)
  and closes due command cycles (`cmd_cycle_close`);
- waits in `select()` (a timeout or EINTR starts the next round, another error
  leaves the loop);
- reads a datagram, fills `opts->spa_pkt` and calls `incoming_spa()` when it
  is non-empty;
- increments `packet_ctr` and leaves the loop once `packet_ctr_limit` is
  reached. `incoming_spa()` then runs
these stages:

1. **precheck** (`precheck_pkt` / `preprocess_spa_data`). This stage:
   - checks the length bounds;
   - rejects data that starts with the Rijndael salt or GnuPG prefix;
   - unwraps an SPA-over-HTTP request;
   - checks base64;
   - in SDP mode, decodes the client's SDP id.
2. **replay check** (`replay_check`). With `ENABLE_DIGEST_PERSISTENCE`, the
   digest of the data must not be in the store.
3. **lookup**. In classic mode (`DISABLE_SDP_MODE=Y`), `src_check` requires
   some stanza's SOURCE to match. In SDP mode, `sdp_id_check` takes the stanza
   that the hash table maps the SDP id to.
4. **per-stanza processing** (`process_spa_data`). This is a chain of early
   returns:
   - SOURCE/DESTINATION;
   - expiry (it sets `acc->expired`);
   - decryption (Rijndael, then GnuPG);
   - commit of the digest (`add_replay_cache`);
   - the message type is permitted;
   - GnuPG signer;
   - packet age;
   - the embedded source IP;
   - REQUIRE_SOURCE_ADDRESS;
   - REQUIRE_USERNAME;
   - NAT switches.

   After these checks, the action is one of: the command cycle, a command
   message, the service / port ACL, `--test`, or the firewall rule. Each
   return is `KEEP_SEARCHING` or `STOP_SEARCHING`. In classic mode the stanzas
   are tried in file order until one returns STOP. In SDP mode the one stanza
   is tried once.

## Modules

| Module | Models |
| --- | --- |
| `IncomingSpa.tla` | The whole path above, one datagram at a time, and the receive loop around it. |
| `SpaAuthorization.tla` | The abstract specification: datagrams taken one at a time, each granted at most one effect while it is handled; every effect is admitted by the policy and, with replay suppression on, the first for its digest. |
| `MC_IncomingSpa.tla` | A small instance for TLC with three client messages and four stanzas. |
| `IncomingSpaProofs.tla` | TLAPS proofs of type correctness and replay suppression. |
| `AuthorizationProofs.tla` | TLAPS proof that `IncomingSpa` implements `SpaAuthorization`. |

### State of `IncomingSpa`

| Variable | Code |
| --- | --- |
| `pc` | Where the loop and `incoming_spa()` are; `"extcmd"` while `process_cmd_msg()` waits for its command. |
| `spa_pkt` | `opts->spa_pkt`. |
| `acc` | The stanza being tried. |
| `replayCache` | The digest store (`is_replay` / `add_replay`). |
| `expired` | `acc->expired` of each stanza. |
| `now` | `time()`. |
| `actions` | History of firewall, command and command-cycle effects. |
| `packet_ctr` | `opts->packet_ctr`. |
| `rules` | The firewall rules fwknopd has added and not yet removed. |
| `cycles` | The command cycles opened and not yet closed. |

### Abstractions

- **Datagram.** A datagram is a record with these fields:
  - the authenticated message it carries;
  - its UDP source;
  - whether it is an HTTP request;
  - the prefix its data starts with (none, salt, GnuPG);
  - its length;
  - whether it is valid base64.
- **Digest.** The digest is the pair (prefix, message). The digest separates
  data that differ only in their prefix, as the SHA-256 of the bytes does.
- **Decryption.** libfko is not in this repository. Data decrypts with a key
  when the message was made with that key and the prefix does not conflict
  with the encryption type. This reflects that libfko adds the salt or GnuPG
  prefix only when the data does not already start with it.
- **Rule and cycle lifetimes.** `check_firewall_rules` and `cmd_cycle_close`
  are not in this repository. A rule expires `set_timeout()` seconds after it
  was added and a cycle `CMD_CYCLE_TIMER` seconds after it was opened
  (`Expiry`); the housekeeping removes those whose expiry has come. The
  `rules_chk_threshold` counter only chooses the argument `chk_rm_all` of
  `check_firewall_rules`, so it is left out.
- **Firewall switch.** `EnableFw` is `opts->enable_fw` (udp_server.c:161):
  without it the loop never calls `check_firewall_rules`. Every run sets it
  TRUE; its assignment is outside src/server.
- **Integer width.** `ts_diff` keeps the width of a C `int` (`IntBits`, via
  `ToCInt`).

### Actions

| Action | Code |
| --- | --- |
| `SigStop` | udp_server.c 149-155 |
| `Housekeep` | udp_server.c 157-179: outside `--test`, drop the rules and cycles whose expiry has come |
| `SelectTimeout` | udp_server.c 190-214: `select()` timed out or was interrupted |
| `SelectError` | udp_server.c 201-207 |
| `Receive` | udp_server.c 216-247 |
| `ReceiveEmpty` | udp_server.c 220-263: an empty or failed read still counts as a packet |
| `Precheck` | `precheck_pkt` |
| `ReplayCheck` | `replay_check` |
| `Lookup` | `src_check` / `sdp_id_check` |
| `ProcessSpaData` | One whole call of `process_spa_data` for stanza `acc`, plus the loop's reaction to its verdict (`AfterVerdict`, incoming_spa.c 1345-1377); a command message leaves it waiting in `"extcmd"`. |
| `CmdReturn` | `run_extcmd()` / `run_extcmd_as()` return to `process_cmd_msg()` (incoming_spa.c 558-597), which makes `process_spa_data` return STOP_SEARCHING. |
| `Tick` | The clock. |
| `Stopped` | The loop has exited. |

`ProcessSpaData` covers the stanza's early returns (`Stages`, in code order,
each with its verdict), the dispatch (`Dispatch`), the write of `expired`, and
the digest commit. `add_replay()` and `cmd_cycle_open()` may fail; the action
chooses their outcome with `\E`.

`PROJECT.json` maps every definition to the lines it models.

## Runs

All runs share these bounds:

- 3 datagrams (`PacketCtrLimit`). The code reads `packet_ctr_limit = 0` as
  "no limit"; the model needs a bound and assumes `PacketCtrLimit > 0`, so
  the unlimited setting is represented by its finite prefixes;
- a clock of 0..2, with access and cycle timeouts of 1 s so that rules and
  cycles expire within it;
- data lengths 2 and 3 against `MIN_SPA_DATA_SIZE=3`, so both length branches
  and the `MIN_GNUPG_MSG_SIZE` branch are taken;
- keys k1-k3 and signers s1, s2.

Three datagrams are enough to replay a message twice after its first
acceptance. The clock reaches past the expiry time of stanza 2 and past
`MAX_SPA_PACKET_AGE` for the messages.

Each stanza is chosen to exercise part of the path:

- Stanza 1 has the wrong key, so the loop has to move on.
- Stanza 2 expires and permits commands. The cfg constant `CmdAsUser`
  chooses whether it sets CMD_EXEC_USER to a non-root user (TRUE in
  `classic_pass`, FALSE in the others).
- Stanza 3 is GnuPG with a required signer and a service ACL.
- Stanza 4 is a command-cycle stanza with REQUIRE_USERNAME.

| Run | Expect | What it shows |
| --- | --- | --- |
| `classic_pass` | pass (about 257k states) | In classic mode with persistence and aging on, the following hold: <br>• `ReplayOncePerDigest`: no digest has two effects, across packets and across the stanzas of one packet, even when `add_replay()` fails. <br>• `OneEffectPerMessage`: no message has two effects, however it is re-wrapped on the wire. <br>• `GrantAuthorized`: every effect satisfies its stanza's SOURCE, key, expiry, legacy, command, port / service and cycle policy. <br>• `Freshness`: every effect is for a message within `MAX_SPA_PACKET_AGE`. <br>• `CommitBeforeEffect` (action property): a step that produces an effect stores its digest in that same step, even when `add_replay()` fails. |
| `nopersist_pass` | pass (about 206k states) | With digest persistence off, `AuthorizationSpec`: the path implements `SpaAuthorization` (below). In particular a datagram tried against several stanzas gets at most one effect, although nothing stores its digest. |
| `sdp_pass` | pass | `ReplayOncePerDigest` and `GrantAuthorized` in SDP mode with legacy requests refused. Aging is off so that stanza expiry alone must stop late grants. |
| `http_prefix_replay` | violation | With SPA over HTTP on, `"GET /"` + salt + a captured message passes the prefix blacklist, gets a new digest, and is granted a second time (finding 1). |
| `test_mode_cycle` | violation | `--test` still runs CMD_CYCLE_OPEN, because line 1194 comes before the test check at 1246 (finding 2). |
| `pkt_age_wrap` | violation | `ts_diff` truncated to an `int` lets a wrapped clock difference pass the age check (finding 3). |
| `live_pass` | pass (about 24k states, 2 datagrams) | Under the fairness below: <br>• `PacketEnds`: every received datagram is fully processed. <br>• `RulesExpire`: every firewall rule whose expiry falls within the clock is removed. <br>• `CyclesClose`: every such command cycle is closed. <br>Each allows the loop to have stopped first, or to be blocked in a command run as CMD_EXEC_USER (`BlockedInCommand`). |
| `test_mode_cycle_unclosed` | violation | Under `--test` a cycle opened at incoming_spa.c:1194 is never closed, because housekeeping is skipped at udp_server.c:157 (finding 4). |

In `pkt_age_wrap`, a 2-bit int stands for the 32-bit one. A 32-bit wrap needs
a clock difference of 2^31 s, which TLC cannot enumerate; the wrap arithmetic
`ToCInt` is the same at any width.

Every property of a passing run has a mutant in `PROJECT.json`. The mutant is a
plausible code bug that makes TLC report the property violated.

### Refinement

`SpaAuthorization` has two variables: `handled` counts the datagrams taken,
`granted` holds the effects. It has two steps:

- `Take`: the next datagram, up to `Limit`;
- `Grant(e)`: add an effect that is in `Grantable`, tagged with the datagram
  being handled (`e.n = handled`), when that datagram has no effect yet and,
  if `OncePerDigest` holds, no earlier effect has its digest.

`IncomingSpa` instantiates it as `Authorization` with:

- `handled <- packet_ctr`, `Limit <- PacketCtrLimit`;
- `granted <- actions`;
- `Grantable <-` the effect records that are `Authorized` and `Fresh`;
- `OncePerDigest <- CommitsDigest` (persistence on, not `--test`).

`Receive` and `ReceiveEmpty` map to `Take`; `ProcessSpaData` with a new
effect maps to `Grant`; every other step is a stutter. The one-effect-per-
datagram condition is what the STOP_SEARCHING break of the stanza loop
(incoming_spa.c 1352-1371) and the return after a command provide; with
persistence on, the digest condition would also hide a missing break, so
`nopersist_pass` checks `AuthorizationSpec` with persistence off, where its
mutant (`SearchOnNoBreak`, a loop that goes on after STOP_SEARCHING) gives a
command message and a command-cycle effect for one datagram.

### Fairness

`LiveSpec` adds weak fairness on `Housekeep`, `SelectTimeout`, `Precheck`,
`ReplayCheck`, `Lookup`, `ProcessSpaData`, `Tick` and on `CmdReturn` for a
stanza without CMD_EXEC_USER. These are the steps the daemon takes by itself:

- `select()` returns within `s_timeout` (500 ms by default) even when no
  datagram arrives;
- the checks of a datagram are sequential code with no wait;
- `run_extcmd()` kills the command after 5 s, so `process_cmd_msg()` gets
  control back;
- the clock advances.

A command run as CMD_EXEC_USER goes through `run_extcmd_as(..., NO_TIMEOUT,
...)` (incoming_spa.c:569-571) and may never return; spec.md section 5 makes
this wait deliberate. No fairness is assumed for that `CmdReturn`, and the
liveness properties exempt a loop blocked there (`BlockedInCommand`).
The `RulesExpire` and `CyclesClose` mutant is `SelectTimeoutRetry`: a
`select()` retried in place, never back through housekeeping.

No fairness is assumed for `Receive`, `ReceiveEmpty`, `SigStop` or
`SelectError`. Those depend on clients, signals and the kernel. The liveness
properties therefore allow every behaviour in which no more datagrams come.

## Proofs

`IncomingSpaProofs.tla` proves `THEOREM TypeCorrect == Spec => []TypeOK` for
every value of the constants that satisfies the module's named assumptions:

- `MsgsAssumption`;
- `StanzasAssumption`: the stanzas form a sequence of stanza records, and the
  hash table maps into them;
- `BoundsAssumption`: the numeric constants are natural numbers, and the limit
  and int width are positive;
- `ConfigAssumption`.

`TypeOK` is inductive as it stands. It already contains the facts a step
needs:

- the loop idles only below the limit;
- between Receive and the end of the packet, `spa_pkt` is a datagram and
  `packet_ctr` is in 1..limit;
- in the stanza phase, `acc` is a stanza index.

There is one lemma per action. The `ProcessSpaData` lemma relies on
`AllPassSource`: an effect is recorded only when every stage passed,
stages 8 and 9 reject malformed embedded sources, and so the effect's source
is an address.

`THEOREM ReplayOnce == Spec => []ReplayOncePerDigest` is proved from the same
assumptions, through `LEMMA ReplayInvHolds == Spec => []ReplayInv`. `ReplayOncePerDigest` is not inductive on its own: a step that
records an effect must know that no earlier effect carries the current
packet's digest. The strengthening `ReplayInv` (checked by TLC on both passing
instances before it was proved) adds two facts, both under persistence on and
`--test` off:

- every effect's digest is in the store, because `add_replay_cache` succeeds
  before any effect (`AllPassCommit`);
- from a passed replay check until the packet ends, no effect carries the
  current packet's digest.

The second fact holds because `replay_check` found the digest absent from the
store, and because an effect always comes with STOP_SEARCHING, which ends the
packet (`EffectIsStop`). A failed `add_replay()` returns KEEP_SEARCHING with no
effect, so it cannot break either fact.

`AuthorizationProofs.tla` proves
`THEOREM Implements == NoWrap => (Spec => AuthorizationSpec)`. `NoWrap`
states that `ToCInt` leaves every clock difference the model can produce
unchanged; it holds for `IntBits = 8` in the passing runs and fails in
`pkt_age_wrap`, which shows that the theorem needs it. The argument is as
follows:

- the initial states map to `packet_ctr = 0`, `actions = {}`;
- `Receive` and `ReceiveEmpty` are `Take`: the type invariant gives
  `packet_ctr < PacketCtrLimit` in `"select"`;
- `CtrInv`: every effect's datagram number is at most `packet_ctr`, and
  strictly below it from `Precheck` up to the stanza loop. An effect ends
  the stanza loop (`EffectLeavesLoop`: to `"extcmd"` or the end of the
  packet), so an effect for the current datagram is always its first;
- a step records an effect only when every stage passed (`EffectIsStop`);
- `EffectAuthorized` reads each policy condition off its stage:
  - `src_dst_check` gives SOURCE;
  - `check_mode_ctx` gives the key;
  - `check_stanza_expiration` gives the expiry;
  - `MsgTypePermitted` gives the legacy condition;
  - `Dispatch` gives the command, service, port and cycle conditions;
  - `check_pkt_age` with `NoWrap` gives `Fresh` (`EffectFresh`);
- the digest condition is the third conjunct of `ReplayInv`;
- a step that records an effect already in `actions` is a stutter of the
  abstract spec.

The invariants are also proved directly, from the lemma `NewEffect`: an
effect new in a step comes from `ProcessSpaData` with every stage passed.

- `THEOREM AuthorizedAlways == Spec => []GrantAuthorized` has no hypothesis.
  `GrantAuthorized` is inductive, because `Authorized` depends only on the
  effect and the constants.
- `THEOREM FreshAlways == NoWrap => (Spec => []Freshness)` is proved the
  same way, with `TypeOK` for the clock's range.

`IncomingSpaProofs.tla` also proves two more properties.

`THEOREM OneEffect` proves `Spec => []OneEffectPerMessage` under two
hypotheses:

- SPA over HTTP is off. `http_prefix_replay` shows the property fails
  otherwise.
- `GpgDataLong`: GnuPG data that passes the minimum-length check is longer
  than `MIN_GNUPG_MSG_SIZE`. The blacklist at incoming_spa.c:94 relies on
  this ("when long enough"); real GnuPG SPA data is always that long. In the
  model, data length is independent of the message. Without this hypothesis,
  TLC (with `MinGnupgMsgSize = 3`, `DataLens = {3}`) finds a GnuPG message
  accepted once bare and once with its prefix. All passing runs satisfy the
  hypothesis.

The inductive invariant `MsgInv` adds two facts to `ReplayInv`, and TLC
checked them on `classic_pass` first:

- From the replay check on, a packet whose prefix fits its encryption has no
  prefix (`PrecheckLead`).
- Every effect's digest is `<<"none", msg>>`, because an effect needs
  `check_mode_ctx`, whose decryption needs a fitting prefix
  (`EffectLeadFits`).

So two effects for one message have one digest, and `ReplayOncePerDigest`
makes them equal.

`THEOREM CommitFirst == Spec => CommitBeforeEffect` proves the action
property. In the step that records an effect, every stage passed, so
`add_replay_cache` was reached and succeeded (`AllPassCommit`). The same step
therefore adds the digest to the store.

Only TLC checks these:

- `TestModeInert` (it is violated: finding 2);
- the liveness properties (TLAPS does not handle ENABLED and fairness here);
- facts about recursive definitions (none are used so far).

## Not modelled

- firewall rule creation and deletion, `cmd_cycle_open`/`close`, and
  `run_extcmd` (only their timing, and the wait for a command, are
  modelled);
- the access.conf parser;
- libfko;
- the replay store's file and database back ends.

Their code is not in this repository. Their effect is an entry of `actions`,
or the set `replayCache`.

Socket setup before the loop is not modelled; it is pure I/O.

The SDP hash table is a constant. `sdp_id_check` unlocks the mutex and keeps
the stanza pointer (incoming_spa.c:428). The control plane that rebuilds the
table is not in src/server, and spec.md states that a reload swaps the policy
atomically and frees no stanza in use. Under that contract, a stale pointer
yields the previous policy's verdict.

## Plan for later work

1. A `ControlPlane` module that changes the SDP hash table between `Lookup`
   and `ProcessSpaData`, with a property bounding how long a revoked stanza
   can still grant access.
2. A run with a DESTINATION-restricted stanza. `packet_dst_ip` is INADDR_ANY
   in UDP mode (udp_server.c:241), so DESTINATION compares against 0.0.0.0.
   This fails closed.
3. A run with `DISABLE_SDP_MODE` neither Y nor N. It is compared with "N" in
   `preprocess_spa_data` and with "Y" in `incoming_spa`.
