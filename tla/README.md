# Formal models of mpc-lib-go

This directory holds TLA+ models of the round-based multi-party protocols in
`src/`, TLC configurations that check them on small instances, and TLAPS
proofs of their main safety properties for every number of parties.

## The system

The library implements threshold key generation and signing as **rounds**.
Each round is an object with these methods:

- `StoreBroadcastMessage`: validate and store a broadcast from a peer.
- `VerifyMessage` / `StoreMessage`: do the same for a point-to-point message.
- `CanFinalize`: report whether enough messages have arrived.
- `Finalize`: compute this party's output, send the next round's messages
  on the `out` channel and return the next round object (or an error).

A **driver**, which is not in `src/`, feeds each round the messages addressed
to it, aborts the session on a validation error and calls `Finalize` when
`CanFinalize` holds. Messages carry their round number, and the driver only
hands a round the messages numbered for it.

Components in `src/` and their status:

| Component | Source | Module | Status |
|---|---|---|---|
| CMP keygen rounds 3 and 4 | `protocols/cmp/keygen/round3.go`, `round4.go` | `CMPKeygen`, `CMPKeygenProofs` | modelled |
| FROST keygen round 2 (secp, ed25519, draft) | `protocols/frost/keygen/round2.go`, `keygen.go` | `FrostKeygen`, `FrostKeygenProofs` | modelled (rounds 1 and 3 from the spec) |
| FROST sign round 2 | `pkg/common/keystore/keystore.go` (139-329) | `FrostSign`, `FrostSignProofs` | modelled (rounds 1 and 3 from the spec) |
| What a session promises (spec 4.1, 7) | none (abstract) | `Session` | refined by `CMPKeygen`, `FrostKeygen` and `FrostSign` |
| CMP sign rounds 1 and 5 | `unnamed/part_000`, `unnamed/part_001` | none yet | round 5 planned |
| Paillier key manager | `pkg/common/keystore/keystore.go` (8-137) | none | not modelled: wrapper over an external store |
| Ed25519 / ECDSA key managers and encoding | `pkg/cryptosuite/sw/ed25519/ed25519keymanagerimpl_test.go` | none yet | encoding round trip planned |
| Interfaces, sampling, the affp test | `pkg/mpc/common/ecdsa`, `cryptosuite/.../ed25519.go`, `core/...` | none | declarations or field arithmetic only |

Key managers (`rid_km`, `vss_km`, `paillier_km`, ...) are per-session stores
keyed by party. A round imports a peer's keys into them, and a later
`Finalize` reads them back with `GetKey`.

## What is hard here

These behaviours are hard to reach with a test:

- **Delivery.** The transport is at least once. A message may arrive twice,
  in any order, or before its receiver has reached its round.
- **Import before verify.** round3 imports the RID, chain key, Paillier,
  Pedersen, VSS and ElGamal keys *before* it checks the decommitment
  (`round3.go:120-187`).
- **Count, not membership.** round3, round4 and sign round5 test completeness
  as `len(MessageBroadcasted) == N-1` (`round3.go:212,324`,
  `round4.go:183,305`). FROST tests that the set of senders contains every
  other party (`HasAll(OtherPartyIDs)`).
- **Nil fields.** `round4` declares its own key-manager fields
  (`round4.go:28-34`), which shadow those of the embedded `round3`.
  `round3.Finalize` never sets them (`round3.go:315-319`).
- **Faulty peers.** A faulty peer may send a share evaluated at the wrong
  point, or a proof that fails.

## Module CMPKeygen

CONSTANTS:

- `Party`: the set of parties.
- `Faulty`: the subset of parties that may send anything.
- `Loopback`: whether a party's own broadcast is delivered back to it.
- `Round4Inherits`: whether round4's key managers are bound, i.e. the code
  with the shadowing bug fixed.
- `None`: the value of an empty store entry.

State, per party:

| Variable | What it is in the code |
|---|---|
| `round` | the current round object |
| `status` | `run`, or how the session ended: `done`, `aborted`, `failed` (Finalize returned an error), `crashed` (panic) |
| `culprit` | the peer named by an abort |
| `bcast` | `MessageBroadcasted` |
| `fwd` | `MessagesForwarded` |
| `ridStore` | what `rid_km` holds for each party |
| `shareStore` | what `vss_km` holds for each party |
| `rid` | the RID written to `mpckey` |
| `secret` | round4's summed share |
| `kmBound` | whether round4's key managers are set |

One global variable, `msgs`, holds every message ever sent (see the delivery
model below).

Data abstraction:

- Party j's RID contribution is j itself, so the XOR of the contributions is
  the set of the contributions.
- A VSS share `f_j(p)` is the point `pt` it was evaluated at. The Feldman
  check of `StoreMessage` is then `pt = p`.
- A secret share is the set of `<<dealer, point>>` pairs that were summed.
- The public share `F(j)` that every party computes for j is
  `{<<k, j>> : k \in Party}`.
- Each message has a field `ok`, which says whether its proofs and its
  decommitment verify.

Actions. Each action models a whole handler, guard and error paths included.

| Action | Code |
|---|---|
| `Finalize2` | round 2's Finalize (from the spec) |
| `StoreOpening` | `round3.StoreBroadcastMessage`: imports, then the decommit check, then the mark |
| `Finalize3` | `round3.Finalize`: count guard; RID XOR with `GetKey` error → failed; sends; returns round4 with the key managers bound iff `Round4Inherits` |
| `StoreProofs` | `round4.StoreBroadcastMessage` |
| `StoreShare` | `round4.VerifyMessage` + `StoreMessage` |
| `Finalize4` | `round4.Finalize`: sum the shares, send the proof, return round5 |
| `StoreConfirm`, `Finalize5` | round 5 (from the spec) |

Every round-4 handler panics when `kmBound` is false.

**Refinement.** `CMPKeygen` implements `Session` (`SessionRefinement`).
`Outcome` maps `crashed` to `failed`: a panic ends the party's session
without a result, as a Finalize error does. Every other status maps to
itself.

**Delivery model.** `msgs` is the set of all messages ever sent, so it gives
duplication, reordering and unbounded delay. A message is consumed only when
its round number equals the receiver's current round. A message that arrives
early stays in the set and can be received once the receiver catches up.

**Faulty parties.** An honest party sends the one message the code computes.
A faulty party sends every variant: `ok` may be either value, and a p2p share
may carry any point.

**Fairness.** Each party has weak fairness on `Receive(p)` and on
`Finalize(p)`. The driver keeps consuming deliverable messages, and it calls
Finalize whenever CanFinalize holds. Because the transport is at least once,
an enabled receive stays enabled until it is taken.

## Module Session (abstract)

`Session` states what the round engine promises each party, whatever the
protocol. `outcome[p]` is `"run"` until the session ends once, with
`Complete(p)` (a result), `Abort(p)` (a validation error naming
`blamed[p]`) or `Fail(p)` (any other error). An honest party may only blame
a party of `Faulty` (`Blameable`). A protocol module implements it through
`INSTANCE Session WITH outcome <- [p \in Party |-> Outcome(p)], blamed <- culprit`,
where `Outcome` maps the protocol's status onto the four outcomes, and the
run checks `SessionRefinement == Abs!Spec` as a PROPERTY. Every step of the
protocol must then be a stutter of the Session or one of its steps:
no session ends twice, none is revived, and an honest abort names a faulty
party.

## Module FrostKeygen

CONSTANTS: `Party`, `Faulty`, `Variant` (`"secp"`, `"ed"` or `"draft"`,
which of the three round-2 implementations runs), `StartReturnsRound`
(`FALSE` is what `FROSTKeygen.Start` does), `MaxStoreFaults` (how many
transient key-store failures a run may inject) and `None`.

State and its code counterpart:

| Variable | Code |
|---|---|
| `round`, `status`, `culprit` | the driver's current round object and session result |
| `rcvd` | `bcstmgr`: senders whose broadcast of this round is marked |
| `fwd` | `msgmgr`: senders whose round-3 share is stored |
| `keyStore`, `vssStore`, `shareStore` | `commit_mgr`/`ec_km`, `vss_mgr`, `ec_vss_km` |
| `lastRound` | `statemgr.SetLastRound` |
| `msgs` | every message ever sent (at-least-once, reordered delivery) |
| `storeFaults` | transient store failures injected so far, at most `MaxStoreFaults` |

Actions:

- `Start(p)`: `keygen.go:65-90`. It builds and stores round 1, then returns
  `(nil, nil)` at line 88; with `StartReturnsRound = FALSE` the party is
  left with no session.
- `StoreOpening(p, m)`: round 2's `StoreBroadcastMessage`, dispatched on
  `Variant`. `StoreOpeningSecp` rejects an identity commitment
  (`round2.go:55-57`), then `ImportThenVerify` imports the keys *before* the
  Schnorr check (`65-97`), and `ImportAndMark` imports the polynomial and
  marks the sender (`99-110`). The ed25519 version has no identity check.
  The draft (`272-325`) rejects every commitment that is *not* the identity
  (`280-282`) and marks nothing.
- `Finalize2(p)`: `round2.go:121-195`, guarded by `CanFinalize2`, which is
  `HasAll(OtherPartyIDs)` (`197-208`). It broadcasts, sends every peer its
  share (a faulty party may evaluate it anywhere), imports its own share
  (`ImportSelfShare`, `166-175`), calls `SetLastRound` and returns round 3.
  The shares go out in the loop over the sorted `PartyIDs()` (`154-175`),
  so the constant `Rank` gives each party its position in that order.
  Two store failures are modelled. A failed self-share import returns
  `(nil, err)` with the broadcast and only the shares to the parties
  before p in that order (`SentBefore(p)`) sent, so the session fails. A failed `SetLastRound` returns `(r, err)` with everything
  sent, and the driver calls `Finalize` again.
- Rounds 1 and 3 are not in `src/`. `Finalize1`, `StoreDecommit`,
  `StoreShare` (Feldman check: `ShareMatches3`) and `Finalize3` come from
  the spec and are marked so in the map.

Properties: `AbortBlamesFaulty`, `ShareConsistency` (a completed honest
party holds the sum of every f_j(p)), `SessionRefinement` and
`Termination`. Fairness is weak fairness per party on `Start`, `Receive`
and `Finalize`: the application starts every session, and the driver keeps
delivering and calls `Finalize` once `CanFinalize` holds.

## Module FrostSign

CONSTANTS: `Party`, `Faulty`, `Round2ReturnsRound3` (`FALSE` is what the
code does) and `None`.
A party's nonce commitment pair (D, E) is the value of its ID; the group
commitment R is the set of pairs `<<l, commitment held for l>>` that was
summed; a z message carries the R its sender used.

- `StoreNonces`: `keystore.go:192-218`. An identity D or E aborts naming the
  sender; otherwise `ImportNonces` stores them in `sign_d`/`sign_e` under
  the sender. Nothing is marked.
- `Finalize2`: `keystore.go:227-307`, guarded by `CanFinalize2`
  (`309-311`, always true as in the code). While a D or E is missing,
  `GetKey` returns `(r, err)` before anything is sent or stored
  (`232-248`), and the driver calls `Finalize` again after more arrivals
  (spec 4.1, invariant 3), so such a call changes no state and the model's
  `Finalize2` is enabled only once every pair is stored (`NoncesStored`).
  Then `GroupCommitment` (`251-269`) sums
  R over the cohort, z is broadcast (`302-305`), and the method returns
  `(nil, nil)` (`306`).
- Round 1 (`Finalize1`) and round 3 (`StoreResponse`, `Finalize3`) come
  from the spec. z verifies only when its sender computed the receiver's R.

Properties: `AbortBlamesFaulty` (proved), `SessionRefinement` and
`Termination`. Fairness is weak fairness per party on `Receive` and
`Finalize`.

## Runs

CMP keygen runs use three parties `a, b, c`: `MCCMPKeygen` with the configurations
below.

| Run | Config | Expect | Checks | Shows |
|---|---|---|---|---|
| honest | `MCCMPKeygen_honest.cfg` | pass | `Termination` | Every party finishes despite duplicated, reordered and early messages. |
| faulty | `MCCMPKeygen_faulty.cfg` (`Faulty = {c}`) | pass | `RIDAgreement`, `ShareConsistency`, `SessionRefinement` | Keygen implements Session, so an honest party only blames c; honest parties agree on the RID; every secret share matches its public share. |
| loopback | `MCCMPKeygen_loopback.cfg` | violation | `NoFailedSession` | With own broadcasts looped back, a counts its own opening and b's, finalizes before c's arrives and fails on `GetKey`. |
| code | `MCCMPKeygen_code.cfg` | violation | `Termination` | With round4's fields unset, as the code leaves them, the first round-4 message panics. |

Why three parties are enough:

- With three parties, a party has two peers. One of them can be faulty or
  missing while the other is honest.
- Every order of the two peers' messages is explored, and so is every early
  arrival.
- Cases that only arise with more parties, such as two faulty peers colluding,
  do not change the per-message checks that these properties rest on.

The faulty run disables the deadlock check. There is no timeout in the round
code, so when a party aborts, its honest peers wait for ever on it.

Mutants (plausible bugs that the properties catch):

| Mutant | Caught by |
|---|---|
| `CanFinalize4` compares the share count with N | `Termination` |
| Feldman check dropped | `ShareConsistency` |
| RID folded over the other parties only | `RIDAgreement` |
| the driver aborts without recording the culprit | `SessionRefinement` |

FROST runs, three parties `a, b, c`, with `MCFrostKeygen` and `MCFrostSign`:

| Run | Config | Expect | Checks | Shows |
|---|---|---|---|---|
| fk_honest | `MCFrostKeygen_honest.cfg` (ed, Start fixed) | pass | `Termination` | Every honest keygen completes. |
| fk_faulty | `MCFrostKeygen_faulty.cfg` (secp, `Faulty = {c}`, one store fault) | pass | `SessionRefinement`, `ShareConsistency` | Keygen implements Session, including across a retried `Finalize`; every completed share is consistent. |
| fk_draft | `MCFrostKeygen_draft.cfg` | violation | `AbortBlamesFaulty` | The draft's inverted identity check blames an honest party. |
| fk_start | `MCFrostKeygen_start.cfg` (`Start` as coded) | violation | `Termination` | `Start` returns `(nil, nil)`: no session runs. |
| fk_storefault | `MCFrostKeygen_storefault.cfg` (one store fault) | violation | `Termination` | a, first in the order, fails its self-share import after its broadcast and before any share went out; b and c never receive a's share and wait in round 3 for ever. |
| fs_honest | `MCFrostSign_honest.cfg` (round 2 returns round 3) | pass | `Termination` | Every honest signing session completes. |
| fs_faulty | `MCFrostSign_faulty.cfg` (`Faulty = {c}`) | pass | `SessionRefinement` | Signing implements Session: honest signers only blame c. |
| fs_noround | `MCFrostSign_noround.cfg` (round 2 as coded) | violation | `Termination` | round 2's `Finalize` returns `(nil, nil)`: no signer reaches round 3 and no signature is produced. |

The passing runs fix the defects that the violation runs exhibit, so that
the rest of the protocol is still checked. Every FROST configuration
disables the deadlock check: a party waits for ever on a peer that aborted
or failed, and the runs with `Start` or round 2 as coded stop by design.
One store fault is enough to reach both failure paths of `Finalize2` at
every party and every point of the interleaving.

FROST mutants:

| Mutant | Caught by |
|---|---|
| `CanFinalize2` requires a broadcast from every party, self included | `Termination` (fk_honest) |
| the secp identity check inverted, as in the draft | `SessionRefinement` (fk_faulty) |
| the self-share import skipped | `ShareConsistency` (fk_faulty) |
| D, E imported under the receiver's ID | `Termination` (fs_honest) |
| R summed over the other parties only | `SessionRefinement` (fs_faulty) |


## Proofs (`CMPKeygenProofs`)

- `TypeCorrect`: `Spec => []TypeOK`. It rests on:
  - the lemma `SendType`, which says every message sent is in `Msg`;
  - the lemma `TypeStep`, which has one step per action.
- `ShareConsistent`: `Spec => []ShareConsistency`, for every finite set of
  parties and every faulty subset.
  - `ShareConsistency` is not inductive. A step of `round4.Finalize` sums
    whatever `vss_km` holds, so the invariant must also constrain the store.
  - The strengthening is `ShareInv`: TypeOK, every share stored by party p is
    `None` or evaluated at p, and a party in round 5 holds `PublicShare(p)`.
    TLC checked it on the faulty instance before the proof was written.
  - The argument has three parts:
    - only `StoreShare` writes the store, and only after the Feldman check;
    - only `Finalize4` moves a party to round 5, and only when no entry is
      `None`, so the sum equals `PublicShare(p)`;
    - every other action leaves `round`, `secret` and the store alone at
      round 5.

- `BlameCorrect`: `Spec => []AbortBlamesFaulty`. No run checks this
  invariant on its own: `SessionRefinement` implies it, because the
  abstract `Abort` records the culprit. It is the invariant that the
  `Refinement` proof below rests on.
  - The strengthening is `BlameInv`: TypeOK, and every message in `msgs`
    whose sender is honest verifies (`ok`) and carries its receiver's point.
    It holds because `msgs` only grows by what `Send` emits (lemma
    `SendHonest`).
  - An abort happens only on a message addressed to the aborting party that
    fails `ok` or the Feldman check. By the invariant, that message is from
    a faulty party (lemma `RejectedIsFaulty`).
  - Every other change of `status` is to `failed`, `crashed` or `done`, and
    leaves `culprit` alone.
  - TLC checked `BlameInv` on the faulty instance first.

The proofs use only the assumptions in `CMPKeygen`: `Party` is finite and
nonempty, `Faulty \subseteq Party`, both flags are Boolean, and
`None \notin Party`.

- `RIDAgreed`: `Spec => []RIDAgreement`.
  - The strengthening is `RIDInv`: TypeOK, every `rid_km` entry of party p
    for j is `None` or j's own contribution, and a party past round 3 holds
    the XOR of every party's contribution (`Party`).
  - `StoreOpening` imports under the sender's id, even for an opening that
    then fails, so the entry stays j's own. `Finalize3` writes the RID only
    when no entry is `None`, and then the XOR is over every party (lemma
    `XorRIDFull`). TLC checked `RIDInv` for both transports and both
    round-4 settings first.
- `Refinement`: `Spec => SessionRefinement`, for every finite set of
  parties, every faulty subset and both flags.
  - It uses `BlameInv` as the invariant (lemmas `BlameInit`, `BlameStep`).
  - `RefinementStep` maps each action:
    - `Finalize2`, the stores that accept, and a `Finalize3` or
      `Finalize4` that returns the next round are stutters;
    - an abort is `Abs!Abort`, because the rejected message comes from a
      faulty party (`AbortMaps`, using `RejectedIsFaulty`);
    - a `GetKey` error or a panic is `Abs!Fail` (`FailMaps`);
    - `Finalize5` is `Abs!Complete`.

The following stay with TLC:

- **Liveness** (`Termination`): TLAPS does not reason about fairness or
  `ENABLED`.
- **The violations.**

## Proofs (`FrostSignProofs`)

- `Refinement`: `Spec => SessionRefinement`, for every finite cohort and
  every faulty subset: FROST signing implements the abstract Session.
  - The invariant `IInv` is TypeOK and four more conjuncts:
    - `StoreInv`: the commitment stored for l is `None` or l's own;
    - `ViewInv`: a party in round 3 computed the full R (`Full`);
    - `MsgInv`: a message from an honest party is not the identity,
      verifies, and in round 3 carries the full R;
    - `AbortBlamesFaulty`.
  - `MsgInv` and `ViewInv` are needed because a round-3 abort is decided
    by comparing the sender's R with the receiver's: both must be `Full`
    whenever the sender is honest. `Finalize2` only reaches round 3 with
    every entry stored, and `StoreInv` makes that sum `Full`
    (lemma `GroupCommitmentFacts`). TLC checked `IInv` on the faulty
    instance first.
  - The refinement step (`RefinementStep`) maps each action. `Finalize1`,
    the stores that accept and the `noround` exit are stutters. An abort is
    `Abs!Abort`, because the rejected message comes from a faulty party
    (lemma `SenderFaulty`). `Finalize2` is a stutter, and `Finalize3` is
    `Abs!Complete`.
- The proof rests on `FrostSign`'s assumptions: `Party` finite and
  nonempty, `Faulty \subseteq Party`, a Boolean `Round2ReturnsRound3`,
  `None \notin Party`.
- `Termination` stays with TLC.

## Proofs (`FrostKeygenProofs`)

- `ShareConsistent`: `Spec => []ShareConsistency`, for every finite set of
  parties, every faulty subset, every `MaxStoreFaults` and all three
  round-2 variants.
  - The strengthening is `ShareInv`, TypeOK and four more conjuncts:
    - `StoreInv`: every share stored by p is `None` or evaluated at p;
    - `FwdInv`: a sender counted in round 3 has its share stored;
    - `SelfInv`: a party in round 3 holds its own share;
    - `DoneInv`: a completed party holds `FullShare(p)`.
  - `SelfInv` is what needs the code's order in `round2.Finalize`: the own
    share is imported before round 3 is returned. The retry after a
    `SetLastRound` error and the failed self-import leave it intact.
  - `StoreOpening` has a different body per variant. The lemma
    `StoreOpeningCases` turns it into four outcomes: opening rejected,
    proof rejected, imported without marking (draft), imported and marked.
  - TLC checked `ShareInv` on the draft instance first.
- `KeygenRefinement`: with `Variant \in {"secp", "ed"}`,
  `Spec => SessionRefinement`.
  - The invariant `KeygenInv` is `ShareInv` and four more conjuncts:
    - `MsgInv`: a message from an honest party verifies, is not the
      identity, and its share is at its receiver;
    - `RoundInv`: an idle party is at round 0, and a party at round 0 or 1
      has counted no one;
    - `VssInv`: a party in round 2 holds the polynomial of everyone it
      counted and its own, and in round 3 everyone's;
    - `AbortBlamesFaulty`.
  - `VssInv` is needed for the round-3 Feldman check: it can only reject
    an honest share if the sender's polynomial were missing.
    `RoundInv` is what gives `VssInv` at the moment `Finalize1` enters
    round 2.
  - TLC checked `KeygenInv` on the faulty instance with secp and with ed
    first.
  - `RefinementStep` maps each action. `Start`, `Finalize1`, the imports
    that mark, the `Finalize2` success and retry are stutters. Every abort
    is `Abs!Abort`, because the rejected message comes from a faulty party
    (`SenderFaulty`). A failed self-import is `Abs!Fail`, and `Finalize3`
    is `Abs!Complete`.
  - The draft variant is excluded: its inverted identity check rejects
    every honest opening, and the run fk_draft shows the honest party
    blaming an honest peer.
- The proofs rest on `FrostKeygen`'s assumptions: `Party` finite and
  nonempty, `Faulty \subseteq Party`, `Variant` one of the three,
  `StartReturnsRound` Boolean, `None \notin Party`,
  `MaxStoreFaults \in Nat` and `Rank` an injective map into `Nat`.
- `Termination` and the violations stay with TLC.

## Not modelled, and the plan

Planned modules, in this order:

1. `CMPSign`: round 5, with the sigma-share overwrite and the N-1 count.
2. `KeyEncoding`: the `Bytes`/`fromBytes` round trip as a pure algorithm.
   `fromBytes` reads past the end of a public-only key.

Not modelled:

- The cryptography (field arithmetic, Paillier, ZK proofs). It is abstracted
  to whether a message verifies.
- The worker pool of sign round 1.
- The external key stores.
- The reads of FROST sign's own nonces and key share under `cfg.KeyID()`
  (`keystore.go:275-290`): they depend on round 1 and on keygen storage,
  which are not in `src/`, and are assumed to succeed.
