# Verification of the PCI vault (vaulty)

TLA+ models of the tokenizer service in `src/`, checked with TLC on small
instances, and theorems about them proved with TLAPS for every instance.

## The system

Two HTTP services. The **tokenizer** (`cmd/tokenizer`) replaces a card number (PAN)
and a card code (CVV) by tokens and reveals them again; the **proxy** (`cmd/proxy`)
takes payloads with tokens in them, has the tokenizer reveal the tokens, and
forwards the payload to a destination. All state is outside the processes:
PostgreSQL, Redis, and the keys of a KMS. A handler is a goroutine that makes one
call after another to these services; there are no transactions, locks or
background jobs.

| Component | State | Operations | What is hard | What makes it correct |
|---|---|---|---|---|
| Tokenize endpoint (`handler/tokenize.go`) | none of its own | look up the blind index, get a data key, insert `tokens`, insert `vault_entries`, audit, store the CVV token, invalidate the previous one, audit | ten calls to three services, any of which may fail or interleave with those of other requests | one token per PAN and tenant, for ever; a CVV token that can be used once |
| Detokenize endpoint (`handler/detokenize.go`) | none | find the token, read and unwrap the vault entry, touch `last_used_at`, audit; or GETDEL in Redis | races with deactivation and with other detokenize calls | reveals what was tokenized, to its tenant, and nothing of a dead token |
| Token management (`handler/token_manage.go`) | none | status, deactivate, audit trail | status and key are read before the answer | deactivation is irreversible |
| CVV store (`redis/cvv_store.go`) | keys `cvvtok:t:k`, `cvvtok_owner:t:k`, both with a TTL | SET, GETDEL, TTL, and GET, DEL, SET to invalidate | the last three are not atomic, their errors are dropped | single use; the invalidation never removes everything |
| Repositories, schema (`repository/`, `migrations/`) | tables `tenants`, `tokens`, `vault_entries`, `audit_log` | one statement per method | unique indexes and foreign keys decide races | one row per blind index; updates keep the identifying columns |
| Audit logger (`audit/logger.go`) | rows of `audit_log` | insert | an error is dropped | every successful answer has a row while the database takes inserts |
| Tenant middleware (`auth/tenant.go`) | none | check on each request | the check is made once per request | tenants never see each other's values |
| Tenant administration (`handler/tenant.go`) | `tenants`, KMS keys | create, get, list, deactivate | creations race, and make a KMS key before the row | one key per tenant, for ever; an answered creation holds |
| Listings (`repository/audit_repo.go`, `repository/tenant_repo.go`) | none | count, page | two statements over tables that grow | a walk misses no row |
| Envelope encryption, KMS (`crypto/`, `kms/`) | keys | data key per PAN under the tenant's key, blind index by HMAC | KMS may be down | a value opens under its own key only |
| Proxy (`handler/forward.go`, `proxy/`) | none | scan and reveal each token, forward | consumed CVVs when a later step fails; timeouts on both sides, and a write deadline | nothing unrevealed is sent; a CVV is sent once; 404 means nothing was sent |
| Authentication, roles, health, configuration, server lifecycle | none, or fixed at start | | shutdown cuts handlers off | shutdown is in the models as `Crash`; the rest is not modelled |

PROJECT.json lists every component with its status, and under `hazards` the
places of the code that tests hardly reach, with the properties that watch them.

## The modules

    VaultData             token ids, blind indexes, sealed values, data keys
      PostgresStore       tables, statements, what the constraints accept
      CVVStore            Redis keys, commands, expiry
        Tokenizer         requests, handlers, failures; the properties
          TokenizerInvariants    the inductive invariants
            TokenizerProofs      types, what handlers know; one token per PAN and tenant
              CVVProofs          CVV tokens are single-use; invalidation leaves one
                AnswerProofs     what answers carry, and their audit rows
                  SerialProofs   requests that are served one at a time
          TokenizerRefinement    refinement mapping into VaultContract
          CVVLifetime            TTLs and the clock; refines Tokenizer
            RefinementProofs     both refinements, one on the other (on AnswerProofs)
          PanValidation          the check of a card number
            PanProofs            what the loop computes, for strings of any length
    VaultContract         what the tokenizer promises, with no stores in sight
      Proxy               forward requests, calls, timeouts; its properties
        ProxyInvariants          the inductive invariant
          ProxyProofs            what is posted, how often and when
    Management            tenants, their KMS keys, and the two listings
      ManagementInvariants       the inductive invariant
        ManagementProofs         tenants keep their keys; walks miss nothing

The modules for TLC: `MCTokenizer` (with the invariant and the refinement), `MCSerial` (with
`PanValidation` too), `MCCVVLifetime`, `MCProxy`, `MCManagement`.

**Grain.** One action is one call to PostgreSQL, Redis or KMS with the local code
up to the next call: statements and commands are atomic, nothing larger is. The
value of `pc[r]` names the call request `r` makes next. Two calls are merged where
no other process can tell: the SELECT on `vault_entries` with the KMS unwrap (a row
never changes once it is there, and unwrapping has no state), and the lookup and
update of a tenant's deactivation (tenants are never deleted).

**State.** `tenants`, `tokens`, `vault`, `audit` are the tables; `cvvtok`,
`cvvtokOwner` the keys in Redis; `panTok`, `prev`, `val`, `code` are the handler's
`panTokenID`, `prevID`, the value in its answer and its HTTP status. `fate` and `late` are history:
what became of each CVV token, and whether a request arrived when its token was
already dead. No guard reads them.

**Data.** A token is named by the request that minted it and the field it replaces:
160 random bits never collide, and neither does anything else the code draws. A blind
index is the pair it hashes, a sealed value is a pair of key and text that opens
under that key. `Invalid` stands for every field that is not a string or fails
its validation. A request uses a token only after some answer handed it out, to
any tenant's caller.

**Failures.** `Faults` names the services that may fail. A failing call either
did not take effect or did and lost its result, as happens with timeouts. `"crash"` is
the end of a process, the shutdown deadline of `server.Run`, or a client that goes
away (the request context is cancelled): the handler makes no further call with an effect.
Errors the code drops are dropped in the model: `logAudit`, `UpdateLastUsed`, and all of
`InvalidatePreviousCVVToken`.

**Expiry.** In `Tokenizer` a CVV token expires at any moment, an owner key only when the CVV
token it names is gone. `CVVLifetime` is where that rule comes from: every key has the ticks
left of the TTL it was SET with, SET starts a timer, time passes between any two commands, and
a key whose time is up is gone for the next command. `ImplementsTokenizer` is the refinement:
a key expires in `CVVLifetime` only when `Tokenizer` lets it, because the owner key is SET
after the token it names, with the same TTL (`OwnerOutlivesToken`). A tick is a quarter of a
second, as TTL rounds to whole seconds and `ExistsCVVToken` decides on what it replies: the
last half second, where the reply is 0, is the boundary. `CVVTTL` is any integer, as the code checks
nothing; 0 or less is a SET without expiry, for which `EveryCVVGoes` and
`StatusSeesWhatDetokenizeReveals` are false (a status request then takes the key for absent).
The runs use a positive one, as the default of an hour is.

**Card numbers.** `PanValidation` has the loop of `validatePAN` as a recursive function of the number
of digits read, and the client of the first request types its PAN before it is sent: one of the
strings in `Typed`. In the run (`MCTyped`) these are zeros but for two characters, at
the first place or the last two, in lengths around the bounds 13 and 19: the sum of the check
takes each digit by itself, so two digits show what one does to it and what exchanging two
neighbours does. The definition it is checked against is what 003 FR-016 (`spec.md:133`) asks for: 13 to 19
digits and the Luhn check, this as its standard (ISO/IEC 7812) states it, with the parity of the
place counted from the right and digit sums instead of `- 9`. The length bounds are FR-016's, not the standard's.

**Management** has the requests that are not on the data path. A creation finds no row, has KMS
create a key, inserts the row; any two of these calls may lie far apart, and each may fail before or
after it took effect. Keys are named by the request that made them. A `Walk` is a client that
goes through a listing: it asks for pages of a fixed limit, at offsets that grow by it, until one is
shorter than it asked for; each page is a request of its own, with its COUNT and its SELECT. Rows are
inserted all the while, by creations or by `Log`, with a `created_at` that need not follow the order of the
commits. A page is any result ORDER BY, LIMIT and OFFSET allow: ties come in any order. The table
`audit_log` keeps the masked identifier; the token behind a row is history, for `TrailOfOneToken`.
Handlers that die are those that take no further step.

**VaultContract** is the promise: a map from cards to tokens that only grows, a set
of spent tokens that only grows, CVVs that are revealed once, reveals that answer
what the directory says, judged by the state of the token when the
request arrived. `TokenizerRefinement` maps the tables and keys to it.

**Proxy** is composed with `VaultContract` and not with the tokenizer's calls: the
tokenizer implements the contract, and the proxy sees no more of it than answers. The
detokenize calls of the proxy are the clients of the contract, one for each place of
a payload that holds a token; tokens die (`VaultTokenDies`) at any moment. `pc[f]` is where
`ServeHTTP` is: decoding the body as it comes in (`"decode"`), walking the payload (`"reveal"`), or
waiting for one of the two other services. `Arrive` is the headers, `Receive` the body, which is complete
or refused (`DecodeFails`) at the read deadline of the server at the latest. A
call in `sent` is taken up by the tokenizer whether or not the proxy still waits, and `posted[f]`
is what the destination may have read: the payload, or, when it answered before it had read all of it,
zeros, because `Forward` wipes the buffer that is still being sent from (a data race). The contract
promises no answer, so any call may be refused; an empty answer of a PAN token (see
`EmptyReveal`) is passed on as the proxy does. Tokens are in the vault from the start, in
any combination: one that is issued later is one that nobody uses until then. The clock
runs while handlers wait: for the body up to `ReadTimeout`, for a call up to the timeout of its client.
`elapsed` counts from the headers on, when the server sets the write deadline, so a slow client uses
up the time of the answer; the read deadline was set a little earlier, before the headers were read. An answer is
`heard` when the write deadline has not passed. A 400 stands for 401 too, and what the destination
answers is left out, except that it may be early, late or unreadable. `http.Client` may send a
payload twice by itself (a redirect, a lost connection with an Idempotency-Key): `posted` counts
payloads, not copies.

## The runs

All instances have model values for requests, tenants, PANs and CVVs; these are
interchangeable, so runs without liveness use their symmetry. A request is served
once, so the state space is finite and ends when all have been answered: that is
why deadlock is not checked. `MaxInFlight` bounds how many requests
are served at once.

| Run | Bounds | Shows |
|---|---|---|
| `RedisFaults` | 3 requests at once, 1 tenant, Redis failing, handlers dying | the tokenizer implements `VaultContract`; types, single use, a surviving CVV token, no answer from a dead token, a complete audit log; the inductive invariants `OwnerInv` and `AnswerInv` |
| `DatabaseFaults` | 3 requests, 2 at once, PostgreSQL and KMS failing | one token per PAN across half-finished requests; a deactivation whose answer was lost holds; the inductive invariant of the proofs |
| `Serial` | 3 requests one by one, 2 tenants, 2 PANs, nothing failing | a token reveals its own field, to its own tenant; the properties that need requests not to overlap, with their invariant `SerialInv`; the check of card numbers |
| `Liveness` | 2 requests at once, TTL of 3 ticks, Redis failing, handlers dying, fair | the timed system implements the untimed one; no CVV stays; every request whose handler lives is answered; an issued PAN token becomes revealable |
| `Proxy` | 2 forward requests, payloads with 2 strings, 2 tokens, a read deadline and client timeouts of 1 tick, bodies that break off, lost calls, crashes | only revealed payloads are sent, a CVV once; a 404 means nothing is sent; dead tokens stay home; the time a request can take, body included; the inductive invariant `ProxyInv` |
| `Management` | 3 requests or walks, 2 tenants, 3 audit rows, 2 values of `created_at`, limits 2 and 3, the highest allowed 2, the default 1, PostgreSQL and KMS failing | one key per tenant, for ever; an answered creation holds; a page covers its total, a walk misses nothing; the inductive invariant `ManagementInv` |

Three requests are the least that let two race for what a third has made, or one
arrive after a race of two. A TTL of 3 ticks lets a token live through the two commands that make its owner key, or not.
In `Management` three rows make two full pages of the smaller limit, and the larger limit is
above the highest allowed.
One PAN and one CVV suffice where the question is about one token, as handlers of
different PANs share no row and no key; `Serial` has two tenants and two PANs to confuse.
Two forward requests are a request and its retry, and two places with two tokens allow a PAN with
a CVV, two CVVs, and one token twice. The run starts with both tokens issued (`SpecAllIssued`): a token
of another tenant, or one nobody issued, is refused, as every call may be. In `Proxy` each wait may last a tick or none, which tells the terms of
the bound on the time apart by the number of waits; its write deadline is longer than any of them together. `ProviderTimeout`
has the deadlines of the code: ticks of ten seconds, 1 for the body and for a token, 3 for the destination
and for the answer. The properties that the theorems state hold for every size, see below.

Six runs end in a violation: each shows a sentence of the documents under
`src/specs` that the code does not keep.

| Run | The document | The code |
|---|---|---|
| `EmptyReveal` | the PAN token and its vault entry are stored in one transaction; PAN tokens return the PAN | two statements; in between detokenize answers 200 with an empty value |
| `TwoLiveCVVs` | only the most recent CVV token survives in Redis | overlapping requests leave two |
| `ConcurrentTokenize` | both of two concurrent requests get the same PAN token | the second insert is refused, 500 |
| `CVVOutlivesPAN` | a CVV token is invalid once its PAN token is inactive | it is still revealed |
| `ProviderTimeout` | a provider that cannot be reached is reported by a structured error | the 502 comes after 30 s of waiting, when the write deadline of 30 s has passed, and is lost |
| `SharedTrail` | a usage history per token | per 12 characters of a token: 32 bits |

`TokenizeSucceeds`, `OneLiveCVV` and `NoEmptyReveal` hold in `Serial` and fail in
these runs: what breaks them is the overlap and nothing else. More differences need no
run to be seen: with Redis down a PAN with a CVV is answered 500 and its stored token is not
returned (spec 003, `spec.md:108`, wants it returned); a payload is wiped only when the
destination has answered (spec 001, `spec.md:67`); the answer to a creation has zero times, because
`Create` does not read the row back (spec 002, `contracts/api.yaml:54`); nothing reactivates a tenant (spec 002, `contracts/api.yaml:151`); a payment whose token is
deactivated between its arrival and the call that reveals it fails with 404 (spec 001, `spec.md:184`, says that
it must complete); a destination body that is empty or not JSON is answered 200
with an empty body (spec 003, `contracts/api.yaml:248`, says verbatim); DELETE on a CVV token is answered 404 and leaves it
in Redis (spec 003, `contracts/api.yaml:147`, says it is deleted), and a failed audit insert
is dropped (spec 001, SC-006, allows no untracked operation; `AuditComplete` therefore
holds only while PostgreSQL accepts the inserts). `AuditComplete` is about successful answers; FR-011
(spec 001, `spec.md:223`) asks for every attempt and for payments, but the code writes no row with a result other than success, and none
in the proxy.

**Fairness.** `FairTimedSpec` has weak fairness of each request's own steps, because the Go
scheduler runs every goroutine that can run and every call to a store returns (it is
answered, or fails); of the clock, and of expiry. Requests need not arrive, handlers need not die and tenants
need not be deactivated. A dead handler answers nobody, so `EveryRequestAnswered` and
`IssuedTokensBecomeRevealable` except the requests that died; `EveryCVVGoes` does not: the TTL is what
the code relies on there. `IssuedTokensBecomeRevealable` also needs that PostgreSQL works, as it does in this
run: after a failed insert into `vault_entries` no later request makes up for it.

## The proofs

For any sets of requests, tenants, PANs and CVVs, any endpoints in use, any failures
and any `MaxInFlight`, from the named assumptions of the modules (`Nil` and `Invalid`
are none of the values, tokens, rows, statuses or records):

- `TypeCorrect`: `Spec => [](TypeOK /\ HandlerOK)`
- `TokensAreDeterministic`: `Spec => []DeterministicTokens`
- `InvariantHolds`: `Spec => []Inv`
- `CVVTokensAreSingleUse`: `Spec => []CVVSingleUse`
- `InvalidationLeavesOne`: `Spec => []SomeCVVSurvives`
- `OwnersAreTracked`, `AnswersAreTracked`: `Spec => []OwnerInv`, `Spec => []AnswerInv`
- `RevealsAreTrue`: `Spec => []RevealsWhatWasTokenized`
- `DeadTokensAreDead`: `Spec => []NoAnswerFromDeadToken`
- `AnswersAreAudited`: `Spec => []AuditComplete`, if PostgreSQL is none of the services that fail
- `TokenizerImplementsContract`: `Spec => ImplementsContract`, the refinement of `VaultContract`
- of `CVVLifetime`, for every integer `CVVTTL`: `TimedImplementsTokenizer`, the refinement of
  `Tokenizer`, so that all of the above holds with timers too: `TimedTokenizerIsSafe`, the five
  safety properties, and `TimedImplementsContract`, the promise to the proxy. `OwnersOutliveTokens`:
  `TimedSpec => []OwnerOutlivesToken`; `TimedTypes`: `TimedSpec => []TimedTypeOK`;
  for a positive one, `StatusIsExact`: `TimedSpec => []StatusSeesWhatDetokenizeReveals`
- of requests served one at a time (`MaxInFlight = 1`), where only some services may fail:

  | Theorem | `Spec =>` | Faults allowed |
  |---|---|---|
  | `MintingSucceeds` | `[]TokenizeSucceeds` | KMS, handlers that die |
  | `RevealsAreNotEmpty` | `[]NoEmptyReveal` | KMS, Redis |
  | `OneCVVStays` | `[]OneLiveCVV` | KMS, PostgreSQL |
  | `SerialInvariant` | `[]SerialInv` | KMS |
- of `Proxy`, for any payloads, timeouts, lost calls and crashes:
  `ProxyInvariant`, `ProxyTypes`, `OnlyRevealedIsPosted`, `CVVsArePostedOnce`,
  `FailedRequestsPostNothing`, `DeadTokensAreNeverPosted` and `RequestsAreServedInTime`:
  `Spec =>` `[]ProxyInv`, `[]TypeOK`, `[]PostsRevealedValues`, `[]CVVPostedOnce`,
  `[]NothingPostedOnFailure`, `[]DeadTokensStayHome`, `[]ServedInTime`
- of `PanValidation`, for any strings of any length: `CardNumbersAreValidated`:
  `TypedSpec => []AcceptsCardNumbersOnly`; `TypingErrorsAreCaught`:
  `TypedSpec => []CatchesTypingErrors`; `TypingImplementsTokenizer`: `TypedSpec => Spec`
- of `Management`, for any limits, bounds and number of requests: `TenantsHaveTheirOwnKey`,
  `CreationsHold`, `TenantsLiveOnce`, `ManagementInvariant`, `ManagementTypes`, `PagesCoverTheirTotal`
  and `WalksMissNothing`: `Spec =>` `[]DedicatedKeys`, `[]CreateAnswerHolds`, `TenantLifecycle`,
  `[]ManagementInv`, `[]TypeOK`, `[]PageCoversTotal`, `[]WalkMissesNothing`

Some assumptions are about more than names. Limits and timeouts are positive and the default limit is at
most the highest, as in the code's constants. `Proxy` needs that no PAN, CVV and token are the
same string (13 to 19 digits, 3 or 4, and `tok_`), and that payloads are finite, as bodies are;
`Management` that there are finitely many tenants, as a listing must have a length. The strings of
`PanValidation` are sequences of digits and of one other character, which stands for all that
`strconv.Atoi` refuses (`TypedAssumption`).

`DeterministicTokens` compares answers; it is not inductive, because it does not say
what handlers that have not answered yet hold. The invariant adds it in four parts:

1. `HandlerOK`: which request, PAN, CVV and token a handler has at each step. The
   types need it (an insert writes a PAN that was validated), and it is inductive
   together with `TypeOK`.
2. `DirectoryOK`: one row per tenant and blind index, and every handler past its lookup or insert
   holds the token of the row of its own PAN. Inserts keep it because of the unique
   index, updates because they leave the identifying columns alone, and nothing
   deletes rows. `DirectoryDecides` derives `DeterministicTokens` from it.
3. `CVVTokensOK`: a CVV token is stored by the request that mints it, once, under its
   tenant; while its key exists its fate is `"stored"`; PAN tokens and CVV tokens never mix.
4. `CVVHolders`: whoever holds a CVV has consumed its token, and is the only one.
   GETDEL hands out the value and removes the key in one command, and by part 3 a key
   that is gone does not come back.

Each part has one lemma that every step keeps it, with one proof step per action.

Three more invariants rest on this one.

- `OwnerInv`, for `SomeCVVSurvives`. That some CVV token is not deleted is not inductive: a handler
  that has read the owner is about to delete it. So the invariant speaks of a token that nobody is
  about to delete (`SurvivorsOK`), and `NewTokensUnowned` says where it comes from: a handler between
  storing its token and naming it the owner has one that no owner key and no handler names yet.
  When it is about to delete the survivor, its own token is the next one.
- `TimersOK` and `OwnerOutlivesToken`, for `CVVLifetime`. A handler SETs the owner key after the
  token, with the same TTL, and nobody stores a token twice, so no timer of a token is started again.
- `AnswerInv`. `StoredOK` ties every row of `tokens` and `vault_entries` and every key to the
  request that minted the token. A token has `Ended` when its row is inactive or its fate sealed; no
  step undoes that (`RowsKept`, `FatesKept`). `DeactivatesOK`: a handler past its UPDATE has ended the
  token, so what a client was told is true (`DeadHaveEnded`). `LateOK`: a request that arrived after
  that finds nothing (`NothingOfEndedTokens`) at any of its steps.

The refinement follows from the invariants without another induction. With `DeadHaveEnded` the spent
tokens of the contract are those that have ended; `StoredOK` and the unique index make the row of a
card its entry in the directory (`DirectoryHas`); a handler at its unwrapping or its GETDEL serves a
client that asked in time, by `LateOK`. There is one lemma per call the contract sees, and `QuietStep`
for all others.

`AnswersAreAudited` needs only what a tokenize handler has written when it gets to the CVV (`AuditOK`).

**Serial requests.** What overlap breaks is proved of requests that do not overlap. `OneAtATime`
says that one handler runs; a step of one is then a step of nobody else, so a handler may
rely on what it read: that there is no row for its PAN (`MintingOK`), that no vault entry lies under its token
(`EntriesUnwritten`), that the owner key is the one it has read (`LastOwnersOK`). Each theorem leaves out the
failures that would break it as overlap does: a handler that dies or loses PostgreSQL between the two inserts leaves a token
without a vault entry, one that loses Redis or dies within `InvalidatePreviousCVVToken` leaves an owner key
that names the wrong CVV token. Minting needs no more than that the inserts are accepted and the CVV
is stored: what a dead handler has left is found by the next one and used.

**Proxy.** `ProxyInv` ties every place of a payload to the call for it: it still has what the
client sent, or what the tokenizer answered to that call (`HandlerOK`), and a call is for the
token of its place in the name of the client's tenant (`CallsOK`). `ConsumedOnce` is the part of the
contract that counts: a CVV goes to one call, so a place that holds it is the only one. What
is posted is the payload when no token is left (`PostedOK`). A token that was dead when the body was read keeps its place
(`LateOK`), because the contract's `spent` only grows; so the walk never ends. The bound on the time is not inductive:
`ClocksOK` says that the wait for the body cost no more than the read deadline, then
counts the tokens that are left, each worth one more timeout, and the replacement
of one makes that set smaller by one (`Cardinality`, of finite payloads).

**Management.** `TenantsOK` has the types, what an admin's handler knows at
each call (`AdminOK`), `CreateAnswerHolds`, and `KeysOK`: the request that made the key of a tenant is
over and made it for that tenant. It is over because INSERT is its last call, so no later key
bears its name; the unique index refuses a second row, and the only update writes the status.
`ListingsOK` says where the rows are that a walk has not shown: each has at least as many newer rows
as the offset the walk goes on at (`WalkOK`). Rows are neither deleted nor given another `created_at`, so that number
only grows; a row with enough newer ones before it is in the page or beyond it, because ORDER BY puts the
newer ones first and OFFSET and LIMIT count (`Cardinality` again); and a page that is not full
is the end, where no row can have that many before it. Rows with the same `created_at` are excepted, as
`WalkMissesNothing` excepts them: their order may change from page to page. The total that a page
comes with is at most the length of the listing from then on (`TotalOK`).

**Card numbers.** The loop and the standard each add up a value per place, so `PanProofs` is about sums:
`Sums(m, v, g)` says that `g` has the sums of the first values of `v`. They exist and are unique, so
the recursive functions of the model are what they say they are, and the loop's flag is the parity of its
turn (`LoopAddsWeights`): both sums have the same `Weights`. A number that differs from another at one
place has a sum that differs by as much (`OneChange`), less than 10 and not 0, as doubling and
subtracting 9 keeps digits apart; an exchange is two such changes, which make up for each other only for
0 and 9 (`ExchangeShows`). All of it goes by induction over the places. The library's induction theorem
takes the predicate as an operator, which the provers cannot instantiate; `Induction` states it for a set
instead and rests on the well-foundedness of `<` (`WFMin`: the least number outside the set).

**Model-checked only.** Liveness under fairness is out of the prover's reach: `EveryCVVGoes`,
`EveryRequestAnswered` and `IssuedTokensBecomeRevealable` are TLC's. All other properties of the passing
runs are theorems.

## Further work

1. **Management composed with the tokenizer**: a tenant created while its first requests arrive.
2. **Migrations**: the sequence on tables with rows.

## Not modelled, and why

Health checks, the roles and the certificate check are stateless checks of one request, and
nothing uses their outcome later; the health check tries the default KMS key, not those of the tenants. Of
the configuration only `CVV_TTL` changes what the program does. The migrations are run by an
operator on an empty database (spec 002, `tasks.md:192`); the models have the schema they end with. `UpdateExpiry`,
`Store`, `Retrieve`, `WrapKey`, `MaskPAN`, `SafeDetail` and `RequireRole` have no caller. Loss of data inside
PostgreSQL or Redis, and eviction of keys by Redis other than by expiry, are outside the code. The text of
answers and logs is left out.

## Running

    tlc -workers 2 -config RedisFaults.cfg MCTokenizer
    tlapm TokenizerProofs.tla
    tlapm CVVProofs.tla
    tlapm AnswerProofs.tla
    tlapm SerialProofs.tla
    tlapm RefinementProofs.tla
    tlapm PanProofs.tla
    tlapm ProxyProofs.tla
    tlapm ManagementProofs.tla

The module of each run is in PROJECT.json. Every run takes less than four minutes.
