# TLA+ models of neon's HTTP authentication (src/src/ne_auth.c)

This directory holds TLA+ models of the authentication core of neon: the
file `src/src/ne_auth.c`. It covers Basic and Digest (RFC 2617 and RFC 2069)
authentication, Negotiate over GSSAPI and NTLM/Negotiate over SSPI, the
header tokenizer, and the hooks that attach them to the request pipeline. The
TLC runs model-check the authentication session across sequences of requests,
challenges, retries, `ne_forget_auth` calls and hostile or replayed
Authentication-Info headers.

## 1. Inventory of the system

`ne_auth.c` keeps one `auth_session` per role (server or proxy) per
`ne_session`. The session is driven by four hooks that the request layer
calls, one request at a time:

1. `ah_create`
2. `ah_pre_send`
3. `ah_post_send`, which may return `NE_RETRY`, in which case pre-send and
   post-send run again
4. `ah_destroy`

No two hooks of one session ever run concurrently. The hard behaviour comes
from the order in which these calls interleave with the user's API calls
(`ne_set_*_auth`, `ne_add_*_auth`, `ne_forget_auth`) and with whatever
responses the server chooses to send.

| # | Component | Code (lines) | State | Operations | Status |
|---|-----------|--------------|-------|------------|--------|
| C1 | Tokenizer | `tokenize` 764-827 | the parse cursor, the caller's `key`/`val`/`sep` | split a header into `key[=value]` tokens | modelled (`Tokenizer.tla`) |
| C2 | Challenge parser | `auth_challenge` 1006-1122, `insert_challenge` 977-1001 | the sorted challenge list | read the tokens; claim each scheme by the first handler whose mask admits it; sort by strength; write each key=value into the current challenge; take a Negotiate token; try acceptors in order | modelled |
| C3 | Scheme registry | `protocols[]` 951-972, flags 207-212 | constant | lookup by name and mask | modelled, per build |
| C4 | Basic | `basic_challenge` 332-359, `request_basic` 362-365 | `realm`, `basic` | accept a challenge, produce a header | modelled |
| C5 | Digest | `digest_challenge` 586-679, `request_digest` 683-762, `verify_digest_response` 835-949, `get_cnonce` 272-321 | `realm`, `nonce`, `cnonce`, `opaque`, `alg`, `qop`, `nonce_count`, `h_a1`, `stored_rdig` | accept (fresh or stale), produce a header, verify Authentication-Info, apply `nextnonce` | modelled |
| C6 | Negotiate (GSSAPI, SSPI) | 367-582 | `gssctx`, `gssapi_token`, `sspi_*` | continue the context, verify the final token | modelled |
| C7 | Session and handlers | `auth_register` 1262-1309, `clean_session` 239-269, `ne_forget_auth` 1350-1357, `free_auth` 1241-1260 | `handlers`, `context` | register, clear, forget, free | modelled |
| C8 | Pipeline hooks | `ah_create` / `ah_pre_send` / `ah_post_send` / `ah_destroy`, 1124-1239 | `auth_request` (`uri`, `method`, `attempt`) | the four hooks | modelled, for one role |

How the components interact:

- **C7 and C8.** C7 installs the hooks of C8 once per role. It also chooses
  the session's *context*: `ANY` for http; `CONNECT` for a proxy over https,
  where only the CONNECT request carries proxy authentication; `NOTCONNECT`
  for a server over https.
- **C8 and C2.** C8's post-send hands a 401/407 challenge header to C2. A
  broken proxy's 401 to a CONNECT counts as a challenge too.
- **C2 to C4/C5/C6.** C2 calls the acceptors of C4, C5 and C6, strongest
  first. The acceptors change the session even when they fail: Basic and
  non-stale Digest run `clean_session` before the credential callback.
- **C8 and C5.** Pre-send asks the selected protocol for a header. Post-send
  passes Authentication-Info to the protocol's verifier, and that takes
  precedence over any challenge in the same response.

The hard behaviours in this code are the following. Each one is listed, at its
line, in `PROJECT.json` under `hazards`.

- **Stale challenges.** A stale challenge skips `clean_session`, the callback
  and the H(A1) computation (608, 638), but it still resets `nonce_count` and
  installs a new nonce and cnonce.
- **The `stored_rdig` snapshot.** It is taken in pre-send and consumed in
  post-send (727, 909-923).
- **`nextnonce`.** It is applied after verification, whether or not
  verification succeeded (939-944).
- **Uninitialised nonce count.** A garbage `nc` leaves the local nonce count
  uninitialised (868, 891).
- **`ne_forget_auth` leaves the protocol selected.** `clean_session` does not
  reset `protocol` or `h_a1`, so the next request reads freed or NULL fields
  (715, 886).
- **Registration overwrites.** `auth_register`'s "append" overwrites the last
  handler (1301-1304).
- **Negotiate.** The GSSAPI token is dropped only in post-send (1189), so a
  request abandoned before post-send leaves it to be sent again. Verification
  compares with a length computed across two buffers (519), and a bare
  `Negotiate` reaches `strlen(NULL + 1)` (527). Branch two of post-send tests
  `&&` where `&` was meant and calls SSPI's NULL verify (1204-1207).
- **The challenge parser.** Parameters are written through the pointer
  `insert_challenge` returned while the list is re-linked in strength order
  (1043). The pointer must be reset after a scheme nobody claims (1038).
  The word after `Negotiate ` is a token only when Negotiate is claimed
  (1046).
- **Other hazards.** The nonce-count wraps (693). A 401/407 that carries
  both Authentication-Info and a challenge is a verification, not a retry,
  because of the order of `ah_post_send`'s else-if chain (1199). A `qop` other than `auth` in Authentication-Info
  skips verification (858). The fallback cnonce source has one-second
  resolution (299).

## 2. Modules

### `NeAuth.tla`: one authentication session (C2-C5, C7, C8)

The module models one role, with the constant `IsProxy` choosing between the
server and proxy auth classes. The constant `Provider` is the build:
`"none"`, `"GSSAPI"` (`HAVE_GSSAPI`) or `"SSPI"` (`HAVE_SSPI`). It decides
which entries `protocols[]` holds (`NegSchemes`), their verifiers and flags,
and which code runs for the Negotiate family. Handler masks are sets of
`NE_AUTH_*` ids, so NTLM and Negotiate share one id, as in the code.

**Variables and the code they stand for:**

| Variable | Code |
|----------|------|
| `handlers` | the `ahs->handlers` chain, as a sequence of `[id, mask]` |
| `nreg` | the number of registrations so far; it gives each handler an identity |
| `sess` | the `auth_session` fields the protocols use: `protocol`, `realm`, `basic`, `nonce`, `cnonce`, `qop`, `alg`, `nonce_count`, `h_a1`, `stored_rdig` |
| `cnonces` | the number of `get_cnonce` calls; each call yields a fresh value |
| `req` | the current request's `auth_request`: `uri`, `attempt`, whether `ah_create` gave it one (`areq`), the last header sent, and its phase in the hook sequence |
| `crashed` | a NULL pointer was dereferenced; the only step left is `Crashed` |
| `sess.gssctx`, `sess.gsstoken`, `sess.sspictx`, `sess.sspitoken` | the GSSAPI context and cached output token; the SSPI context and token |
| `tokens` | the number of output tokens the provider returned; each is fresh |
| `toksent`, `respMark`, `lastNeg` | history variables: the tokens sent so far, `tokens` when the last response reached post-send, and the outcome of the last `verify_negotiate_response` |
| `due` | history variable: the post-send branch spec 4.8 prescribes for the current request's last response (`Prescribed`, written from the spec's list, not from the code's tests), NULL when no request is open |
| `used`, `replay`, `lastVerify` | history variables for the properties: the `<nonce, cnonce, nc>` triples sent, the last genuine `rspauth` a server sent (an attacker may replay it), and the outcome of the last verification |

**Data abstraction.**

- An MD5 value is the record of what it hashes. This assumes no collisions.
  `HA1`, `Prefix` (the `stored_rdig` context) and `ServerRsp` are such
  records.
- The credential the callback supplies is `Cred(handler, realm)`.
- The header a request carries is a record. It records whether the header is
  complete, which `ne_buffer_concat` makes false when it stops at a NULL
  realm or `basic`. It also records the credential, the digest prefix, `nc`,
  `cnonce` and `uri`.
- A challenge header (the constant `Headers`) is the list of tokens
  `tokenize` returns for it in challenge mode: `[key, value, sep]`, where a
  scheme word has value NULL and the separator that ended it. The
  `Tokenizer` runs check, on the header text, that `tokenize` returns exactly
  such lists, so the two modules meet at this list. Keys and values are in
  lower case, so `ne_strcasecmp` is equality, and values are given with
  their quotes already stripped. The word after a Negotiate scheme word and
  a space is a single word (an `ASSUME` states it), which is what
  `ne_token` takes.

**Actions, one per entry point:**

| Action | Code |
|--------|------|
| `SetAuth` | `ne_set_server_auth` / `ne_set_proxy_auth` |
| `AddAuth` | `ne_add_*_auth` with any non-empty mask |
| `ForgetAuth` | `ne_forget_auth` |
| `Create` | `ah_create` |
| `PreSend` | `ah_pre_send`, with `request_basic` / `request_digest` / `request_negotiate` / `request_sspi` |
| `PostSend` | `ah_post_send`: `ForgetGssToken`, then one of `PostSendVerify`, `PostSendVerifyNon40x`, `PostSendChallenge` and `PostSendNone`, selected by `Branch`, the else-if chain over `VerifyInfo`, `VerifyNon40x` and `IsChallenge` in the code's order; it also records in `due` the branch spec 4.8 prescribes (`Prescribed`) |
| `Destroy` | `ah_destroy` |
| `FreeAuth` | `free_auth`, the session's destroy hook (no request open); what follows is a new session, in the state `Init` gives |

`PostSendChallenge` runs the whole of `auth_challenge`:

1. it resets `protocol`;
2. `ParseChallenges` runs the `while (!tokenize(...))` loop over the tokens
   (`ParseFrom`, a RECURSIVE operator). A scheme word is claimed by the
   first handler whose mask admits it (`Claimant`) and inserted by strength
   (`insert_challenge`). The `chall` pointer is kept as the position of its
   scheme word, and it is reset after a word nobody claims. An
   OPAQUE_PARAM scheme followed by a space takes the next word as its token
   and stops the loop at the end of the header. Each key=value pair is
   written through `chall` (`WriteTo`, `SetParam`, with `QopTokens` for the
   qop list). The parse reads the handlers only through `Claims`, the id
   of the handler that claims each scheme;
3. `TryChallenges` runs the acceptors in order, keeping the side effects of
   the ones that fail;
4. on failure it runs the trailing `clean_session`.

**Inputs, chosen with `\E`:**

- the response: its status, its challenge header, the fallback
  WWW-Authenticate header for a CONNECT context, and an Authentication-Info
  value;
- the callback's verdict, or the security provider's outcome, for each
  challenge tried (`VerdictSeqs`). A GSSAPI outcome is a major status
  (CONTINUE_NEEDED, COMPLETE, an error, or another status) and whether an
  output token came back. An SSPI outcome is that creating the context
  failed, that authenticating failed, or a response token;
- in `verify_negotiate_response`, the result of `strncmp` over the undefined
  length `ptr - hdr`. It is either outcome, except for a bare `Negotiate`,
  which is equal for any length;
- the result of comparing an unparsable `nc` (undefined behaviour, so both
  outcomes).

An Authentication-Info value may echo the request's `cnonce` and `nc`, and its
`rspauth` may be:

- the genuine digest;
- a replay of the last genuine one;
- a wrong value.

It may also carry fields that are missing or wrong, one field at a time:
the value is the echo of the request with at most one of `rspauth`,
`cnonce` and `nc` replaced (`Echo`, `QopInfo`). `verify_digest_response`
tests missing fields, `cnonce`, `nc` and `rspauth` in turn and stops at the
first that fails, so a value wrong in two fields takes the path of its
first wrong one. `nextnonce` is any nonce or none.

A challenge header comes only with a status under which some branch of
`ah_post_send` reads it (`ReadsHdr`): the role's code, a 401 to a CONNECT
context, and a 2xx in a build with a Negotiate-family protocol (the only
ones with flags). Under any other status a header acts as no header.
`HeaderResponses`, the part of the responses that does not depend on the
request, is a constant, so TLC computes it once.

### `AuthPipeline.tla`: the contract of the hooks (abstract)

This is the abstract specification of what C8 promises the request
pipeline: spec.md 4.8 and the "Ordering guarantees" of section 5. It has no
credentials and no protocol details. Its variables are:

- the current request's phase: none, new, sent, retry or done;
- the number of challenges parsed for the request;
- the selected scheme;
- the scheme of the header the last pre-send added;
- what the last response calls for: a verification, a challenge or
  nothing (`due`).

Its actions are `Open`, `Send` (a header of the selected scheme, or none),
`Answer` (only on a response that calls for a verification or nothing; the
selection stays), `Challenge` (only on a response that calls for one: one
more attempt, any selection, and a retry exactly when a scheme was
selected), `Close` and `Clear` (forget may drop the selection).

`NeAuth` instantiates it as `Pipeline`, with this refinement mapping:

- phase and attempt come from `req`, with no request mapped to `"none"`
  and 0;
- the selection is `sess.protocol`;
- the header scheme is `req.sent.scheme`;
- `due` is `NeAuth`'s history variable `due`. `PostSend` sets it from
  `Prescribed`, spec 4.8's numbered list, independently of the
  code's `Branch`. So a post-send whose else-if chain takes another branch
  than the spec's (for example, a challenge tested before
  Authentication-Info) is a step the contract does not allow.

Registration, verification, a crash and the history variables are
stuttering steps. `PipelineRefined` (`Pipeline!Spec`) is checked in the
`negotiate_gssapi` run, the one run whose build has every kind of protocol.

### `Tokenizer.tla`: `tokenize` and the loop that calls it (C1)

`tokenize` is a character scanner with three states (`BEFORE_EQ`,
`AFTER_EQ`, `AFTER_EQ_QUOTED`). Its callers (`auth_challenge` in challenge
mode, `verify_digest_response` in parameter mode) call it in a loop until it
returns non-zero. The module is that loop as a state machine. Each step is
one call's entry (`Call`) or one iteration of its do-while (`ScanBeforeEq`,
`ScanAfterEq`, `ScanQuoted`, with `Continue` as the `*++pnt` test).

- `buf` is the header value. Its characters are abstracted to
  `{a, =, comma, space, quote}`: one of each class the scanner tells apart.
- `hdr` and `pnt` are indices into `buf`. `key` and `eq` are the start of
  the key and the position of the `=`, standing for the pointers `*key` and
  `*value`.
- `val` and `sep` are the caller's variables. They start as `Uninit` and
  keep their value from one call to the next, as C locals do. That is how a
  call that does not assign `*value` hands back a stale one.
- `toks` is the history of the tokens returned with 0; `ret` is the final
  return value.

The reference is a grammar, built from its parts: names, plain and quoted
values (quoted values may hold commas, spaces and `=`), parameter lists, and
challenge lists of bare schemes and schemes with parameters. `Grammar` pairs
each token list with its rendering (RECURSIVE `ParamLists` and
`ChallLists`). `TokenizeMatchesGrammar` says that tokenizing a rendering
gives back exactly its tokens.

### `MCNeAuth.tla`

This module instantiates `Headers`. It includes every well-formed Digest
challenge over two nonces, stale and qop flags and both algorithms. It adds
one challenge of each malformed kind (missing realm, missing nonce, unknown
algorithm), Basic with and without a realm, an unclaimed scheme ("NTLM", which only an SSPI build knows),
and four two-challenge headers. Those four exercise the strength sort and a
rejected challenge followed by an accepted one.

`MCProxyHeaders` (the proxy run) keeps the MD5 Digest challenges over the
nonces and the stale and qop flags, one Digest with an unknown algorithm,
and Basic. MD5-sess, the malformed challenges and the two-challenge
headers go through the same code in either role, and the server run has
them. What the proxy run adds is the 407 code and the CONNECT-context
fallback to `WWW-Authenticate`.

`MCNegHeaders` (GSSAPI build) holds these headers:

- Negotiate bare, with a token, and with a token that is not base64;
- Negotiate offered beside Digest, and after Basic;
- Digest, Digest with an unknown algorithm, and Basic;
- two Digest challenges of equal strength around an "NTLM algorithm=md5"
  that no handler claims, with a qop list and an ignored parameter.

`MCSspiHeaders` holds NTLM and Negotiate, bare and with a token, and Basic.

## 3. Runs

| Run | cfg | Expect | What it shows |
|-----|-----|--------|---------------|
| `server_digest` | `MCNeAuth.cfg` | pass | Server role over http. Checks `MutualAuthSound`, `MutualAuthComplete` and `NcNeverReused` (below). `TypeOK` of `NeAuth` is checked by the proxy and GSSAPI runs, so this run spends its time on the three Digest properties. |
| `proxy_connect` | `MCNeAuthProxy.cfg` | pass | Proxy role over https (context CONNECT). Checks the same properties over `MCProxyHeaders`. This run also covers requests without an `auth_request` and the 401 fallback. |
| `stale_without_credentials` | `MCNeAuthStale.cfg` | violation | `DigestHeaderHasCredentials`: a first challenge with stale=true yields a Digest header with no realm and a zero H(A1). |
| `forget_then_request` | `MCNeAuthForget.cfg` | violation | `NoNullDereference`: accept Digest, call `ne_forget_auth`, send a request, and `request_digest` calls `strlen(NULL)`. |
| `register_twice` | `MCNeAuthRegister.cfg` | violation | `HandlersAppendOnly`: a second `ne_add_server_auth` replaces the first handler. |
| `stored_rdig_after_stale` | `MCNeAuthRdig.cfg` | violation | `StoredRdigTracksLastRequest`: after a stale challenge without qop, the old `stored_rdig` remains. |
| `negotiate_gssapi` | `MCNeAuthNegotiate.cfg` | pass | GSSAPI build, server over https. Checks `TypeOK`, `ChallengeListMatchesHeader` (every header parses into the list spec 4.2 describes, under every reachable handler chain), `MutualAuthComplete` after Negotiate steps that failed before a Digest challenge, `TokenFromLatestResponse`, and `PipelineRefined`: the hooks refine `AuthPipeline`, so post-send takes the branch spec 4.8 prescribes (a 401 with Authentication-Info and a challenge under Digest is a verification) and counts one attempt per parsed challenge. |
| `negotiate_verify_length` | `MCNeAuthNegVerify.cfg` | violation | `NegotiateVerifyComplete`: a 200 carrying a Negotiate token the provider accepts is a mutual-auth failure when the undefined `strncmp` length exceeds 9. |
| `token_resent_after_cancel` | `MCNeAuthTokenOnce.cfg` | violation | `TokenConsumedOnce`: pre-send sends token 1, the request is destroyed without post-send, and the next request sends token 1 again. |
| `sspi_null_verify` | `MCNeAuthSspi.cfg` | violation | `NoNullDereference`: after an NTLM challenge is accepted, a 200 with a challenge header calls SSPI's NULL verify. |
| `tokenizer_grammar` | `MCTokenizer.cfg` | pass | `TokenizeMatchesGrammar` over every well-formed header up to 9 characters, and `Terminates` (the calling loop ends) over those and every header up to 6 characters. |
| `tokenizer_contract` | `MCTokenizerContract.cfg` | violation | `ReturnedTokensComplete`: in parameter mode, `tokenize` returns 0 for a trailing `a` without `=` and leaves `*value` unset, so `verify_digest_response` reads an uninitialised `val`. |

The properties of the passing runs:

- **`NcNeverReused`** (an action property). No qop=auth header repeats a
  `<nonce, cnonce, nc>` triple. This has to hold across stale challenges,
  which reset `nonce_count`, across `nextnonce`, which does not, and across
  retries. It relies on `digest_challenge` drawing a fresh cnonce every time.
- **`MutualAuthSound`.** `verify_digest_response` returns OK for a qop=auth
  Authentication-Info only if its `rspauth` is the server's digest for the
  request just sent. A replayed `rspauth` from an earlier request, or one
  from a request that carried stale credentials, must be rejected.
- **`MutualAuthComplete`.** An honest server's Authentication-Info for the
  request just sent is accepted, whatever happened before it.
- **`ChallengeListMatchesHeader`.** In every reachable state (so under every
  handler chain registration can build), `auth_challenge`'s parse of each
  configured header equals a declarative reading of spec 4.2
  (`ExpectedList`). In that reading, a claimed scheme word starts a
  challenge, and each key=value pair belongs to the nearest scheme word
  before it. A pair is dropped when that word was not claimed, and the last
  pair of a key wins. The list is sorted by strength, with equal strengths
  in header order (`SetToSortSeq`). The headers include two Digest
  challenges around an unclaimed `NTLM algorithm=md5`, Negotiate after
  Basic, and a qop list.
- **`TokenFromLatestResponse`** (an action property). A Negotiate token a
  request carries was returned by the provider while the latest response was
  handled. It cannot be a token some earlier request already sent. This is
  the spec's rule that the cached token is dropped between every response
  and the following request (4.6, section 3).

Each property of a passing run has a mutant: a plausible bug in the mapped
code that makes TLC report the property violated. They are:

- `digest_challenge` without the unknown-algorithm check breaks `TypeOK`;
- keeping the cnonce on stale breaks `NcNeverReused`;
- `request_digest` not refreshing `stored_rdig` breaks `MutualAuthSound`;
- `verify_digest_response` comparing with `nonce_count + 1` breaks
  `MutualAuthComplete`;
- a post-send whose else-if chain tests for a challenge before
  Authentication-Info (`Branch`) breaks `PipelineRefined`;
- an `insert_challenge` that puts a new challenge before those of equal
  strength breaks `ChallengeListMatchesHeader`;
- a post-send that does not drop the GSSAPI token breaks
  `TokenFromLatestResponse` (the Negotiate run reuses the first and third
  Digest mutants for `TypeOK` and `MutualAuthComplete`);
- a token return that skips one character too many breaks the tokenizer's
  `TypeOK`;
- an `AFTER_EQ` state that ignores quotes breaks `TokenizeMatchesGrammar`;
- a do-while that does not advance `pnt` breaks `Terminates`.

The violation runs are code bugs or divergences from `spec.md`. They are
listed in `PROJECT.json` under `findings`. The passing runs exclude them as
follows:

- `MutualAuthComplete` holds only in states that have not crashed;
- `MaxRegister = 1` in the passing runs, because the overwrite only needs two
  registrations and is shown by `register_twice`.
- `negotiate_gssapi` checks `TokenFromLatestResponse`, which the code
  meets, and not `TokenConsumedOnce` or `NegotiateVerifyComplete`, which it
  does not.

## 4. Bounds

The passing runs use these bounds, each named as a constant:

- one realm, two nonces and one URI;
- `MaxRegister = 1`;
- `MaxAttempt = 2`: two challenges answered per request;
- `MaxNc = 2`: nonce-counts per nonce;
- `MaxCnonce = 2`: fresh cnonces.

They cover the combinations the properties are about:

- Two nonces let a `nextnonce` or a stale challenge change the nonce.
- Two cnonces let a second challenge issue a cnonce different from the first.
- Two nonce-counts let a second request follow the first on one nonce.
- Two attempts allow a challenge, a stale re-challenge and a retry within
  one request.

The history of requests is unbounded: a new request may be created after every
destroy. The state space is finite because the counters above are bounded.
Each mutant needs at most two requests and two challenges to show its
violation.

The Negotiate run uses one nonce, `MaxNc = 1` and `MaxCnonce = 1`: enough
for one Digest exchange beside Negotiate. It also uses `MaxAttempt = 2`, so
an initial challenge and one continuation fit in a request, and
`MaxToken = 3`: an initial token, a continuation token and a final token
from a 2xx. All three violation runs of the Negotiate family find their
counterexample within 9 states.

The tokenizer run takes every string of up to `MaxLen = 6` characters over
the five classes (19531 strings), both modes, and every rendering of the
grammar of up to `GrammarLen = 9` characters. The grammar covers two
parameters with a comma or comma-space delimiter, a quoted value holding a
comma, and two challenges with and without parameters. Every branch of the
scanner is taken within six characters; nine are needed for a challenge
followed by a parameter list.

## 5. Fairness

`NeAuth` assumes none. Every step of a session is made by the caller
(request hooks, API calls) or by the server, and the code promises nothing
about either.

`Tokenizer` assumes weak fairness of the scanner's own steps (`Call` and the
three scan actions). They are the iterations of a loop that one thread runs
to the end with nothing to wait for, so once a step is enabled it stays
enabled until it is taken. `Terminates` (the loop reaches `done`) is checked
under that assumption. Without fairness the loop could stutter forever,
which the code cannot do.

## 6. Not modelled, and why

- **Character-level header text in `NeAuth`.** `NeAuth` parses token lists.
  `Tokenizer.tla` checks the text-to-token step on its own. Composing the two
  would multiply the session model by every header string. Case folding and
  quote stripping are not modelled: keys and values are given in lower case
  without quotes.
- **Tokenizer characters** other than the five classes. `\r`, `\n` and
  `\t` behave like the space in `strchr(" \r\n\t", ...)`.
- **The security providers themselves** (GSSAPI, `ne_sspi.c`). Each step is
  an arbitrary outcome. `ne_sspi_clear_context` changes only the provider's
  own state, which the model does not hold. The error-message formatting
  (`make_gss_error`) is text. `get_gss_name` runs at registration and can only
  fail into `GSS_C_NO_NAME`, which the provider's outcome already covers.
- **Unbounded Negotiate continuation** (501). Retries are bounded by
  `MaxAttempt`; the real bound is the caller's retry limit in `ne_request.c`.
- **Memory ownership** (leaks on the stale path), **`opaque`** and the
  algorithm string in the header. No property reads them.
- **The wrap of `nonce_count` at 2^32.** TLC cannot reach it. It is listed as
  a hazard.
- **A `qop` other than `auth` in Authentication-Info** (line 858). The code
  reads it as no qop and accepts the header unverified, where spec 4.5
  accepts silently only when qop is absent. The model's values carry
  `qop=auth` or none. It is listed as a hazard.
- **cnonce collisions in the fallback build** (line 299, no OpenSSL and no
  `gettimeofday`). `get_cnonce` is a fresh value on every call. It is listed
  as a hazard.
- **Overlapping request lifetimes.** A second request may be created while
  another is open. `ah_create` only allocates its `auth_request`, and the
  transport dispatches requests one at a time, so `Create` waits for
  `req = NULL`. A request abandoned between pre-send and post-send is
  `Destroy`.
- **The GSSAPI name handle** that `get_gss_name` imports at registration and
  `free_auth` releases. It only reaches the provider, whose outcomes are free.

## 7. Plan for the next steps

1. The project has 12 runs. A new question has to go into an existing
   configuration or replace a run. The server run is the heaviest (about
   150 s without coverage); the proxy run takes about 90 s with its own
   header set.
2. `NeAuthPair.tla`: compose a proxy session and a server session on the
   same request. They share the hooks order and `ne_forget_auth` clears both.
3. `AuthExchange.tla`: an abstract specification of the credential
   side of the exchange (authenticate, verify, forget). It would sit beside
   `AuthPipeline`, which covers only the hook order. Its `Clear` would have
   to drop the selection, which the code does not do (`forget_then_request`).
