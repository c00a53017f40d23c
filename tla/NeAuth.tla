------------------------------- MODULE NeAuth -------------------------------
(***************************************************************************)
(* One authentication session of src/src/ne_auth.c (the server role, or   *)
(* the proxy role when IsProxy) as driven by the request hooks of one HTTP *)
(* session: registration of handlers, ah_create / ah_pre_send /            *)
(* ah_post_send / ah_destroy for a sequence of requests, the challenge     *)
(* parser's claim-and-sort step, the Basic and Digest acceptors,           *)
(* request_digest and verify_digest_response, and ne_forget_auth; with    *)
(* Provider "GSSAPI" or "SSPI" also the Negotiate (and NTLM) protocols of  *)
(* that build: continue_negotiate, request_negotiate, sspi_challenge,      *)
(* request_sspi and the second branch of ah_post_send.                     *)
(*                                                                         *)
(* Data is abstracted to what the properties tell apart: an MD5 digest is  *)
(* the record of what it hashes (collision free), a credential is the      *)
(* handler and realm that supplied it, a cnonce or an output token of the *)
(* security provider is a fresh number; the provider's step is a          *)
(* nondeterministic outcome.                                               *)
(* The server is the environment: post-send chooses any response from     *)
(* the configured challenge headers and Authentication-Info values, the   *)
(* latter built from what the client actually sent (an honest digest, a   *)
(* replay of one seen earlier, or a wrong value).                          *)
(***************************************************************************)
EXTENDS Integers, Sequences, SequencesExt, FiniteSets

CONSTANTS
    NULL,          \* a NULL pointer
    IsProxy,       \* TRUE: ah_proxy_class (407), FALSE: ah_server_class (401)
    Https,         \* ne_get_scheme(sess) is "https"
    Realms,        \* realm values a challenge may carry
    Nonces,        \* nonce values a challenge or nextnonce may carry
    Uris,          \* request-URIs
    Headers,       \* challenge headers: the token lists tokenize returns
    MaxRegister,   \* bound on ne_{set,add}_{server,proxy}_auth calls
    MaxAttempt,    \* bound on areq->attempt (challenges answered per request)
    MaxNc,         \* bound on sess->nonce_count
    MaxCnonce,     \* bound on get_cnonce() calls
    Provider,      \* the build: "none", "GSSAPI" (HAVE_GSSAPI) or "SSPI"
    MaxToken       \* bound on output tokens the security provider returns

ASSUME IsProxy \in BOOLEAN /\ Https \in BOOLEAN
ASSUME /\ MaxRegister \in Nat \ {0} /\ MaxAttempt \in Nat
       /\ MaxNc \in Nat /\ MaxCnonce \in Nat
       /\ Provider \in {"none", "GSSAPI", "SSPI"} /\ MaxToken \in Nat

VARIABLES
    handlers,    \* ahs->handlers: sequence of [id, mask]
    nreg,        \* registrations so far (gives each handler its identity)
    sess,        \* the auth_session fields the protocols read and write
    cnonces,     \* get_cnonce() calls so far: the last cnonce issued
    req,         \* the current request's auth_request, or NULL
    crashed,     \* a NULL pointer was dereferenced: the process is gone
    used,        \* history: <<nonce, cnonce, nc>> of every qop=auth header
    replay,      \* history: the last honest rspauth the server sent, or NULL
    lastVerify,  \* history: the last call of verify_digest_response
    tokens,      \* output tokens the provider returned so far: the last one
    toksent,     \* history: the output tokens sent in a request header
    respMark,    \* history: tokens when the last response reached post-send
    lastNeg,     \* history: the last call of verify_negotiate_response
    due          \* history: the post-send branch spec 4.8 prescribes for the
                 \* current request's last response, or NULL

negVars == <<tokens, toksent, respMark, lastNeg>>
vars == <<handlers, nreg, sess, cnonces, req, crashed, used, replay, lastVerify,
          tokens, toksent, respMark, lastNeg, due>>

-----------------------------------------------------------------------------
(* The static tables: protocols[] and the auth_class of this role.         *)

\* The entries of protocols[] this build compiles in: Negotiate under
\* HAVE_GSSAPI; NTLM and Negotiate, both over SSPI, under HAVE_SSPI.
NegSchemes == CASE Provider = "GSSAPI" -> {"Negotiate"}
                [] Provider = "SSPI"   -> {"NTLM", "Negotiate"}
                [] OTHER               -> {}
Schemes == {"Basic", "Digest"} \cup NegSchemes
\* The NE_AUTH_* id of each entry; NTLM and Negotiate share NEGOTIATE.
Id == [s \in Schemes |-> CASE s = "Basic"  -> "BASIC"
                          [] s = "Digest" -> "DIGEST"
                          [] OTHER        -> "NEGOTIATE"]
ProtoIds == {Id[s] : s \in Schemes}
\* The NE_AUTH_* bits a protomask may hold, compiled in or not.
AuthIds == {"BASIC", "DIGEST", "NEGOTIATE"}
Strength == [s \in Schemes |-> CASE s = "Basic"  -> 10
                                [] s = "Digest" -> 20
                                [] OTHER        -> 30]
\* The verify function: Digest's, GSSAPI Negotiate's; SSPI's entries have NULL.
HasVerify == [s \in Schemes |-> s = "Digest" \/ (s = "Negotiate" /\ Provider = "GSSAPI")]
\* AUTH_FLAG_* of each protocol: only the Negotiate family sets any.
ProtoFlags == [s \in Schemes |-> IF s \in NegSchemes
                                 THEN {"OPAQUE_PARAM", "VERIFY_NON40x"} ELSE {}]

StatusCode == IF IsProxy THEN 407 ELSE 401
FailCode == IF IsProxy THEN "PROXYAUTH" ELSE "AUTH"

\* auth_register: the context chosen when the session is first created.
Context == IF Https THEN (IF IsProxy THEN "CONNECT" ELSE "NOTCONNECT")
                    ELSE "ANY"

\* auth_register_default: the default protomask.  A bit no compiled
\* protocols[] entry carries matches nothing in auth_challenge; it is left
\* out so that equal behaviours are equal states.
DefaultMask == ({"BASIC", "DIGEST"} \cup (IF Https \/ IsProxy THEN {"NEGOTIATE"} ELSE {}))
               \cap ProtoIds

Methods == {"GET", "CONNECT"}
\* Authentication-Info field values that are present but wrong: a cnonce
\* never issued, an nc no request used, an nc sscanf cannot parse, and a
\* digest over nothing the client sent.
WrongCnonce == 0
WrongNc == MaxNc + 1
GarbageNc == -1
WrongRsp == [pre |-> NULL, qop |-> "auth", a2 |-> <<>>]
\* A Negotiate token field ne_unbase64 decodes to nothing (not base64).
BadBase64 == "!"
\* The separator tokenize reports for a word that ends the header.
EndSep == "\\0"

\* The word after an OPAQUE_PARAM scheme word and a space is a single word
\* that ends the header or is followed by ',' (what ne_token takes).
ASSUME \A h \in Headers : \A i \in 1..Len(h) - 1 :
          h[i].value = NULL /\ h[i].sep = " " /\ h[i].key \in NegSchemes
             => h[i + 1].value = NULL /\ h[i + 1].sep \in {",", EndSep}

\* The outcomes of one provider step.  GSSAPI: gss_init_sec_context's major
\* status (OTHER: neither an error nor CONTINUE_NEEDED nor COMPLETE) and
\* whether it returned an output token.  SSPI: ne_sspi_create_context
\* failing (only called without a context), ne_sspi_authenticate failing,
\* or a response token.
GssOutcomes == {[major |-> m, output |-> o] :
                   m \in {"CONTINUE", "COMPLETE", "OTHER"}, o \in BOOLEAN}
               \cup {[major |-> "ERROR", output |-> FALSE]}
SspiOutcomes == {"CREATE_FAIL", "AUTH_FAIL", "OK"}
\* The inputs an acceptor takes beside the challenge: the credential
\* callback's verdict, or the provider's outcome.
Verdicts(scheme) == CASE scheme \in {"Basic", "Digest"} -> BOOLEAN
                      [] Provider = "GSSAPI"          -> GssOutcomes
                      [] OTHER                        -> SspiOutcomes
\* One input for each challenge of a list, in list order.
RECURSIVE VerdictSeqs(_)
VerdictSeqs(list) ==
    IF list = <<>> THEN {<<>>}
    ELSE {<<v>> \o rest : v \in Verdicts(Head(list).scheme),
                          rest \in VerdictSeqs(Tail(list))}

-----------------------------------------------------------------------------
(* Digest values: each MD5 is the record of its input.                     *)

\* The credential the callback writes: the user of handler h for realm r.
Cred(h, r) == [hdl |-> h, realm |-> r]

\* H(A1), and its MD5-sess form over nonce and cnonce.
HA1(cred, alg, nonce, cnonce) ==
    IF alg = "md5-sess" THEN [cred |-> cred, nonce |-> nonce, cnonce |-> cnonce]
                        ELSE [cred |-> cred, nonce |-> NULL, cnonce |-> NULL]

\* sess->h_a1 before any H(A1) was computed: the zeroed calloc memory.
ZeroHA1 == [cred |-> NULL, nonce |-> NULL, cnonce |-> NULL]

\* The request-digest prefix H(A1):nonce:[nc:cnonce:] kept in stored_rdig.
Prefix(ha1, nonce, nc, cnonce) ==
    [ha1 |-> ha1, nonce |-> nonce, nc |-> nc, cnonce |-> cnonce]

\* The response-digest a server computes for a qop=auth header h.
ServerRsp(h) == [pre |-> h.pre, qop |-> "auth", a2 |-> <<"", h.uri>>]

\* get_cnonce: a fresh client nonce (the MD5 of random or clock/pid data).
get_cnonce == cnonces + 1

-----------------------------------------------------------------------------
(* clean_session: frees basic, nonce, cnonce, opaque, realm, stored_rdig,  *)
(* and the GSSAPI context and token or the SSPI token and context.  It     *)
(* leaves protocol, h_a1, nonce_count, qop and alg as they are.            *)
clean_session(s) ==
    [s EXCEPT !.basic = NULL, !.nonce = NULL, !.cnonce = NULL,
              !.realm = NULL, !.stored_rdig = NULL,
              !.gssctx = NULL, !.gsstoken = NULL,
              !.sspitoken = NULL, !.sspictx = NULL]

\* basic_challenge: ok is the credential callback's verdict.
basic_challenge(s, c, ok) ==
    IF c.realm = NULL THEN [ok |-> FALSE, s |-> s]
    ELSE LET s1 == [clean_session(s) EXCEPT !.realm = c.realm]
         IN IF ~ok THEN [ok |-> FALSE, s |-> s1]
            ELSE [ok |-> TRUE, s |-> [s1 EXCEPT !.basic = Cred(c.handler, c.realm)]]

(* Fault variants of digest_challenge, for mutation testing of the        *)
(* properties: one without the unknown-algorithm check, one that keeps the *)
(* old cnonce when the challenge is stale.                                 *)
digest_challenge_no_alg_check(s, c, ok, cn) ==
    IF \/ c.alg = "md5-sess" /\ ~c.qop
       \/ c.realm = NULL \/ c.nonce = NULL
    THEN [ok |-> FALSE, s |-> s]
    ELSE LET s1 == IF c.stale THEN s
                   ELSE [clean_session(s) EXCEPT !.realm = c.realm]
             s2 == [s1 EXCEPT !.alg = c.alg, !.nonce = c.nonce, !.cnonce = cn,
                              !.nonce_count = IF c.qop THEN 0 ELSE @,
                              !.qop = IF c.qop THEN "auth" ELSE "none"]
         IN IF ~c.stale /\ ~ok THEN [ok |-> FALSE, s |-> s1]
            ELSE IF c.stale THEN [ok |-> TRUE, s |-> s2]
            ELSE [ok |-> TRUE,
                  s |-> [s2 EXCEPT !.h_a1 =
                           HA1(Cred(c.handler, c.realm), c.alg, c.nonce, cn)]]

digest_challenge_stale_keeps_cnonce(s, c, ok, cn) ==
    IF \/ c.alg = "unknown"
       \/ c.alg = "md5-sess" /\ ~c.qop
       \/ c.realm = NULL \/ c.nonce = NULL
    THEN [ok |-> FALSE, s |-> s]
    ELSE LET s1 == IF c.stale THEN s
                   ELSE [clean_session(s) EXCEPT !.realm = c.realm]
             s2 == [s1 EXCEPT !.alg = c.alg, !.nonce = c.nonce,
                              !.cnonce = IF c.stale THEN @ ELSE cn,
                              !.nonce_count = IF c.qop THEN 0 ELSE @,
                              !.qop = IF c.qop THEN "auth" ELSE "none"]
         IN IF ~c.stale /\ ~ok THEN [ok |-> FALSE, s |-> s1]
            ELSE IF c.stale THEN [ok |-> TRUE, s |-> s2]
            ELSE [ok |-> TRUE,
                  s |-> [s2 EXCEPT !.h_a1 =
                           HA1(Cred(c.handler, c.realm), c.alg, c.nonce, cn)]]

\* digest_challenge: cn is the value get_cnonce() returns.
digest_challenge(s, c, ok, cn) ==
    IF \/ c.alg = "unknown"
       \/ c.alg = "md5-sess" /\ ~c.qop
       \/ c.realm = NULL \/ c.nonce = NULL
    THEN [ok |-> FALSE, s |-> s]
    ELSE LET s1 == IF c.stale THEN s
                   ELSE [clean_session(s) EXCEPT !.realm = c.realm]
             s2 == [s1 EXCEPT !.alg = c.alg, !.nonce = c.nonce, !.cnonce = cn,
                              !.nonce_count = IF c.qop THEN 0 ELSE @,
                              !.qop = IF c.qop THEN "auth" ELSE "none"]
         IN IF ~c.stale /\ ~ok THEN [ok |-> FALSE, s |-> s1]
            ELSE IF c.stale THEN [ok |-> TRUE, s |-> s2]
            ELSE [ok |-> TRUE,
                  s |-> [s2 EXCEPT !.h_a1 =
                           HA1(Cred(c.handler, c.realm), c.alg, c.nonce, cn)]]

(* continue_negotiate: a token that does not decode fails before the     *)
(* provider is called; without a token an incomplete context is reset.     *)
(* The context survives only CONTINUE_NEEDED; an output token, even of a   *)
(* failed step, replaces the cached one.  tok is the fresh output token.   *)
continue_negotiate(s, token, g, tok) ==
    IF token = BadBase64 THEN [ok |-> FALSE, s |-> s]
    ELSE LET s1 == IF token = NULL THEN [s EXCEPT !.gssctx = NULL] ELSE s
         IN IF g.major = "ERROR" THEN [ok |-> FALSE, s |-> s1]
            ELSE [ok |-> g.major \in {"CONTINUE", "COMPLETE"},
                  s |-> [s1 EXCEPT
                           !.gssctx = IF g.major = "CONTINUE" THEN "open" ELSE NULL,
                           !.gsstoken = IF g.output THEN tok ELSE @]]

\* negotiate_challenge: an initial challenge, or a continuation with a token.
negotiate_challenge(s, attempt, c, g, tok) ==
    IF attempt = 0 \/ c.opaque # NULL THEN continue_negotiate(s, c.opaque, g, tok)
    ELSE [ok |-> FALSE, s |-> s]

\* sspi_challenge: create the context if there is none, then authenticate;
\* the response replaces sspi_token.
sspi_challenge(s, c, g, tok) ==
    IF s.sspictx = NULL /\ g = "CREATE_FAIL" THEN [ok |-> FALSE, s |-> s]
    ELSE LET s1 == [s EXCEPT !.sspictx = "open"]
         IN IF g = "AUTH_FAIL" THEN [ok |-> FALSE, s |-> s1]
            ELSE [ok |-> TRUE, s |-> [s1 EXCEPT !.sspitoken = tok]]

\* The acceptor of the challenge's protocol entry (proto->challenge).
Accept(s, attempt, c, ok, cn, tok) ==
    CASE c.scheme = "Basic"  -> basic_challenge(s, c, ok)
      [] c.scheme = "Digest" -> digest_challenge(s, c, ok, cn)
      [] Provider = "GSSAPI" -> negotiate_challenge(s, attempt, c, ok, tok)
      [] OTHER               -> sspi_challenge(s, c, ok, tok)

(* auth_challenge, parsing half.  The header arrives as the tokens that   *)
(* tokenize returns in challenge mode (module Tokenizer): a scheme word    *)
(* has value NULL and the separator that ended it, a parameter has its    *)
(* key and its value with the quotes stripped (keys and values are in    *)
(* lower case, so ne_strcasecmp is equality).  A scheme word is claimed   *)
(* by the first handler whose protomask admits it; chall, where the next  *)
(* parameters go, is the challenge just inserted, or NULL (0) after a     *)
(* word nobody claims.  A challenge is named by the position of its       *)
(* scheme word (it stands for the node ne_calloc returned).  The parse    *)
(* reads the handlers only through claim: the id of the handler that      *)
(* claims each scheme, 0 for none.                                        *)
Claimant(name) == SelectInSeq(handlers, LAMBDA h : Id[name] \in h.mask)
Claims == [name \in Schemes |-> IF Claimant(name) = 0 THEN 0
                                ELSE handlers[Claimant(name)].id]
IsClaimed(claim, name) == name \in Schemes /\ claim[name] # 0

\* ne_calloc: every field zero; alg 0 is auth_alg_md5.
NewChall(claim, name, at) ==
    [scheme |-> name, realm |-> NULL, nonce |-> NULL, stale |-> FALSE,
     qop |-> FALSE, alg |-> "md5", opaque |-> NULL,
     handler |-> claim[name], at |-> at]

\* Fault variant: a new challenge goes before those of equal strength.
RECURSIVE insert_challenge_before_equal(_, _)
insert_challenge_before_equal(list, c) ==
    IF list = <<>> \/ Strength[c.scheme] >= Strength[Head(list).scheme]
    THEN <<c>> \o list
    ELSE <<Head(list)>> \o insert_challenge_before_equal(Tail(list), c)

\* insert_challenge: sorted by strength, a new one after equal strengths.
RECURSIVE insert_challenge(_, _)
insert_challenge(list, c) ==
    IF list = <<>> \/ Strength[c.scheme] > Strength[Head(list).scheme]
    THEN <<c>> \o list
    ELSE <<Head(list)>> \o insert_challenge(Tail(list), c)

\* The comma-separated tokens of a qop value, for the values headers use.
QopTokens(v) == CASE v = "auth"          -> {"auth"}
                  [] v = "auth-int"      -> {"auth-int"}
                  [] v = "auth-int,auth" -> {"auth-int", "auth"}
                  [] OTHER               -> {}

\* The key=value branch on one challenge; other keys are ignored.
SetParam(c, k, v) ==
    CASE k = "realm"     -> [c EXCEPT !.realm = v]
      [] k = "nonce"     -> [c EXCEPT !.nonce = v]
      [] k = "opaque"    -> [c EXCEPT !.opaque = v]
      [] k = "stale"     -> [c EXCEPT !.stale = (v = "true")]
      [] k = "algorithm" -> [c EXCEPT !.alg = IF v \in {"md5", "md5-sess"}
                                              THEN v ELSE "unknown"]
      [] k = "qop"       -> [c EXCEPT !.qop = @ \/ "auth" \in QopTokens(v)]
      [] OTHER           -> c

\* Write one parameter through the pointer chall (the challenge at `at`).
WriteTo(list, at, k, v) ==
    [j \in DOMAIN list |-> IF list[j].at = at THEN SetParam(list[j], k, v)
                           ELSE list[j]]

(* The OPAQUE_PARAM path: ne_token takes the text up to the next ',' as   *)
(* the token (a single word in these headers; "" at the end of the        *)
(* header, which ne_unbase64 decodes to nothing), and parsing stops when  *)
(* no ',' follows it.                                                      *)
TakesToken(claim, hdr, i) ==
    /\ hdr[i].value = NULL /\ hdr[i].sep = " " /\ IsClaimed(claim, hdr[i].key)
    /\ "OPAQUE_PARAM" \in ProtoFlags[hdr[i].key]
OpaqueWord(hdr, i) == IF i < Len(hdr) THEN hdr[i + 1].key ELSE BadBase64
OpaqueEnds(hdr, i) == i = Len(hdr) \/ hdr[i + 1].sep # ","

\* The while (!tokenize(...)) loop of auth_challenge from token i.
RECURSIVE ParseFrom(_, _, _, _, _)
ParseFrom(claim, hdr, i, list, chall) ==
    IF i > Len(hdr) THEN list
    ELSE LET t == hdr[i]
             new == insert_challenge(list, NewChall(claim, t.key, i))
         IN CASE t.value = NULL /\ ~IsClaimed(claim, t.key) ->
                   ParseFrom(claim, hdr, i + 1, list, 0)
              [] TakesToken(claim, hdr, i) ->
                   LET l2 == WriteTo(new, i, "opaque", OpaqueWord(hdr, i))
                   IN IF OpaqueEnds(hdr, i) THEN l2 ELSE ParseFrom(claim, hdr, i + 2, l2, i)
              [] t.value = NULL ->
                   ParseFrom(claim, hdr, i + 1, new, i)
              [] chall = 0 ->
                   ParseFrom(claim, hdr, i + 1, list, 0)
              [] OTHER ->
                   ParseFrom(claim, hdr, i + 1, WriteTo(list, chall, t.key, t.value), chall)

ParseChallenges(hdr) == ParseFrom(Claims, hdr, 1, <<>>, 0)

(* auth_challenge, accepting half: try each challenge in order until one   *)
(* acceptor succeeds; the side effects of the ones that fail remain.      *)
RECURSIVE TryChallenges(_, _, _, _, _, _, _)
TryChallenges(s, attempt, list, i, okf, cn, tok) ==
    IF i > Len(list) THEN [s |-> s, proto |-> NULL]
    ELSE LET r == Accept(s, attempt, list[i], okf[i], cn, tok)
         IN IF r.ok THEN [s |-> r.s, proto |-> list[i].scheme]
            ELSE TryChallenges(r.s, attempt, list, i + 1, okf, cn, tok)

auth_challenge(s, attempt, list, okf, cn, tok) ==
    LET r == TryChallenges([s EXCEPT !.protocol = NULL], attempt, list, 1, okf, cn, tok)
    IN [r.s EXCEPT !.protocol = r.proto]

-----------------------------------------------------------------------------
(* request_basic and request_digest: the header value and the new session. *)
(* A NULL argument ends ne_concat / ne_buffer_concat: with realm NULL the  *)
(* Digest header stops after 'realm="' and with basic NULL the Basic one   *)
(* is "Basic " alone (complete = FALSE).                                   *)
request_basic(s, r) ==
    [s |-> s, hdr |-> [scheme |-> "Basic", complete |-> s.basic # NULL,
                       cred |-> s.basic, pre |-> NULL, nc |-> NULL,
                       cnonce |-> NULL, uri |-> r.uri, token |-> NULL]]

\* Fault variant: the stored_rdig snapshot is only taken when none is held.
request_digest_keeps_old_snapshot(s, r) ==
    LET qop == s.qop # "none"
        nc == IF qop THEN s.nonce_count + 1 ELSE s.nonce_count
        pre == IF qop THEN Prefix(s.h_a1, s.nonce, nc, s.cnonce)
                      ELSE Prefix(s.h_a1, s.nonce, NULL, NULL)
    IN [s |-> [s EXCEPT !.nonce_count = nc,
                        !.stored_rdig = IF qop /\ @ = NULL THEN pre ELSE @],
        hdr |-> [scheme |-> "Digest", complete |-> s.realm # NULL,
                 cred |-> s.h_a1.cred, pre |-> pre,
                 nc |-> IF qop THEN nc ELSE NULL,
                 cnonce |-> IF qop THEN s.cnonce ELSE NULL, uri |-> r.uri,
                 token |-> NULL]]

request_digest(s, r) ==
    LET qop == s.qop # "none"
        nc == IF qop THEN s.nonce_count + 1 ELSE s.nonce_count
        pre == IF qop THEN Prefix(s.h_a1, s.nonce, nc, s.cnonce)
                      ELSE Prefix(s.h_a1, s.nonce, NULL, NULL)
    IN [s |-> [s EXCEPT !.nonce_count = nc,
                        !.stored_rdig = IF qop THEN pre ELSE @],
        hdr |-> [scheme |-> "Digest", complete |-> s.realm # NULL,
                 cred |-> s.h_a1.cred, pre |-> pre,
                 nc |-> IF qop THEN nc ELSE NULL,
                 cnonce |-> IF qop THEN s.cnonce ELSE NULL, uri |-> r.uri,
                 token |-> NULL]]

\* request_negotiate: "Negotiate <token>" if a token is cached, else no header.
request_negotiate(s, r) ==
    [scheme |-> "Negotiate", complete |-> TRUE, cred |-> NULL, pre |-> NULL,
     nc |-> NULL, cnonce |-> NULL, uri |-> r.uri, token |-> s.gsstoken]

\* request_sspi: "<name> <sspi_token>" always; a NULL token ends ne_concat.
request_sspi(s, r) ==
    [scheme |-> s.protocol, complete |-> s.sspitoken # NULL, cred |-> NULL,
     pre |-> NULL, nc |-> NULL, cnonce |-> NULL, uri |-> r.uri,
     token |-> s.sspitoken]

\* request_digest passes sess->nonce, and with qop sess->cnonce, to strlen.
DigestDerefsNull(s) == s.nonce = NULL \/ (s.qop # "none" /\ s.cnonce = NULL)

(* verify_digest_response: ncEq is the outcome of comparing the nc field  *)
(* with sess->nonce_count when sscanf could not parse it and the local     *)
(* nonce_count is read uninitialised.  Returns the status, the new        *)
(* session and whether a NULL pointer was dereferenced.                   *)
\* Fault variant: the nc field is compared with the next nonce-count.
verify_digest_response_nc_off_by_one(s, r, info, ncEq) ==
    LET s1 == IF info.nextnonce # NULL THEN [s EXCEPT !.nonce = info.nextnonce]
              ELSE s
        rdig == [pre |-> s.stored_rdig, qop |-> "auth", a2 |-> <<"", r.uri>>]
        ncOk == IF info.nc = GarbageNc THEN ncEq ELSE info.nc = s.nonce_count + 1
    IN IF info.qop = NULL THEN [ret |-> "OK", s |-> s1, fault |-> FALSE]
       ELSE IF info.rspauth = NULL \/ info.cnonce = NULL \/ info.nc = NULL
       THEN [ret |-> "ERROR", s |-> s1, fault |-> FALSE]
       ELSE IF s.cnonce = NULL          \* strcmp(cnonce, sess->cnonce)
       THEN [ret |-> "ERROR", s |-> s1, fault |-> TRUE]
       ELSE IF info.cnonce # s.cnonce \/ ~ncOk
       THEN [ret |-> "ERROR", s |-> s1, fault |-> FALSE]
       ELSE IF s.stored_rdig = NULL     \* ne_md5_process_bytes(.., NULL)
       THEN [ret |-> "ERROR", s |-> s1, fault |-> TRUE]
       ELSE [ret |-> IF rdig = info.rspauth THEN "OK" ELSE "ERROR",
             s |-> [s1 EXCEPT !.stored_rdig = NULL], fault |-> FALSE]

verify_digest_response(s, r, info, ncEq) ==
    LET s1 == IF info.nextnonce # NULL THEN [s EXCEPT !.nonce = info.nextnonce]
              ELSE s
        rdig == [pre |-> s.stored_rdig, qop |-> "auth", a2 |-> <<"", r.uri>>]
        ncOk == IF info.nc = GarbageNc THEN ncEq ELSE info.nc = s.nonce_count
    IN IF info.qop = NULL THEN [ret |-> "OK", s |-> s1, fault |-> FALSE]
       ELSE IF info.rspauth = NULL \/ info.cnonce = NULL \/ info.nc = NULL
       THEN [ret |-> "ERROR", s |-> s1, fault |-> FALSE]
       ELSE IF s.cnonce = NULL          \* strcmp(cnonce, sess->cnonce)
       THEN [ret |-> "ERROR", s |-> s1, fault |-> TRUE]
       ELSE IF info.cnonce # s.cnonce \/ ~ncOk
       THEN [ret |-> "ERROR", s |-> s1, fault |-> FALSE]
       ELSE IF s.stored_rdig = NULL     \* ne_md5_process_bytes(.., NULL)
       THEN [ret |-> "ERROR", s |-> s1, fault |-> TRUE]
       ELSE [ret |-> IF rdig = info.rspauth THEN "OK" ELSE "ERROR",
             s |-> [s1 EXCEPT !.stored_rdig = NULL], fault |-> FALSE]

(* verify_negotiate_response over a challenge header hdr.  ptr is found   *)
(* in the copy duphdr but the length passed to strncmp is ptr - hdr: the  *)
(* difference of pointers into two allocations, undefined, so cmpEq is    *)
(* any outcome, except that the bare "Negotiate" equals "Negotiate" over  *)
(* any length.  Without a space ptr is NULL and ptr++ then strlen(ptr)    *)
(* faults; with nothing after the space the response is accepted.  The   *)
(* token is the text after the first space up to ',' or ' ': the word    *)
(* after a Negotiate scheme word, otherwise text that is not base64.  A   *)
(* header of several tokens is written with a space after its first word. *)
HasSpace(hdr) == Len(hdr) > 1 \/ hdr[1].sep = " "
NothingAfterSpace(hdr) == Len(hdr) = 1 /\ hdr[1].sep = " "
BareNegotiate(hdr) == hdr[1].key = "Negotiate" /\ ~HasSpace(hdr)
VerifyToken(hdr) ==
    IF Len(hdr) > 1 /\ hdr[1].key = "Negotiate" /\ hdr[1].sep = " "
       /\ hdr[2].value = NULL
    THEN hdr[2].key ELSE BadBase64

verify_negotiate_response(s, hdr, cmpEq, g, tok) ==
    IF ~cmpEq THEN [ret |-> "ERROR", s |-> s, fault |-> FALSE]
    ELSE IF ~HasSpace(hdr) THEN [ret |-> "ERROR", s |-> s, fault |-> TRUE]
    ELSE IF NothingAfterSpace(hdr) THEN [ret |-> "OK", s |-> s, fault |-> FALSE]
    ELSE LET r == continue_negotiate(s, VerifyToken(hdr), g, tok)
         IN [ret |-> IF r.ok THEN "OK" ELSE "ERROR", s |-> r.s, fault |-> FALSE]

-----------------------------------------------------------------------------
(* The environment: the responses a server or proxy may send to the       *)
(* current request.  Authentication-Info values are built from what the    *)
(* request carried: an attacker can echo its cnonce and nc and replay any  *)
(* rspauth seen before, but cannot compute a digest without H(A1).        *)
Sent == req.sent
SentQop == Sent # NULL /\ Sent.scheme = "Digest" /\ Sent.nc # NULL

CnonceVals == {NULL, WrongCnonce} \cup (IF SentQop THEN {Sent.cnonce} ELSE {})
NcVals == {NULL, WrongNc, GarbageNc} \cup (IF SentQop THEN {Sent.nc} ELSE {})
RspVals == {NULL, WrongRsp, replay}
           \cup (IF SentQop /\ Sent.complete THEN {ServerRsp(Sent)} ELSE {})

\* RFC 2069 style: no qop, at most a nextnonce.
Infos2069 ==
    {[qop |-> NULL, rspauth |-> NULL, cnonce |-> NULL, nc |-> NULL,
      nextnonce |-> n] : n \in {NULL} \cup Nonces}

(* qop=auth values: the echo of the request (NULL where it carried none)  *)
(* with at most one of rspauth, cnonce and nc replaced.                    *)
(* verify_digest_response tests missing, cnonce, nc and rspauth in turn   *)
(* and stops at the first that fails, so a value wrong in several fields  *)
(* takes the path of its first wrong one.                                 *)
Echo == [rspauth |-> IF SentQop /\ Sent.complete THEN ServerRsp(Sent) ELSE NULL,
         cnonce |-> IF SentQop THEN Sent.cnonce ELSE NULL,
         nc |-> IF SentQop THEN Sent.nc ELSE NULL]
QopInfo(x, c, k, n) ==
    [qop |-> "auth", rspauth |-> x, cnonce |-> c, nc |-> k, nextnonce |-> n]

Infos ==
    Infos2069
    \cup
    UNION {{QopInfo(x, Echo.cnonce, Echo.nc, n) : x \in RspVals}
           \cup {QopInfo(Echo.rspauth, c, Echo.nc, n) : c \in CnonceVals}
           \cup {QopInfo(Echo.rspauth, Echo.cnonce, k, n) : k \in NcVals} :
              n \in {NULL} \cup Nonces}

Statuses == {200, 401, 407}

\* Responses: hdr is this role's challenge header (WWW- or Proxy-
\* Authenticate), www the WWW-Authenticate header a proxy may misuse, info
\* this role's Authentication-Info header.
\* A status under which some branch of ah_post_send reads the challenge
\* header: our code, a 401 to a CONNECT context, and a 2xx once a protocol
\* with flags (the Negotiate family) may be selected.  Under any other
\* status a header acts as no header, and is left out.
ReadsHdr(st) == \/ st = StatusCode
                \/ st = 401 /\ Context = "CONNECT"
                \/ st = 200 /\ NegSchemes # {}

\* The responses that do not depend on the request (computed once).
HeaderResponses ==
    {[status |-> st, hdr |-> NULL, www |-> NULL, info |-> NULL] : st \in Statuses}
    \cup
    {[status |-> st, hdr |-> h, www |-> NULL, info |-> NULL] :
        st \in {x \in Statuses : ReadsHdr(x)}, h \in Headers}
    \cup
    {[status |-> 401, hdr |-> NULL, www |-> h, info |-> NULL] :
        h \in IF IsProxy THEN Headers ELSE {}}
    \cup
    {[status |-> StatusCode, hdr |-> h, www |-> NULL, info |-> i] :
        h \in Headers, i \in Infos2069}
Responses ==
    HeaderResponses
    \cup {[status |-> 200, hdr |-> NULL, www |-> NULL, info |-> i] : i \in Infos}

\* ah_post_send's choice of headers: a 401 without a challenge of our own
\* to a CONNECT-context session falls back to WWW-Authenticate.
Fallback(rsp) == Context = "CONNECT" /\ rsp.status = 401 /\ rsp.hdr = NULL
AuthHdr(rsp) == IF Fallback(rsp) THEN rsp.www ELSE rsp.hdr
AuthInfo(rsp) == IF Fallback(rsp) THEN NULL ELSE rsp.info

-----------------------------------------------------------------------------
NoSession ==
    [protocol |-> NULL, realm |-> NULL, basic |-> NULL, nonce |-> NULL,
     cnonce |-> NULL, qop |-> "none", alg |-> "md5", nonce_count |-> 0,
     h_a1 |-> ZeroHA1, stored_rdig |-> NULL,
     gssctx |-> NULL, gsstoken |-> NULL, sspictx |-> NULL, sspitoken |-> NULL]

Init ==
    /\ handlers = <<>>
    /\ nreg = 0
    /\ sess = NoSession
    /\ cnonces = 0
    /\ req = NULL
    /\ crashed = FALSE
    /\ used = {}
    /\ replay = NULL
    /\ lastVerify = NULL
    /\ tokens = 0
    /\ toksent = {}
    /\ respMark = 0
    /\ lastNeg = NULL
    /\ due = NULL

(* auth_register: creates the session on first use, then "appends" a     *)
(* handler.  The loop stops at the link that points to the last handler   *)
(* and overwrites it, so the last handler is replaced, not followed.      *)
auth_register(mask) ==
    /\ ~crashed
    /\ nreg < MaxRegister
    /\ nreg' = nreg + 1
    /\ handlers' = SubSeq(handlers, 1, Len(handlers) - 1)
                       \o <<[id |-> nreg + 1, mask |-> mask]>>
    /\ UNCHANGED <<sess, cnonces, req, crashed, used, replay, lastVerify, negVars, due>>

\* ne_set_server_auth / ne_set_proxy_auth
SetAuth == auth_register(DefaultMask)

\* ne_add_server_auth / ne_add_proxy_auth
AddAuth == \E mask \in SUBSET ProtoIds \ {{}} : auth_register(mask)

\* ne_forget_auth
ForgetAuth ==
    /\ ~crashed
    /\ nreg > 0
    /\ sess' = clean_session(sess)
    /\ UNCHANGED <<handlers, nreg, cnonces, req, crashed, used, replay, lastVerify,
                   negVars, due>>

\* ah_create: an auth_request only where the context admits the method.
Create ==
    /\ ~crashed
    /\ nreg > 0
    /\ req = NULL
    /\ \E m \in Methods, u \in Uris :
          req' = [uri |-> u, attempt |-> 0, phase |-> "new",
                  sent |-> NULL,
                  areq |-> \/ Context = "ANY"
                           \/ m = "CONNECT" /\ Context = "CONNECT"
                           \/ m # "CONNECT" /\ Context = "NOTCONNECT"]
    /\ lastVerify' = NULL
    /\ lastNeg' = NULL
    /\ UNCHANGED <<handlers, nreg, sess, cnonces, crashed, used, replay,
                   tokens, toksent, respMark, due>>

(* ah_pre_send: with a protocol selected, ask it for the header value.    *)
PreSend ==
    /\ ~crashed
    /\ req # NULL /\ req.phase \in {"new", "retry"}
    /\ \/ /\ ~(req.areq /\ sess.protocol # NULL)
          /\ req' = [req EXCEPT !.phase = "sent", !.sent = NULL]
          /\ UNCHANGED <<sess, crashed, used, toksent>>
       \/ /\ req.areq /\ sess.protocol = "Basic"
          /\ req' = [req EXCEPT !.phase = "sent",
                                !.sent = request_basic(sess, req).hdr]
          /\ UNCHANGED <<sess, crashed, used, toksent>>
       \/ /\ req.areq /\ sess.protocol = "Digest"
          /\ DigestDerefsNull(sess)
          /\ crashed' = TRUE
          /\ UNCHANGED <<sess, req, used, toksent>>
       \/ /\ req.areq /\ sess.protocol = "Digest"
          /\ ~DigestDerefsNull(sess)
          /\ sess.qop # "none" => sess.nonce_count < MaxNc
          /\ LET r == request_digest(sess, req)
             IN /\ sess' = r.s
                /\ req' = [req EXCEPT !.phase = "sent", !.sent = r.hdr]
                /\ used' = IF r.hdr.nc = NULL THEN used
                           ELSE used \cup {<<r.hdr.pre.nonce, r.hdr.cnonce, r.hdr.nc>>}
          /\ UNCHANGED <<crashed, toksent>>
       \/ /\ req.areq /\ sess.protocol \in NegSchemes
          /\ LET h == IF Provider = "GSSAPI" THEN request_negotiate(sess, req)
                                             ELSE request_sspi(sess, req)
             IN /\ req' = [req EXCEPT !.phase = "sent",
                                      !.sent = IF h.token = NULL /\ Provider = "GSSAPI"
                                               THEN NULL ELSE h]
                /\ toksent' = IF h.token = NULL THEN toksent ELSE toksent \cup {h.token}
          /\ UNCHANGED <<sess, crashed, used>>
    /\ UNCHANGED <<handlers, nreg, cnonces, replay, lastVerify, tokens, respMark, lastNeg,
                   due>>

(* ah_post_send's three branch conditions, tested in this order, over the *)
(* session s0 left after the GSSAPI token was dropped.  The second tests   *)
(* flags && AUTH_FLAG_VERIFY_NON40x: true for any protocol with a flag.     *)
VerifyInfo(rsp, s0) ==
    LET p == s0.protocol
    IN AuthInfo(rsp) # NULL /\ p # NULL /\ HasVerify[p]
       /\ "VERIFY_NON40x" \notin ProtoFlags[p]
VerifyNon40x(rsp, s0) ==
    /\ s0.protocol # NULL /\ ProtoFlags[s0.protocol] # {}
    /\ rsp.status \in 200..399
    /\ AuthHdr(rsp) # NULL
IsChallenge(rsp) ==
    /\ rsp.status = StatusCode \/ (rsp.status = 401 /\ Context = "CONNECT")
    /\ AuthHdr(rsp) # NULL

\* Fault variant: the challenge test is moved to the head of the chain.
Branch_challenge_first(rsp, s0) ==
    CASE IsChallenge(rsp)        -> "challenge"
      [] VerifyInfo(rsp, s0)     -> "verify"
      [] VerifyNon40x(rsp, s0)   -> "non40x"
      [] OTHER                   -> "none"

\* The if / else if chain: the first branch whose condition holds.
Branch(rsp, s0) ==
    CASE VerifyInfo(rsp, s0)     -> "verify"
      [] VerifyNon40x(rsp, s0)   -> "non40x"
      [] IsChallenge(rsp)        -> "challenge"
      [] OTHER                   -> "none"

(* The branch spec.md 4.8 prescribes, written from its numbered list and  *)
(* not from the code: 1. an auth-info header with a selected scheme that  *)
(* verifies and lacks VERIFY_NON40x; 2. a VERIFY_NON40x scheme, a 2xx or  *)
(* 3xx and a challenge header (both are verifications); 3. the role's    *)
(* challenge code, or 401 on a CONNECT context, with a challenge header.  *)
Prescribed(rsp, p) ==
    LET info == AuthInfo(rsp) # NULL
        chal == AuthHdr(rsp) # NULL
        non40x == p # NULL /\ "VERIFY_NON40x" \in ProtoFlags[p]
    IN IF \/ info /\ p # NULL /\ HasVerify[p] /\ ~non40x
          \/ non40x /\ rsp.status \in 200..399 /\ chal
       THEN "verify"
       ELSE IF chal /\ \/ rsp.status = StatusCode
                       \/ rsp.status = 401 /\ Context = "CONNECT"
            THEN "challenge" ELSE "none"

(* First branch: verify the Authentication-Info header.                  *)
PostSendVerify(rsp, s0) ==
    LET info == AuthInfo(rsp)
    IN /\ Branch(rsp, s0) = "verify"
       /\ \E ncEq \in BOOLEAN :
            LET v == verify_digest_response(s0, req, info, ncEq)
            IN /\ info.nc = GarbageNc \/ ncEq
               /\ sess' = v.s
               /\ crashed' = v.fault
               /\ req' = [req EXCEPT !.phase = "done"]
               /\ lastVerify' = [ret |-> v.ret, qop |-> info.qop,
                                 genuine |-> SentQop
                                             /\ info.rspauth = ServerRsp(Sent),
                                 honest |-> /\ info.qop = "auth" /\ SentQop
                                            /\ Sent.complete
                                            /\ info.rspauth = ServerRsp(Sent)
                                            /\ info.cnonce = Sent.cnonce
                                            /\ info.nc = Sent.nc]
       /\ replay' = IF SentQop /\ Sent.complete /\ info.rspauth = ServerRsp(Sent)
                     THEN info.rspauth ELSE replay
       /\ UNCHANGED <<cnonces, tokens, lastNeg>>

(* Second branch: a 2xx/3xx with a challenge header under a protocol with *)
(* a flag: call its verify on the header.  SSPI's entries have none: the  *)
(* call is through a NULL pointer.  lastNeg records whether the header    *)
(* was a Negotiate token the provider accepts.                           *)
PostSendVerifyNon40x(rsp, s0) ==
    LET hdr == AuthHdr(rsp)
    IN /\ Branch(rsp, s0) = "non40x"
       /\ \/ /\ ~HasVerify[s0.protocol]
             /\ crashed' = TRUE
             /\ UNCHANGED <<sess, req, tokens, lastNeg>>
          \/ /\ HasVerify[s0.protocol]
             /\ tokens < MaxToken
             /\ \E cmpEq \in BOOLEAN, g \in GssOutcomes :
                  LET v == verify_negotiate_response(s0, hdr, cmpEq, g, tokens + 1)
                  IN /\ BareNegotiate(hdr) => cmpEq
                     /\ sess' = v.s
                     /\ crashed' = v.fault
                     /\ tokens' = IF v.s.gsstoken = tokens + 1 THEN tokens + 1 ELSE tokens
                     /\ req' = [req EXCEPT !.phase = "done"]
                     /\ lastNeg' = [ret |-> v.ret,
                                    valid |-> /\ hdr[1].key = "Negotiate"
                                              /\ VerifyToken(hdr) # BadBase64
                                              /\ g.major \in {"CONTINUE", "COMPLETE"}]
       /\ UNCHANGED <<cnonces, replay, lastVerify>>

\* areq->attempt++ around auth_challenge, and NE_RETRY if it selected a
\* protocol (the request goes back to pre-send), else the request is done.
CountAttempt(r, ok) ==
    [r EXCEPT !.attempt = @ + 1, !.phase = IF ok THEN "retry" ELSE "done"]

(* Third branch: our challenge code (or a 401 to a CONNECT-context        *)
(* session) with a challenge header: count the attempt, parse and accept; *)
(* RETRY if a protocol was selected, otherwise clean_session and the      *)
(* role's failure code.  okf gives each challenge tried the credential    *)
(* callback's verdict or the provider's outcome; a Digest acceptance      *)
(* draws one fresh cnonce, a provider step one fresh output token.        *)
PostSendChallenge(rsp, s0) ==
    LET hdr == AuthHdr(rsp)
        list == ParseChallenges(hdr)
        cn == get_cnonce
        tok == tokens + 1
        schemes == {list[i].scheme : i \in DOMAIN list}
    IN /\ Branch(rsp, s0) = "challenge"
       /\ req.attempt < MaxAttempt
       /\ "Digest" \in schemes => cnonces < MaxCnonce
       /\ schemes \cap NegSchemes # {} => tokens < MaxToken
       /\ \E okf \in VerdictSeqs(list) :
            LET s1 == auth_challenge(s0, req.attempt, list, okf, cn, tok)
                ok == s1.protocol # NULL
            IN /\ sess' = IF ok THEN s1 ELSE clean_session(s1)
               /\ cnonces' = IF ok /\ s1.protocol = "Digest" THEN cn ELSE cnonces
               /\ tokens' = IF tok \in {s1.gsstoken, s1.sspitoken} THEN tok ELSE tokens
               /\ req' = CountAttempt(req, ok)
       /\ UNCHANGED <<crashed, replay, lastVerify, lastNeg>>

(* No branch taken: NE_OK; under SSPI ne_sspi_clear_context resets the   *)
(* provider's own state, which the model does not hold.                 *)
PostSendNone(rsp, s0) ==
    /\ Branch(rsp, s0) = "none"
    /\ sess' = s0
    /\ req' = [req EXCEPT !.phase = "done"]
    /\ UNCHANGED <<cnonces, crashed, replay, lastVerify, tokens, lastNeg>>

\* Fault variant: the cached GSSAPI token is not dropped.
ForgetGssToken_keeps_token(s) == s

\* ah_post_send: "whatever happens: forget the GSSAPI token cached thus
\* far", once the request is known to carry an auth_request.
ForgetGssToken(s) ==
    IF Provider = "GSSAPI" THEN [s EXCEPT !.gsstoken = NULL] ELSE s

PostSend ==
    /\ ~crashed
    /\ req # NULL /\ req.phase = "sent"
    /\ \/ /\ ~req.areq
          /\ req' = [req EXCEPT !.phase = "done"]
          /\ due' = "none"
          /\ UNCHANGED <<sess, cnonces, crashed, replay, lastVerify, negVars>>
       \/ /\ req.areq
          /\ respMark' = tokens
          /\ LET s0 == ForgetGssToken(sess)
             IN \E rsp \in Responses :
                  /\ due' = Prescribed(rsp, sess.protocol)
                  /\ \/ PostSendVerify(rsp, s0)
                     \/ PostSendVerifyNon40x(rsp, s0)
                     \/ PostSendChallenge(rsp, s0)
                     \/ PostSendNone(rsp, s0)
    /\ UNCHANGED <<handlers, nreg, used, toksent>>

\* ah_destroy: the request is destroyed, answered or not (a request the
\* transport abandons never reaches post-send).
Destroy ==
    /\ ~crashed
    /\ req # NULL
    /\ req' = NULL
    /\ due' = NULL
    /\ UNCHANGED <<handlers, nreg, sess, cnonces, crashed, used, replay, lastVerify,
                   negVars>>

(* free_auth, the session's destroy hook: it releases the GSSAPI name,   *)
(* frees every handler, runs clean_session and frees the session.  The    *)
(* caller destroys its requests first, so none is open.  What can follow  *)
(* is a new session, which starts as Init does: no handlers, a clean      *)
(* session, and no history.                                               *)
FreeAuth ==
    /\ ~crashed
    /\ nreg > 0
    /\ req = NULL
    /\ handlers' = <<>>
    /\ nreg' = 0
    /\ sess' = NoSession
    /\ cnonces' = 0
    /\ used' = {}
    /\ replay' = NULL
    /\ lastVerify' = NULL
    /\ tokens' = 0 /\ toksent' = {} /\ respMark' = 0 /\ lastNeg' = NULL
    /\ UNCHANGED <<req, crashed, due>>

\* After a NULL dereference the process is gone: nothing happens any more.
Crashed ==
    /\ crashed
    /\ UNCHANGED vars

Next ==
    \/ SetAuth \/ AddAuth \/ ForgetAuth
    \/ Create \/ PreSend \/ PostSend \/ Destroy \/ FreeAuth
    \/ Crashed

Spec == Init /\ [][Next]_vars

-----------------------------------------------------------------------------
TypeOK ==
    /\ \A i \in DOMAIN handlers : /\ handlers[i].id \in 1..MaxRegister
                                 /\ handlers[i].mask \subseteq AuthIds
    /\ nreg \in 0..MaxRegister
    /\ sess.protocol \in {NULL} \cup Schemes
    /\ sess.realm \in {NULL} \cup Realms
    /\ sess.nonce \in {NULL} \cup Nonces
    /\ sess.cnonce \in {NULL} \cup 1..MaxCnonce
    /\ sess.qop \in {"none", "auth"}
    /\ sess.alg \in {"md5", "md5-sess"}
    /\ sess.nonce_count \in 0..MaxNc
    /\ cnonces \in 0..MaxCnonce
    /\ req = NULL \/ /\ req.uri \in Uris
                     /\ req.attempt \in 0..MaxAttempt
                     /\ req.phase \in {"new", "retry", "sent", "done"}
                     /\ req.sent = NULL \/ req.sent.scheme \in Schemes
    /\ crashed \in BOOLEAN
    /\ \A u \in used : u[1] \in Nonces /\ u[2] \in 1..MaxCnonce /\ u[3] \in 1..MaxNc
    /\ sess.gssctx \in {NULL, "open"} /\ sess.sspictx \in {NULL, "open"}
    /\ sess.gsstoken \in {NULL} \cup 1..MaxToken
    /\ sess.sspitoken \in {NULL} \cup 1..MaxToken
    /\ tokens \in 0..MaxToken /\ respMark \in 0..MaxToken
    /\ toksent \subseteq 1..MaxToken

-----------------------------------------------------------------------------
(* Properties.                                                             *)

SentTriple(h) == <<h.pre.nonce, h.cnonce, h.nc>>

\* A step of ah_pre_send that puts a qop=auth Digest header on the wire.
SendsQop ==
    /\ req # NULL /\ req' # NULL
    /\ req.phase \in {"new", "retry"} /\ req'.phase = "sent"
    /\ req'.sent # NULL /\ req'.sent.scheme = "Digest" /\ req'.sent.nc # NULL

(* No replayable request: request_digest never sends the same nonce,       *)
(* cnonce and nonce-count twice, across stale challenges (which reset      *)
(* nonce_count), nextnonce updates (which do not) and retries.             *)
NcNeverReused == [][SendsQop => SentTriple(req'.sent) \notin used]_vars

(* Mutual authentication is sound: verify_digest_response returns OK for  *)
(* a qop=auth Authentication-Info only when its rspauth is the digest the  *)
(* server computes for the request this response answers, not a replay of *)
(* one computed for an earlier request.                                     *)
MutualAuthSound ==
    lastVerify # NULL /\ lastVerify.ret = "OK" /\ lastVerify.qop = "auth"
        => lastVerify.genuine

(* Mutual authentication is complete: an honest server's Authentication-   *)
(* Info for the request just sent (its rspauth, cnonce and nc) is accepted  *)
(* by verify_digest_response, whatever challenges, retries and nextnonce   *)
(* updates came before (a process that crashed verifies nothing).           *)
MutualAuthComplete ==
    lastVerify # NULL /\ lastVerify.honest /\ ~crashed => lastVerify.ret = "OK"

(* Spec section 3, invariant 1, and 4.5 step 4: a Digest header is only   *)
(* sent with the realm and an H(A1) computed from credentials the callback *)
(* supplied.  digest_challenge skips clean_session and the callback for    *)
(* stale=true, whatever the session holds.                                 *)
DigestHeaderHasCredentials ==
    req # NULL /\ req.sent # NULL /\ req.sent.scheme = "Digest"
        => req.sent.complete /\ req.sent.cred # NULL

(* Spec 4.7 (Clear) and 4.8: clearing the session (ne_forget_auth) leaves  *)
(* it able to serve the next request; no hook dereferences a NULL field of *)
(* a cleared session.                                                      *)
NoNullDereference == ~crashed

(* Spec section 3, invariant 4, and 4.7: the handler chain is append-only; *)
(* every handler registered is still in it.                                *)
HandlersAppendOnly == Len(handlers) = nreg

(* Spec section 3, invariant 3: stored_rdig is set only while the most     *)
(* recently sent request used qop=auth, and then holds that request's      *)
(* digest prefix.                                                          *)
StoredRdigTracksLastRequest ==
    req # NULL /\ req.phase \in {"sent", "done"} /\ sess.stored_rdig # NULL
        => req.sent # NULL /\ req.sent.nc # NULL
           /\ req.sent.pre = sess.stored_rdig

\* A step of ah_pre_send that puts a provider output token on the wire.
SendsToken ==
    /\ req # NULL /\ req' # NULL
    /\ req.phase \in {"new", "retry"} /\ req'.phase = "sent"
    /\ req'.sent # NULL /\ req'.sent.token # NULL

(* Spec 4.6 and section 3: the cached Negotiate output token is cleared   *)
(* between every response and the following request, so a request only   *)
(* carries a token the provider returned while this session handled its   *)
(* latest response (ah_post_send drops the GSSAPI token before branching, *)
(* the challenge or the final verification may cache a new one).          *)
TokenFromLatestResponse == [][SendsToken => req'.sent.token > respMark]_vars

(* Spec 4.6, cache discipline: a token is consumed by exactly one         *)
(* request; request_negotiate and request_sspi never send an output token *)
(* that an earlier request already carried.                                *)
TokenConsumedOnce == [][SendsToken => req'.sent.token \notin toksent]_vars

(* Spec 4.6, Verify: when a 2xx/3xx carries "Negotiate <token>" and the   *)
(* provider accepts the token, verify_negotiate_response returns OK; it   *)
(* fails only when the scheme name, the decoding or the step fails.       *)
NegotiateVerifyComplete ==
    lastNeg # NULL /\ lastNeg.valid /\ ~crashed => lastNeg.ret = "OK"

(* The challenge list as spec 4.2 describes it, for comparison with       *)
(* auth_challenge's parse: a scheme word that a handler claims starts a    *)
(* challenge (the word an OPAQUE_PARAM scheme takes as its token is not a *)
(* scheme word); each key=value pair belongs to the nearest scheme word    *)
(* before it and is dropped when that word was not claimed; a later pair   *)
(* of the same key wins; the list runs from the strongest to the weakest, *)
(* equal strengths in header order.                                        *)
SchemeWord(hdr, i) == hdr[i].value = NULL /\ ~(i > 1 /\ TakesToken(Claims, hdr, i - 1))
Owner(hdr, i) ==
    LET P == {j \in 1..i - 1 : SchemeWord(hdr, j)} IN IF P = {} THEN 0 ELSE Max(P)
ParamsOf(hdr, j, k) ==
    {i \in 1..Len(hdr) : Owner(hdr, i) = j /\ hdr[i].value # NULL /\ hdr[i].key = k}
LastValue(hdr, j, k) ==
    IF ParamsOf(hdr, j, k) = {} THEN NULL ELSE hdr[Max(ParamsOf(hdr, j, k))].value
ExpectedChall(hdr, j) ==
    LET a == LastValue(hdr, j, "algorithm")
        o == LastValue(hdr, j, "opaque")
    IN [scheme |-> hdr[j].key, realm |-> LastValue(hdr, j, "realm"),
        nonce |-> LastValue(hdr, j, "nonce"),
        stale |-> LastValue(hdr, j, "stale") = "true",
        qop |-> \E i \in ParamsOf(hdr, j, "qop") : "auth" \in QopTokens(hdr[i].value),
        alg |-> CASE a = NULL -> "md5" [] a \in {"md5", "md5-sess"} -> a
                  [] OTHER -> "unknown",
        opaque |-> IF o # NULL THEN o
                   ELSE IF TakesToken(Claims, hdr, j) THEN OpaqueWord(hdr, j) ELSE NULL,
        handler |-> Claims[hdr[j].key], at |-> j]
ExpectedList(hdr) ==
    LET order == SetToSortSeq({j \in 1..Len(hdr) : SchemeWord(hdr, j) /\ IsClaimed(Claims, hdr[j].key)},
                              LAMBDA a, b : \/ Strength[hdr[a].key] > Strength[hdr[b].key]
                                            \/ Strength[hdr[a].key] = Strength[hdr[b].key] /\ a < b)
    IN [k \in DOMAIN order |-> ExpectedChall(hdr, order[k])]

(* Spec 4.2: whatever handlers are registered, auth_challenge turns every  *)
(* header into exactly that list.  The loop writes parameters through the *)
(* pointer insert_challenge returned while later insertions re-link the   *)
(* list, resets it after a scheme nobody claims, and lets an OPAQUE_PARAM *)
(* scheme swallow the next word.                                           *)
ChallengeListMatchesHeader ==
    \A h \in Headers : ParseChallenges(h) = ExpectedList(h)

(* The hooks implement the pipeline contract of AuthPipeline (spec 4.8    *)
(* and section 5): the current request's phase and attempt count, the     *)
(* selected protocol, the scheme of the header pre-send added, and the    *)
(* branch spec 4.8 prescribes for the last response (due, which PostSend  *)
(* records from Prescribed, not from the code's own tests).  A crashed    *)
(* process and the other history variables map to stuttering.             *)
Pipeline == INSTANCE AuthPipeline WITH
    phase <- IF req = NULL THEN "none" ELSE req.phase,
    attempt <- IF req = NULL THEN 0 ELSE req.attempt,
    selected <- sess.protocol,
    hdr <- IF req = NULL \/ req.sent = NULL THEN NULL ELSE req.sent.scheme,
    due <- due

(* ah_create, ah_pre_send, ah_post_send, ah_destroy, registration and     *)
(* ne_forget_auth together refine the pipeline contract: hook order, the  *)
(* header of the selected scheme, ah_post_send's else-if chain taking the *)
(* branch the response calls for (a 401 with both Authentication-Info and *)
(* a challenge is a verification, never a retry), one attempt per parsed  *)
(* challenge, and a retry exactly when auth_challenge selected a protocol.*)
PipelineRefined == Pipeline!Spec

====
