------------------------------ MODULE MCNeAuth ------------------------------
(***************************************************************************)
(* Model-checking instance of NeAuth: the challenge headers the server may *)
(* send, written as the tokens tokenize returns for them in challenge      *)
(* mode (the Tokenizer runs check that it returns exactly these).          *)
(***************************************************************************)
EXTENDS NeAuth

\* A token: a scheme word has value NULL and the separator that ended it;
\* the separator of a key=value pair is not read.
Tok(k, v, s) == [key |-> k, value |-> v, sep |-> s]
Par(k, v) == Tok(k, v, "-")

R == CHOOSE r \in Realms : TRUE
N1 == CHOOSE n \in Nonces : TRUE

\* 'Digest realm=.., nonce=..[, stale=true][, qop="auth"], algorithm=..',
\* leaving out a realm or nonce that is NULL; "sha" is an algorithm the
\* parser maps to unknown.
Digest(realm, nonce, stale, qop, alg) ==
    <<Tok("Digest", NULL, " ")>>
    \o SelectSeq(<<Par("realm", realm), Par("nonce", nonce),
                   Par("stale", IF stale THEN "true" ELSE NULL),
                   Par("qop", IF qop THEN "auth" ELSE NULL),
                   Par("algorithm", alg)>>,
                 LAMBDA p : p.value # NULL)

BasicR == <<Tok("Basic", NULL, " "), Par("realm", R)>>
\* A scheme word alone: at the end of the header, or before ','.
Bare(scheme) == <<Tok(scheme, NULL, EndSep)>>
BareThen(scheme) == <<Tok(scheme, NULL, ",")>>
\* A Negotiate-family challenge with a token (the OPAQUE_PARAM path).
WithToken(scheme, tok) == <<Tok(scheme, NULL, " "), Tok(tok, NULL, EndSep)>>

\* Every well-formed Digest challenge over the nonces, stale and qop flags
\* and both algorithms, plus one of each malformed kind.  MD5-sess without
\* qop is refused before anything is read (digest_challenge's second
\* test), so one such header stands for all of them.
DigestChalls ==
    {Digest(R, n, st, q, "md5") : n \in Nonces, st \in BOOLEAN, q \in BOOLEAN}
    \cup {Digest(R, n, st, TRUE, "md5-sess") : n \in Nonces, st \in BOOLEAN}
    \cup {Digest(R, N1, FALSE, FALSE, "md5-sess"),
          Digest(NULL, N1, FALSE, TRUE, "md5"),
          Digest(R, NULL, FALSE, TRUE, "md5"),
          Digest(R, N1, FALSE, TRUE, "sha")}

BasicChalls == {BasicR, Bare("Basic")}

\* Headers of one challenge, and of two: weaker before stronger, a failing
\* stronger one before a weaker one, two Digest challenges of which the
\* first is rejected, and a challenge no handler claims first.
MCHeaders ==
    DigestChalls \cup BasicChalls \cup {Bare("NTLM")}
    \cup {BasicR \o Digest(R, N1, FALSE, TRUE, "md5"),
          Digest(R, N1, FALSE, TRUE, "sha") \o BasicR,
          Digest(R, N1, FALSE, FALSE, "md5-sess") \o Digest(R, N1, FALSE, TRUE, "md5"),
          BareThen("NTLM") \o Digest(R, N1, TRUE, TRUE, "md5")}

\* Proxy role: the MD5 Digest challenges, one with an unknown algorithm
\* and a Basic challenge.  MD5-sess, malformed challenges, headers of two
\* challenges and the unclaimed scheme are the server run's; what this
\* run adds is the CONNECT-context fallback and the 407 code.
MCProxyHeaders ==
    {Digest(R, n, st, q, "md5") : n \in Nonces, st \in BOOLEAN, q \in BOOLEAN}
    \cup {Digest(R, N1, FALSE, TRUE, "sha"), BasicR}

\* GSSAPI build: the initial bare challenge, a continuation token, a token
\* that is not base64, Negotiate offered beside Digest and after Basic,
\* and the Basic and Digest challenges the other runs use most.  The last
\* header has two Digest challenges (equal strength) around a scheme no
\* handler claims whose parameter must not reach the first, a qop list
\* and a parameter the parser ignores.  (ne_request strips trailing white
\* space from header values, so no header ends in "Negotiate ".)
MCNegHeaders ==
    {Bare("Negotiate"), WithToken("Negotiate", "tok"),
     WithToken("Negotiate", BadBase64),
     BareThen("Negotiate") \o Digest(R, N1, FALSE, TRUE, "md5"),
     BasicR \o WithToken("Negotiate", "tok"),
     Digest(R, N1, FALSE, TRUE, "md5"),
     Digest(R, N1, FALSE, TRUE, "sha"),
     BasicR,
     Digest(R, N1, FALSE, FALSE, "sha")
     \o <<Tok("NTLM", NULL, " "), Par("algorithm", "md5")>>
     \o <<Tok("Digest", NULL, " "), Par("realm", R), Par("nonce", N1),
          Par("qop", "auth-int,auth"), Par("domain", "/")>>}

\* SSPI build: NTLM and Negotiate, bare and with a token.
MCSspiHeaders ==
    {Bare(s) : s \in {"NTLM", "Negotiate"}}
    \cup {WithToken(s, "tok") : s \in {"NTLM", "Negotiate"}}
    \cup {BasicR}
====
