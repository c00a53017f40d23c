------------------------------ MODULE Tokenizer ------------------------------
(***************************************************************************)
(* tokenize() of src/src/ne_auth.c and the loop of its callers:           *)
(*     while (tokenize(&pnt, &key, &val, &sep, ischall) == 0) ...          *)
(* (auth_challenge in challenge mode, verify_digest_response in param      *)
(* mode).  One step is one iteration of tokenize's do-while loop over the  *)
(* header buffer, so the three-state scanner is kept exactly.              *)
(*                                                                         *)
(* Characters are abstracted to the classes the scanner tells apart: a    *)
(* name character "a", "=", ",", a space and a double quote.  The NUL     *)
(* bytes tokenize writes over a terminator are not re-read by a later     *)
(* call (each call starts after the last terminator), so the buffer is    *)
(* kept unchanged and a key or value is the text between its start and    *)
(* its terminator.  The caller's key, val and sep are variables that keep  *)
(* their value between calls, as they do in the C callers (val and sep    *)
(* start uninitialised).                                                   *)
(***************************************************************************)
EXTENDS Integers, Sequences, SequencesExt

CONSTANTS
    NULL,       \* a NULL pointer
    Uninit,     \* the value of a never-written local (val, sep)
    MaxLen,     \* every header value up to this length is parsed
    GrammarLen  \* and every well-formed one up to this length

Q == "\""
Chars == {"a", "=", ",", " ", Q}
\* strchr(" \r\n\t", c): the characters that never start a key.
Space == {" "}
\* The character tokenize writes to *sep at the end of the input.
EndSep == "\\0"

VARIABLES
    buf,      \* the header value being parsed
    ischall,  \* the ischall argument (auth_challenge: 1, verify: 0)
    hdr,      \* *hdr: index of the next call's first character
    pnt,      \* pnt: index of the character being scanned
    st,       \* state: BEFORE_EQ, AFTER_EQ or AFTER_EQ_QUOTED
    key,      \* *key: index where the key starts, 0 while NULL
    eq,       \* index of the '=' that ended the key, 0 if none yet
    val,      \* the caller's val: a text, NULL or Uninit
    sep,      \* the caller's sep
    pc,       \* "call": tokenize is entered next; "scan": in the loop
    ret,      \* the return value once the caller's loop has stopped
    toks      \* the (key, value, sep) triples the caller's loop body saw

vars == <<buf, ischall, hdr, pnt, st, key, eq, val, sep, pc, ret, toks>>

-----------------------------------------------------------------------------
Text(from, to) == SubSeq(buf, from, to)

\* The key ends at the '=' if there was one, else just before position e.
KeyText(e) == IF key = 0 THEN NULL
              ELSE Text(key, IF eq > 0 THEN eq - 1 ELSE e - 1)

\* What the caller's loop body sees after tokenize returned 0.  sep is
\* only read by auth_challenge after a bare token (val = NULL).
Token(k, v, s, set) == [key |-> k, value |-> v,
                        sep |-> IF v = NULL THEN s ELSE "-", set |-> set]

\* Fault variant: *hdr is set one character past the terminator's successor.
Emit_skips_char(k, v, s, set, next) ==
    /\ val' = v /\ sep' = s
    /\ toks' = Append(toks, Token(k, v, s, set))
    /\ hdr' = next + 1
    /\ pc' = "call"

\* return 0: the caller records the token and calls again; set tells
\* whether this call wrote *value.
Emit(k, v, s, set, next) ==
    /\ val' = v /\ sep' = s
    /\ toks' = Append(toks, Token(k, v, s, set))
    /\ hdr' = next
    /\ pc' = "call"

-----------------------------------------------------------------------------
(* The reference: the grammar of spec section 4.1 and RFC 2617 that        *)
(* tokenize is meant to accept, given by rendering token lists.  A param   *)
(* is name=value with a plain or quoted value; params are separated by    *)
(* "," or ", "; a challenge is a scheme name, followed by a space and its  *)
(* params if it has any; challenges are separated like params.  Grammar   *)
(* pairs each token list with its rendering, up to GrammarLen characters. *)
Name == {<<"a">>, <<"a", "a">>}
Value == {<<>>, <<"a">>} \cup {<<Q>> \o s \o <<Q>> : s \in SeqOf({"a", ",", " ", "="}, 1)}
Param == [key : Name, value : Value]
Delim == {<<",">>, <<",", " ">>}

ParamText(p) == p.key \o <<"=">> \o p.value
ParamTok(p) == Token(p.key, p.value, "-", TRUE)

\* Non-empty param lists rendering in at most n characters.
RECURSIVE ParamLists(_)
ParamLists(n) ==
    {<<<<ParamTok(p)>>, ParamText(p)>> : p \in {p \in Param : Len(ParamText(p)) <= n}}
    \cup
    UNION {{<<<<ParamTok(p)>> \o l[1], ParamText(p) \o d \o l[2]>> :
               l \in ParamLists(n - Len(ParamText(p)) - Len(d))} :
           p \in {p \in Param : Len(ParamText(p)) + 2 < n}, d \in Delim}

\* Non-empty challenge lists rendering in at most n characters; follow is
\* the character after a scheme that has no params.
RECURSIVE ChallLists(_)
ChallLists(n) ==
    LET Bare(s, follow) == Token(s, NULL, follow, TRUE)
        WithParams(m) ==
            UNION {{<<<<Bare(s, " ")>> \o l[1], s \o <<" ">> \o l[2]>> :
                       l \in ParamLists(m - Len(s) - 1)} : s \in Name}
        Alone(m, follow) ==
            {<<<<Bare(s, follow)>>, s>> : s \in {s \in Name : Len(s) <= m}}
    IN Alone(n, EndSep) \cup WithParams(n)
       \cup
       UNION {UNION {{<<c[1] \o l[1], c[2] \o d \o l[2]>> :
                          l \in ChallLists(n - Len(c[2]) - Len(d))} :
                     c \in Alone(n - 2, ",") \cup WithParams(n - 2)} :
              d \in Delim}

Grammar == [b \in BOOLEAN |->
               {<<<<>>, <<>>>>} \cup IF b THEN ChallLists(GrammarLen) ELSE ParamLists(GrammarLen)]
GrammarText == [b \in BOOLEAN |-> {g[2] : g \in Grammar[b]}]

-----------------------------------------------------------------------------
Init ==
    /\ ischall \in BOOLEAN
    /\ buf \in SeqOf(Chars, MaxLen) \cup GrammarText[ischall]
    /\ hdr = 1 /\ pnt = 1 /\ st = "BEFORE_EQ" /\ key = 0 /\ eq = 0
    /\ val = Uninit /\ sep = Uninit
    /\ pc = "call" /\ ret = NULL /\ toks = <<>>

\* Entry: return 1 at the end of the buffer, else key = NULL and scan.
Call ==
    /\ pc = "call"
    /\ \/ /\ hdr > Len(buf)
          /\ pc' = "done" /\ ret' = 1
          /\ UNCHANGED <<pnt, st, key, eq>>
       \/ /\ hdr <= Len(buf)
          /\ pc' = "scan" /\ pnt' = hdr /\ st' = "BEFORE_EQ"
          /\ key' = 0 /\ eq' = 0
          /\ UNCHANGED ret
    /\ UNCHANGED <<buf, ischall, hdr, val, sep, toks>>

\* Fault variant: the loop tests the next character without moving to it.
Continue_no_increment(st2, key2, eq2) ==
    \/ /\ pnt < Len(buf)
       /\ UNCHANGED pnt /\ st' = st2 /\ key' = key2 /\ eq' = eq2
       /\ UNCHANGED <<hdr, val, sep, pc, toks>>
    \/ /\ pnt = Len(buf)
       /\ st' = st2 /\ key' = key2 /\ eq' = eq2 /\ UNCHANGED pnt
       /\ LET k == IF key2 = 0 THEN NULL
                   ELSE Text(key2, IF eq2 > 0 THEN eq2 - 1 ELSE Len(buf))
              bare == st2 = "BEFORE_EQ" /\ ischall /\ key2 # 0
          IN Emit(k,
                  IF bare THEN NULL
                  ELSE IF eq2 > 0 THEN Text(eq2 + 1, Len(buf)) ELSE val,
                  IF bare THEN EndSep ELSE sep,
                  bare \/ eq2 > 0,
                  Len(buf) + 1)

(* The end of an iteration: the loop test on the next character.  At   *)
(* the end of the input a bare key in challenge mode gets value NULL and  *)
(* sep '\0'; in any other case *value and *sep are left as they were     *)
(* (the value of an '=' pair was stored when its '=' was seen), and       *)
(* tokenize returns 0.                                                    *)
Continue(st2, key2, eq2) ==
    \/ /\ pnt < Len(buf)
       /\ pnt' = pnt + 1 /\ st' = st2 /\ key' = key2 /\ eq' = eq2
       /\ UNCHANGED <<hdr, val, sep, pc, toks>>
    \/ /\ pnt = Len(buf)
       /\ st' = st2 /\ key' = key2 /\ eq' = eq2 /\ UNCHANGED pnt
       /\ LET k == IF key2 = 0 THEN NULL
                   ELSE Text(key2, IF eq2 > 0 THEN eq2 - 1 ELSE Len(buf))
              bare == st2 = "BEFORE_EQ" /\ ischall /\ key2 # 0
          IN Emit(k,
                  IF bare THEN NULL
                  ELSE IF eq2 > 0 THEN Text(eq2 + 1, Len(buf)) ELSE val,
                  IF bare THEN EndSep ELSE sep,
                  bare \/ eq2 > 0,
                  Len(buf) + 1)

\* case BEFORE_EQ
ScanBeforeEq ==
    LET c == buf[pnt] IN
    /\ pc = "scan" /\ st = "BEFORE_EQ"
    /\ \/ /\ c = "=" /\ key = 0                   \* return -1
          /\ pc' = "done" /\ ret' = -1
          /\ UNCHANGED <<hdr, pnt, st, key, eq, val, sep, toks>>
       \/ /\ c = "=" /\ key # 0
          /\ Continue("AFTER_EQ", key, pnt) /\ UNCHANGED ret
       \/ /\ c \in {" ", ","} /\ ischall /\ key # 0
          /\ Emit(KeyText(pnt), NULL, c, TRUE, pnt + 1)
          /\ UNCHANGED <<pnt, st, key, eq, ret>>
       \/ /\ c # "=" /\ ~(c \in {" ", ","} /\ ischall /\ key # 0)
          /\ Continue("BEFORE_EQ",
                      IF key = 0 /\ c \notin Space THEN pnt ELSE key, eq)
          /\ UNCHANGED ret
    /\ UNCHANGED <<buf, ischall>>

\* Fault variant: a double quote does not start a quoted value.
ScanAfterEq_ignores_quotes ==
    LET c == buf[pnt] IN
    /\ pc = "scan" /\ st = "AFTER_EQ"
    /\ \/ /\ c = ","
          /\ Emit(KeyText(pnt), Text(eq + 1, pnt - 1), sep, TRUE, pnt + 1)
          /\ UNCHANGED <<pnt, st, key, eq>>
       \/ /\ c # ","
          /\ Continue("AFTER_EQ", key, eq)
    /\ UNCHANGED <<buf, ischall, ret>>

\* case AFTER_EQ
ScanAfterEq ==
    LET c == buf[pnt] IN
    /\ pc = "scan" /\ st = "AFTER_EQ"
    /\ \/ /\ c = ","
          /\ Emit(KeyText(pnt), Text(eq + 1, pnt - 1), sep, TRUE, pnt + 1)
          /\ UNCHANGED <<pnt, st, key, eq>>
       \/ /\ c # ","
          /\ Continue(IF c = Q THEN "AFTER_EQ_QUOTED" ELSE "AFTER_EQ", key, eq)
    /\ UNCHANGED <<buf, ischall, ret>>

\* case AFTER_EQ_QUOTED
ScanQuoted ==
    LET c == buf[pnt] IN
    /\ pc = "scan" /\ st = "AFTER_EQ_QUOTED"
    /\ Continue(IF c = Q THEN "AFTER_EQ" ELSE "AFTER_EQ_QUOTED", key, eq)
    /\ UNCHANGED <<buf, ischall, ret>>

\* The caller's loop has stopped.
Done == pc = "done" /\ UNCHANGED vars

Next == Call \/ ScanBeforeEq \/ ScanAfterEq \/ ScanQuoted \/ Done

\* tokenize is a loop of the calling thread: it keeps running.
Fairness == WF_vars(Call \/ ScanBeforeEq \/ ScanAfterEq \/ ScanQuoted)

Spec == Init /\ [][Next]_vars /\ Fairness

-----------------------------------------------------------------------------
TypeOK ==
    /\ buf \in Seq(Chars)
    /\ hdr \in 1..Len(buf) + 1 /\ pnt \in 1..Len(buf) + 1
    /\ st \in {"BEFORE_EQ", "AFTER_EQ", "AFTER_EQ_QUOTED"}
    /\ key \in 0..Len(buf) /\ eq \in 0..Len(buf)
    /\ pc \in {"call", "scan", "done"}
    /\ ret \in {NULL, 1, -1}

(* tokenize parses every header of the grammar into exactly its tokens, in *)
(* both modes: quoted values keep their commas, spaces and '=' signs, a    *)
(* scheme reports the separator that followed it (' ' before its params,   *)
(* ',' before another challenge, '\0' at the end), and the loop ends with  *)
(* return value 1 rather than -1.                                          *)
TokenizeMatchesGrammar ==
    pc = "done" /\ buf \in GrammarText[ischall]
        => ret = 1 /\ <<toks, buf>> \in Grammar[ischall]

(* The contract in tokenize's comment: when it returns 0, *key is set and   *)
(* *value was written by this call (NULL for a bare challenge token,       *)
(* non-NULL otherwise), whatever the input.                                 *)
ReturnedTokensComplete ==
    \A i \in 1..Len(toks) : toks[i].key # NULL /\ toks[i].set

(* Every caller loop over tokenize ends: each call either returns or moves *)
(* pnt forward, whatever the input.                                         *)
Terminates == <>(pc = "done")

====
