---------------------------- MODULE AuthPipeline ----------------------------
(***************************************************************************)
(* What the authentication hooks promise the request pipeline, for one     *)
(* role of one HTTP session (spec.md 4.8 and section 5, "Ordering         *)
(* guarantees"), with the credentials and protocol details left out:       *)
(*                                                                         *)
(*  - hooks run in request order: create, pre-send, post-send, and again  *)
(*    pre-send and post-send only after a retry, then destroy;            *)
(*  - the header pre-send adds is of the selected scheme, or there is none;*)
(*  - post-send takes the branch the response calls for, in the order of *)
(*    spec 4.8: a verification (auth-info, or a 2xx/3xx to a VERIFY_NON40x*)
(*    scheme) before a challenge, a challenge before nothing;             *)
(*  - the selected scheme changes only when post-send parses a challenge, *)
(*    which counts one attempt, retries exactly when a scheme was          *)
(*    selected, and otherwise ends the request with no scheme selected;   *)
(*  - clearing the session (forget) may drop the selection; everything   *)
(*    else (registration, verification) leaves the selection and the      *)
(*    request as they are.                                                 *)
(***************************************************************************)
EXTENDS Naturals

CONSTANTS
    NULL,          \* no scheme / no header
    Schemes,       \* the scheme names the build knows
    MaxAttempt     \* challenges answered per request

VARIABLES
    phase,     \* the current request: "none" (no request), "new", "sent",
               \* "retry" (post-send returned NE_RETRY) or "done"
    attempt,   \* challenges parsed for the current request
    selected,  \* the scheme whose header pre-send produces, or NULL
    hdr,       \* the scheme of the header the last pre-send added, or NULL
    due        \* what the current request's last response calls for:
               \* "verify", "challenge", "none", or NULL before one

pvars == <<phase, attempt, selected, hdr, due>>

Init ==
    /\ phase = "none"
    /\ attempt = 0
    /\ selected = NULL
    /\ hdr = NULL
    /\ due = NULL

\* A request is created.
Open ==
    /\ phase = "none"
    /\ phase' = "new"
    /\ UNCHANGED <<attempt, selected, hdr, due>>

\* Pre-send: a header of the selected scheme, or none.
Send ==
    /\ phase \in {"new", "retry"}
    /\ phase' = "sent"
    /\ hdr' \in {NULL} \cup ({selected} \ {NULL})
    /\ UNCHANGED <<attempt, selected, due>>

\* Post-send on a response that calls for a verification or for nothing:
\* the request is answered, the selection stays.
Answer ==
    /\ phase = "sent"
    /\ due' \in {"verify", "none"}
    /\ phase' = "done"
    /\ UNCHANGED <<attempt, selected, hdr>>

\* Post-send parses a challenge: one more attempt, a new selection, and a
\* retry exactly when a scheme was selected.
Challenge ==
    /\ phase = "sent"
    /\ due' = "challenge"
    /\ attempt < MaxAttempt
    /\ attempt' = attempt + 1
    /\ selected' \in {NULL} \cup Schemes
    /\ phase' = IF selected' = NULL THEN "done" ELSE "retry"
    /\ UNCHANGED hdr

\* The request is destroyed, answered or not.
Close ==
    /\ phase # "none"
    /\ phase' = "none"
    /\ attempt' = 0
    /\ hdr' = NULL
    /\ due' = NULL
    /\ UNCHANGED selected

\* The session is cleared: the selection may go, the request is untouched.
Clear ==
    /\ selected' \in {selected, NULL}
    /\ UNCHANGED <<phase, attempt, hdr, due>>

Next == Open \/ Send \/ Answer \/ Challenge \/ Close \/ Clear

Spec == Init /\ [][Next]_pvars

====
