--------------------------- MODULE AbstractTxAuth ---------------------------
(***************************************************************************)
(* What a transaction-signature verifier promises its callers.  Key       *)
(* holders endorse contents.  A caller presents a request: some content   *)
(* under some number of signatures.  The verifier refuses (throws) exactly *)
(* the requests that are not one content under one signature, answers the *)
(* others with a verdict, and a positive verdict names a key together     *)
(* with content that key endorsed.                                        *)
(***************************************************************************)
CONSTANTS
  Keys,      \* signing keys
  Requests,  \* everything a caller can present for verification
  Contents   \* the well-formed requests: one content, one signature

ASSUME ContentsAreRequests == Contents \subseteq Requests

VARIABLES
  endorsed,  \* set of [key, content] pairs endorsed so far
  answer     \* the verifier's last verdict or refusal, or NoAnswer

avars == <<endorsed, answer>>

NoAnswer == [kind |-> "none"]

Init ==
  /\ endorsed = {}
  /\ answer = NoAnswer

\* A key holder endorses content.
Endorse(k, c) ==
  /\ answer' = NoAnswer
  /\ endorsed' = endorsed \cup {[key |-> k, content |-> c]}

\* The verifier answers whether k endorsed a well-formed request c; it may
\* say no at any time, and says yes only for an endorsed pair.
Answer(k, c, verdict) ==
  /\ answer' = [kind |-> "verdict", key |-> k, content |-> c,
                verdict |-> verdict]
  /\ verdict => [key |-> k, content |-> c] \in endorsed
  /\ UNCHANGED endorsed

\* The verifier refuses a request that is not well formed.
Refuse ==
  /\ answer' \in [kind : {"refused"}, request : Requests \ Contents]
  /\ UNCHANGED endorsed

\* Nothing is being verified.
Idle ==
  /\ answer' = NoAnswer
  /\ UNCHANGED endorsed

Next ==
  \/ Refuse
  \/ Idle
  \/ \E k \in Keys, c \in Contents, verdict \in BOOLEAN : Answer(k, c, verdict)
  \/ \E k \in Keys, c \in Contents : Endorse(k, c)

Spec == Init /\ [][Next]_avars
=============================================================================
