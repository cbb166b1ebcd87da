----------------------------- MODULE SharedDecode -----------------------------
(***************************************************************************)
(* What a decoding service promises its viewers, without entries, slots,    *)
(* workers, limits or time.  Viewers of one transaction share one decode:   *)
(* they wait for the same answer and get it in the same step.  Whoever      *)
(* leaves takes nothing from the others, and an answer stays what it is.    *)
(***************************************************************************)
CONSTANTS Keys,   \* what can be decoded
          Ids,    \* viewers
          NoKey

VARIABLES asked,   \* asked[id]: what a viewer looks at
          answer   \* answer[id]: what the viewer is told about it

(* The viewers who wait for the decode of a key.                            *)
Waiting(k) == {id \in Ids : asked[id] = k /\ answer[id] = "waiting"}

Init ==
  /\ asked = [id \in Ids |-> NoKey]
  /\ answer = [id \in Ids |-> "none"]

(* Some viewers leave.                                                      *)
Leave(ids) ==
  /\ asked' = [id \in Ids |-> IF id \in ids THEN NoKey ELSE asked[id]]
  /\ answer' = [id \in Ids |-> IF id \in ids THEN "none" ELSE answer[id]]

(* A viewer comes, while others leave.  An earlier result is shown only if  *)
(* nobody waits for a newer one.                                            *)
Ask(ids, id, k, told) ==
  /\ id \in ids \/ answer[id] = "none"
  /\ told = "complete" => Waiting(k) \subseteq ids
  /\ asked' = [i \in Ids |-> IF i = id THEN k
                             ELSE IF i \in ids THEN NoKey ELSE asked[i]]
  /\ answer' = [i \in Ids |-> IF i = id THEN told
                              ELSE IF i \in ids THEN "none" ELSE answer[i]]

(* A decode ends, for all who wait for it.                                  *)
Tell(k, told) ==
  /\ Waiting(k) # {}
  /\ answer' = [id \in Ids |-> IF id \in Waiting(k) THEN told ELSE answer[id]]
  /\ UNCHANGED asked

Next ==
  \/ \E ids \in SUBSET Ids : Leave(ids)
  \/ \E ids \in SUBSET Ids, id \in Ids, k \in Keys,
        told \in {"waiting", "complete"} : Ask(ids, id, k, told)
  \/ \E k \in Keys, told \in {"complete", "failed"} : Tell(k, told)

Spec == Init /\ [][Next]_<<asked, answer>>
=============================================================================
