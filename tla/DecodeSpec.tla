----------------------------- MODULE DecodeSpec -----------------------------
(***************************************************************************)
(* What one call of the single-instruction API promises, whatever feeds it *)
(* and however the bytes arrive: it answers exactly what Decode answers    *)
(* about the bytes delivered so far, and it takes a further byte only      *)
(* while that answer would be a partial one, never more than the partial   *)
(* error would report missing.                                             *)
(***************************************************************************)
EXTENDS Answers

VARIABLES
  delivered,  \* the bytes the call has been given
  reply       \* what it returned, or NoAnswer

vars == <<delivered, reply>>

Init == /\ delivered \in Slices \cup {<<>>}
        /\ reply = NoAnswer

Deliver ==
  /\ reply = NoAnswer
  /\ Outcome(delivered).kind = "partial"
  /\ delivered' \in Seq(Byte)
  /\ SubSeq(delivered', 1, Len(delivered)) = delivered
  /\ Len(delivered') - Len(delivered) \in 1..Outcome(delivered).missing
  /\ UNCHANGED reply

Reply ==
  /\ reply = NoAnswer
  /\ reply' = Outcome(delivered)
  /\ UNCHANGED delivered

Next == Deliver \/ Reply

Spec == Init /\ [][Next]_vars

=============================================================================
