------------------------------ MODULE Verdicts ------------------------------
(***************************************************************************)
(* What one call of an OpcodeDecoder (internal/decoders/types.go) on the   *)
(* first len bytes of an instruction can report: success with the offset   *)
(* it advanced to, a NeedMoreError, or any other error.  A verdict is also *)
(* the cursor a decoder carries from one operand to the next: every        *)
(* decoder starts behind the opcode word and returns at its first error.   *)
(***************************************************************************)
EXTENDS Naturals

\* setInstruction: Size is the offset behind the last operand.
Ok(size) ==
  [kind |-> "ok", size |-> size, missing |-> 0, context |-> ""]

\* NeedMoreError: how many bytes the next operand lacks, and which one it is.
More(missing, what) ==
  [kind |-> "more", size |-> 0, missing |-> missing, context |-> what]

\* A plain fmt.Errorf error: no further byte can help.
Error(reason) ==
  [kind |-> "error", size |-> 0, missing |-> 0, context |-> reason]

\* Every decoder begins with the offset behind the opcode word.
Start == Ok(2)

\* Mutation: the total length is reported instead of what is missing of it.
FetchReportsTotal(cursor, len, bytes, what) ==
  CASE cursor.kind # "ok"                                  -> cursor
    [] cursor.kind = "ok" /\ len >= cursor.size + bytes    -> Ok(cursor.size + bytes)
    [] cursor.kind = "ok" /\ ~(len >= cursor.size + bytes) -> More(cursor.size + bytes, what)

\* Mutation: what is missing is rounded up to whole words.
FetchCountsWords(cursor, len, bytes, what) ==
  CASE cursor.kind # "ok"                                  -> cursor
    [] cursor.kind = "ok" /\ len >= cursor.size + bytes    -> Ok(cursor.size + bytes)
    [] cursor.kind = "ok" /\ ~(len >= cursor.size + bytes) ->
         More(2 * (((cursor.size + bytes) - len + 1) \div 2), what)

\* Mutation: the last byte of the operand is not enough.
FetchWantsOneMore(cursor, len, bytes, what) ==
  CASE cursor.kind # "ok"                                 -> cursor
    [] cursor.kind = "ok" /\ len > cursor.size + bytes    -> Ok(cursor.size + bytes)
    [] cursor.kind = "ok" /\ ~(len > cursor.size + bytes) ->
         More((cursor.size + bytes) - len, what)

\* requireLength(data, offset + bytes, context) followed by the advance of
\* the offset; nothing happens after an earlier error.
Fetch(cursor, len, bytes, what) ==
  CASE cursor.kind # "ok"                                  -> cursor
    [] cursor.kind = "ok" /\ len >= cursor.size + bytes    -> Ok(cursor.size + bytes)
    [] cursor.kind = "ok" /\ ~(len >= cursor.size + bytes) ->
         More((cursor.size + bytes) - len, what)

\* An error return that needs no byte.
Abort(cursor, reason) ==
  IF cursor.kind = "ok" THEN Error(reason) ELSE cursor

-----------------------------------------------------------------------------
(* The contract between the decoders and decodeInstruction's retry loop.   *)

\* v is a possible verdict on len bytes of an instruction of at most limit
\* bytes: success within the bytes, a request for at least one more, or an
\* error.
Bounded(v, len, limit) ==
  \/ \E size \in 2..len : size <= limit /\ v = Ok(size)
  \/ \E missing \in 1..(limit - len) : v = More(missing, v.context)
  \/ v = Error(v.context)

\* w may be the verdict on m bytes when v is the one on the first len of
\* them: a final verdict stands; short of the bytes asked for, only the count
\* changes; and with exactly those bytes a success ends at the last of them.
Continues(v, len, w, m) ==
  /\ v.kind # "more" => w = v
  /\ v.kind = "more" /\ m < len + v.missing =>
       w = More(v.missing - (m - len), v.context)
  /\ v.kind = "more" /\ m = len + v.missing /\ w.kind = "ok" => w.size = m

=============================================================================
