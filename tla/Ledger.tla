-------------------------------- MODULE Ledger --------------------------------
(***************************************************************************)
(* What the rest of the node expects of the unit store: units become       *)
(* visible one at a time and stay, the head is always a visible unit, and  *)
(* the unit recorded for a number is a visible unit with that number.      *)
(***************************************************************************)
CONSTANTS Units, Genesis, Number, None

VARIABLES
  stored,    \* the visible units
  head,      \* the current unit
  byNumber   \* the unit of every number, or None

ledger == <<stored, head, byNumber>>

LedgerInit ==
  /\ stored = {Genesis}
  /\ head = Genesis
  /\ byNumber = [n \in {Number[u] : u \in Units} |-> IF n = Number[Genesis] THEN Genesis ELSE None]

Store(u) ==
  /\ stored' = stored \union {u}
  /\ UNCHANGED <<head, byNumber>>

Index(u) ==
  /\ u \in stored
  /\ byNumber' = [byNumber EXCEPT ![Number[u]] = u]
  /\ UNCHANGED <<stored, head>>

MoveHead(u) ==
  /\ u \in stored
  /\ head' = u
  /\ UNCHANGED <<stored, byNumber>>

LedgerNext == \E u \in Units : Store(u) \/ Index(u) \/ MoveHead(u)

LedgerSpec == LedgerInit /\ [][LedgerNext]_ledger

=============================================================================
