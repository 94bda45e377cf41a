----------------------------- MODULE AccountBook -----------------------------
(***************************************************************************)
(* What ledger.json promises: a line is opened before money is spent,      *)
(* settled at most once, and never changed or removed afterwards.  A line  *)
(* that stays open, or is settled in part, is the trace of a session that  *)
(* died.                                                                   *)
(***************************************************************************)
EXTENDS Naturals, Sequences

VARIABLE book  \* the lines, each "open", "partial" or "final"

BookInit == book = <<>>

OpenLine == book' = Append(book, "open")

SettleLine ==
  \E i \in DOMAIN book, s \in {"partial", "final"} :
    /\ book[i] = "open"
    /\ book' = [book EXCEPT ![i] = s]

BookNext == OpenLine \/ SettleLine

BookSpec == BookInit /\ [][BookNext]_book
=============================================================================
