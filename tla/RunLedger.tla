------------------------------ MODULE RunLedger ------------------------------
(***************************************************************************)
(* What a sequence of pipeline runs promises about one listing, whatever   *)
(* happens inside a run and wherever it stops (docs/guide/run-semantics.md *)
(* R1, R18, R20): a ledger of what the sink holds, which records are       *)
(* marked processed, which were given up, and how far the saved cursor is. *)
(* It says nothing of pages, tasks, budgets or phases; Pipeline refines it.*)
(***************************************************************************)
EXTENDS Naturals, Sequences

CONSTANTS
  Listing,      \* the ids of the listing's entries, oldest first
  Irrelevant,   \* the ids the relevance filter rejects
  Blank         \* the id of an entry that has none and cannot be tracked

Records == {Listing[i] : i \in DOMAIN Listing}

VARIABLES
  delivered,    \* ids whose entities the sink holds durably
  processed,    \* ids marked processed
  givenUp,      \* ids whose counted failures quarantine them
  cursor        \* how many entries the saved cursor skips

ledgerVars == <<delivered, processed, givenUp, cursor>>

LedgerInit ==
  /\ delivered = {}
  /\ processed = {}
  /\ givenUp = {}
  /\ cursor = 0

\* Records reach the sink, and records that are irrelevant or already in the
\* sink are settled.  Nothing is ever taken back.
DeliverAndSettle ==
  /\ delivered \subseteq delivered'
  /\ processed \subseteq processed'
  /\ processed' \ processed \subseteq Irrelevant \union delivered
  /\ givenUp' \subseteq givenUp
  /\ givenUp \ givenUp' \subseteq processed'
  /\ UNCHANGED cursor

\* A record fails once too often.
GiveUp ==
  /\ \E r \in Records : givenUp' = givenUp \union {r}
  /\ UNCHANGED <<delivered, processed, cursor>>

SettledEntry(i) ==
  \/ Listing[i] = Blank
  \/ Listing[i] \in processed \union givenUp

\* The cursor is saved: past settled entries only, or back at an earlier one.
MoveCursor ==
  /\ cursor' \in 0..Len(Listing)
  /\ \A i \in 1..cursor' : SettledEntry(i)
  /\ UNCHANGED <<delivered, processed, givenUp>>

LedgerNext == DeliverAndSettle \/ GiveUp \/ MoveCursor

LedgerSpec == LedgerInit /\ [][LedgerNext]_ledgerVars
=============================================================================
