---------------------------- MODULE AuditLedger ----------------------------
(***************************************************************************)
(* What the compliance audit engine promises its readers, without files,   *)
(* hashes or restarts: an append-only ledger of events, of which a prefix  *)
(* is sealed, and a seal always covers everything recorded so far          *)
(* (proxy/compliance/audit/engine.go, the comments of New and Seal).       *)
(***************************************************************************)
EXTENDS Naturals, Sequences

CONSTANT Entry         \* the events that can be recorded

VARIABLES entries,     \* the recorded events, oldest first
          sealed       \* how many of them, from the first, are sealed

ledgerVars == <<entries, sealed>>

LedgerInit == entries = << >> /\ sealed = 0

RecordEntry(e) == entries' = Append(entries, e) /\ UNCHANGED sealed

SealAll == /\ sealed < Len(entries)
           /\ sealed' = Len(entries)
           /\ UNCHANGED entries

LedgerNext == SealAll \/ \E e \in Entry : RecordEntry(e)

LedgerSpec == LedgerInit /\ [][LedgerNext]_ledgerVars
=============================================================================
