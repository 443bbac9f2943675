--------------------------- MODULE MCJournalStore ---------------------------
(***************************************************************************)
(* Small instances of JournalStore for TLC: one run and the executors that *)
(* compete for it (JournalFencing.cfg), and two runs that share the tables *)
(* of their tenant (JournalTenant.cfg).                                    *)
(***************************************************************************)
EXTENDS JournalStore
=============================================================================
