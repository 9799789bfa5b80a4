-------------------------------- MODULE Store --------------------------------
(***************************************************************************)
(* internal/runstore as a whole: processes open a database file of any     *)
(* earlier schema (Migration), and the table of runs (RunStore) is called  *)
(* once it has been opened.                                                *)
(***************************************************************************)
EXTENDS RunStore, Migration

storeVars == <<vars, migrationVars>>

StoreInit == Init /\ MigrationInit

\* Open changes the schema and no row.  Of the runs that the file brings along
\* only the duplicates matter here, which Migration keeps in `schema`.
Opening == MigrationNext /\ UNCHANGED vars

Opened == {p \in Openers : opener[p] = "open"}

\* Open returns a Store, and every call is a method of one.
Using ==
  /\ Opened # {}
  /\ Next
  /\ UNCHANGED migrationVars

StoreNext == Opening \/ Using

StoreSpec == StoreInit /\ [][StoreNext]_storeVars
=============================================================================
