--------------------------- MODULE ContentDelivery --------------------------
(***************************************************************************)
(* The delivery listing.  A page is read in one repeatable-read snapshot;  *)
(* its signed cursor carries the generation, the schema revision and the   *)
(* version of the configuration in that snapshot, and the next page is     *)
(* refused when one of them moved or the locale is no longer enabled.      *)
(***************************************************************************)
EXTENDS ContentAdministration

(* The publications a listing in the locale goes through. *)
Listing(l) == [e \in Entries |-> head[<<e, l>>].current]

ListFirstPage(l) ==
  /\ reader = None
  /\ Enabled(l)
  /\ Spend("listing")
  /\ reader' = [locale |-> l, generation |-> generation[l], schema |-> schema.revision,
                config |-> configVersion, pages |-> {Listing(l)}]
  /\ UNCHANGED <<schema, draftVars, plans, releaseVars, claims, txn, adminVars>>

CursorIsCurrent ==
  /\ Enabled(reader.locale)
  /\ reader.generation = generation[reader.locale]
  /\ reader.schema = schema.revision
  /\ reader.config = configVersion

ListNextPage ==
  /\ reader # None
  /\ CursorIsCurrent
  /\ reader' = [reader EXCEPT !.pages = @ \cup {Listing(reader.locale)}]
  /\ UNCHANGED <<schema, draftVars, plans, releaseVars, claims, txn, adminVars, budget>>

(* The cursor is stale or invalid, and the client starts again; or it is done. *)
EndListing ==
  /\ reader # None
  /\ reader' = None
  /\ UNCHANGED <<schema, draftVars, plans, releaseVars, claims, txn, adminVars, budget>>
=============================================================================
