--------------------------- MODULE PublicationLog ---------------------------
(***************************************************************************)
(* What publication promises to whoever follows its events: each entry has *)
(* one log without gaps, each change of what is live is one event of it,   *)
(* and the numbers of a locale's publications never repeat.                *)
(***************************************************************************)
EXTENDS Naturals, Sequences, FiniteSets

CONSTANTS Entries, Locales

VARIABLES
  log,  (* events of each entry, in order                                  *)
  live  (* the live publication of an entry in a locale, 0 for none        *)

Keys == Entries \X Locales

Init ==
  /\ log = [e \in Entries |-> <<>>]
  /\ live = [k \in Keys |-> 0]

Published(k) ==
  {i \in DOMAIN log[k[1]] : log[k[1]][i].kind = "published" /\ log[k[1]][i].locale = k[2]}

Emit(k, kind, n) ==
  log' = [log EXCEPT ![k[1]] = Append(@, [kind |-> kind, locale |-> k[2], publication |-> n])]

Publish(k) ==
  LET n == Cardinality(Published(k)) + 1
  IN  /\ live' = [live EXCEPT ![k] = n]
      /\ Emit(k, "published", n)

Unpublish(k) ==
  /\ live[k] # 0
  /\ live' = [live EXCEPT ![k] = 0]
  /\ Emit(k, "unpublished", live[k])

Next == \E k \in Keys : Publish(k) \/ Unpublish(k)

Spec == Init /\ [][Next]_<<log, live>>
=============================================================================
