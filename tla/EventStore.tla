----------------------------- MODULE EventStore -----------------------------
(***************************************************************************)
(* The table webhooks and its store (internal/webhook/store.go): the last  *)
(* deliveries, in the order of their row ids.  A delivery that is recorded *)
(* again keeps its row, and so its place.                                  *)
(***************************************************************************)
EXTENDS Naturals, Sequences

CONSTANTS
  Deliveries,       \* values of X-GitHub-Delivery
  MaxStoredEvents   \* capacity of the table (100 in the code)

ASSUME EventAssumption == MaxStoredEvents \in Nat \ {0}

VARIABLE events

Event == [delivery: Deliveries, at: Nat]

EventsTypeOK == events \in Seq(Event)

Recorded(s) == {s[i].delivery : i \in 1..Len(s)}

\* INSERT ... ON CONFLICT(delivery_id) DO UPDATE.
Upsert(s, e) ==
  IF e.delivery \in Recorded(s)
  THEN [i \in 1..Len(s) |-> IF s[i].delivery = e.delivery THEN e ELSE s[i]]
  ELSE Append(s, e)

\* DELETE of all but the MaxStoredEvents highest row ids.
\* With a bug: the rows are ordered the other way.
PruneNewest(s) ==
  IF Len(s) <= MaxStoredEvents THEN s ELSE SubSeq(s, 1, MaxStoredEvents)
Prune(s) ==
  IF Len(s) <= MaxStoredEvents THEN s
  ELSE SubSeq(s, Len(s) - MaxStoredEvents + 1, Len(s))

\* Both statements run under the store's mutex.
\* With a bug: the old events are cleaned up before the new one is inserted.
AddedAfterPrune(e) == Upsert(Prune(events), e)
Added(e) == Prune(Upsert(events, e))

\* Errors are ignored: the insertion fails, or the clean-up does.
AddedInPart(e) == {Prune(events), Upsert(events, e)}

Clear == events' = <<>>
=============================================================================
