---------------------------------- MODULE Search ----------------------------------
(***************************************************************************)
(* Searching a project's events page by page while more are logged         *)
(* (packages/server/src/events.ts, search; GET /v1/events, the dashboard,  *)
(* the viewer and the MCP tool search_events ask the same way).            *)
(***************************************************************************)
EXTENDS Integers, Sequences, SequencesExt

CONSTANTS
  Ids,      \* event ids, random and compared as strings: natural numbers
  Times,    \* values of occurred_at: natural numbers
  Tenants,
  Limit     \* rows of a page

Anyone == "anyone"   \* a search without a tenant

VARIABLES
  events,   \* the event table in the order of rowid: [id, occurred_at, tenant]
  reader    \* who pages: [phase, tenant, cursor, first: ids there at the start, got]

vars == <<events, reader>>

Idle == [phase |-> "idle", tenant |-> Anyone, cursor |-> -1, first |-> {}, got |-> <<>>]

Init == events = <<>> /\ reader = Idle

(* A caller logs an event, with a time of its own or the current one; a    *)
(* bulk call's events often share it.                                      *)
Log(id, time, tenant) ==
  /\ \A i \in DOMAIN events : events[i].id # id
  /\ events' = Append(events, [id |-> id, occurred_at |-> time, tenant |-> tenant])
  /\ UNCHANGED reader

Matches(row, tenant) == tenant \in {Anyone, row.tenant}

(* The rows of a page come newest first, the later row first among equals. *)
Rows(wanted) ==
  SetToSortSeq(wanted, LAMBDA i, j :
    \/ events[i].occurred_at > events[j].occurred_at
    \/ events[i].occurred_at = events[j].occurred_at /\ i > j)

(* The row a cursor names; an unknown one, or another tenant's, is ignored. *)
CursorRows(tenant, cursor) ==
  {i \in DOMAIN events : events[i].id = cursor /\ Matches(events[i], tenant)}

IsAfter(row, c) ==
  \/ row.occurred_at < c.occurred_at
  \/ row.occurred_at = c.occurred_at /\ row.id < c.id

Found(tenant, cursor) ==
  Rows({i \in DOMAIN events :
          /\ Matches(events[i], tenant)
          /\ \A c \in CursorRows(tenant, cursor) : IsAfter(events[i], events[c])})

IdsOf(rows) == [k \in DOMAIN rows |-> events[rows[k]].id]

NextPage ==
  LET found == Found(reader.tenant, reader.cursor)
      page == IdsOf(SubSeq(found, 1, Min({Limit, Len(found)})))
  IN /\ reader.phase = "paging"
     /\ reader' = [reader EXCEPT
          !.got = @ \o page,
          !.phase = IF Len(found) > Limit THEN "paging" ELSE "done",
          !.cursor = IF Len(found) > Limit THEN Last(page) ELSE @]
     /\ UNCHANGED events

Start(tenant) ==
  /\ reader.phase = "idle"
  /\ reader' = [Idle EXCEPT !.phase = "paging", !.tenant = tenant,
                  !.first = {events[i].id : i \in {j \in DOMAIN events : Matches(events[j], tenant)}}]
  /\ UNCHANGED events

Next ==
  \/ \E id \in Ids, time \in Times, tenant \in Tenants : Log(id, time, tenant)
  \/ \E tenant \in Tenants \cup {Anyone} : Start(tenant)
  \/ NextPage

Spec == Init /\ [][Next]_vars

(* Who pages to the end has got every event that was there at the start,   *)
(* and none twice, whatever is logged meanwhile (events.ts: the cursor is  *)
(* an "event id to continue after").                                       *)
NothingSkipped ==
  reader.phase = "done" => reader.first \subseteq ToSet(reader.got) /\ IsInjective(reader.got)
===================================================================================
