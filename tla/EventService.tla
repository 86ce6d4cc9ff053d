---------------------------- MODULE EventService ----------------------------
(***************************************************************************)
(* protobuf/service: the event API over the store.  A client gets events   *)
(* by name and lists them a page at a time, while writers append and the   *)
(* store evicts.  A call reads the store in one step, under the read lock, *)
(* and copies what it found in another.  Readers do not touch the store,   *)
(* so one client stands for any number.                                    *)
(***************************************************************************)
EXTENDS MemoryStore, SequencesExt

CONSTANTS
  Requests,         \* the requests for a page, without their token
  DefaultPageSize, MaxPageSize,   \* the store's bounds
  WithDefault, WithMax,           \* the service's options, 0 when not given
  Separator,        \* the NUL octet of a page token
  Junk              \* page tokens nobody issued

VARIABLE client

vars == <<store, client>>

Idle == [phase |-> "Idle", status |-> "OK", parent |-> <<>>, size |-> 0, found |-> <<>>,
         cut |-> <<>>, token |-> <<>>, listed |-> <<>>, owed |-> {}]

Init == StoreInit /\ client = Idle

-----------------------------------------------------------------------------
(* Page tokens: pagination.go.  The token is its raw form, a sequence; the *)
(* base64 around it is a bijection.                                        *)

encodeCursor(parent, n) == parent \o <<Separator, n>>

\* The last separator splits the token.
Split(token) == SelectLastInSeq(token, LAMBDA x : x = Separator)

\* Mistake: the parent of the token is not looked at.
IsCursorOfAny(token, parent) == Split(token) > 0 /\ Len(token) = Split(token) + 1

IsCursor(token, parent) ==
  /\ Split(token) > 0 /\ Len(token) = Split(token) + 1
  /\ SubSeq(token, 1, Split(token) - 1) = parent

Cursor(token) == token[Len(token)]

-----------------------------------------------------------------------------
(* Requests: list_events.go, event_service.go, status.go.                  *)

defaultOrderBy == "event_time desc"

maxPageSize == IF WithMax > 0 THEN WithMax ELSE MaxPageSize
defaultPageSize ==
  LET size == IF WithDefault > 0 THEN WithDefault ELSE DefaultPageSize
  IN IF size > maxPageSize THEN maxPageSize ELSE size

pageSize(requested) ==
  IF requested = 0 THEN defaultPageSize
  ELSE IF requested > maxPageSize THEN maxPageSize ELSE requested

\* The store bounds the size again.
StoreSize(size) ==
  IF size <= 0 THEN DefaultPageSize ELSE IF size > MaxPageSize THEN MaxPageSize ELSE size

\* The status a listing is refused with, if it is; cancelled says that the call's
\* context is done.
ListStatus(req, cancelled) ==
  CASE ~IsParent(req.parent) -> "InvalidArgument"
    [] IsParent(req.parent) /\ (req.filter # "" \/ req.order \notin {"", defaultOrderBy})
         -> "Unimplemented"
    [] OTHER -> IF req.size < 0 THEN "InvalidArgument"
                ELSE IF cancelled THEN "Canceled"
                ELSE IF req.token # <<>> /\ ~IsCursor(req.token, req.parent)
                THEN "InvalidArgument" ELSE "OK"

Refuse(status) ==
  /\ client' = [client EXCEPT !.status = status]
  /\ UNCHANGED store

\* The numbers of the entries of a listing that the store holds.
Matching(parent) == {At(i).seq : i \in {j \in 0..(count - 1) : Matches(At(j), parent[2])}}

\* ListEvents until the read lock is released.  One entry more than the page is
\* read, to tell whether this page is the last.
List(req, cancelled) ==
  LET status == ListStatus(req, cancelled)
      size   == StoreSize(pageSize(req.size))
      upper  == IF req.token = <<>> THEN MaxUint64 ELSE Cursor(req.token)
      found  == PageOf(req.parent[2], upper, size + 1)
      first  == req.token = <<>>
  IN /\ client.phase = "Idle"
     /\ IF status # "OK" THEN Refuse(status)
        ELSE /\ client' = [phase |-> "Listing", status |-> "OK", parent |-> req.parent,
                           size |-> size, found |-> found,
                           cut |-> [k \in DOMAIN found |-> entries[found[k]]],
                           token |-> req.token,
                           listed |-> IF first THEN <<>> ELSE client.listed,
                           owed |-> IF first THEN Matching(req.parent)
                                    ELSE client.owed \cap
                                         (Matching(req.parent) \cup {e.seq : e \in ToSet(client.listed)})]
             /\ UNCHANGED store

\* A client asks for its next page, for a first one, or with a token it should
\* not have.
ListEvents ==
  \E r \in Requests, token \in {<<>>, client.token} \cup Junk, cancelled \in BOOLEAN :
    List([parent |-> r.parent, filter |-> r.filter, order |-> r.order, size |-> r.size,
          token |-> token], cancelled)

\* Mistake: the copy is of what is in the entry's slot by now.
CloneOfSlot(o) == entries[ring[entries[o].seq % Capacity]]

\* cloneEvent, once the lock is released.
Clone(o) == entries[o]

\* The token names the last entry of this page.
Token == encodeCursor(client.parent, entries[client.found[client.size]].seq)

\* Mistake: a full page is taken to be followed by another.
MoreIfFull == Len(client.found) >= client.size

More == Len(client.found) > client.size

\* The rest of ListEvents: the page is copied, and the token cut.
ReturnPage ==
  /\ client.phase = "Listing"
  /\ LET page == FirstOf(client.found, client.size)
     IN client' = [client EXCEPT !.phase = "Idle", !.found = <<>>, !.cut = <<>>, !.size = 0,
                                 !.token = IF More THEN Token ELSE <<>>,
                                 !.listed = @ \o [k \in DOMAIN page |-> Clone(page[k])]]
  /\ UNCHANGED store

\* GetEvent, in the same two steps.
GetEvent(name, cancelled) ==
  /\ client.phase = "Idle"
  /\ IF ~IsEventName(name) THEN Refuse("InvalidArgument")
     ELSE IF cancelled THEN Refuse("Canceled")
     ELSE IF name \notin DOMAIN byName THEN Refuse("NotFound")
     ELSE /\ client' = [client EXCEPT !.phase = "Getting", !.status = "OK",
                                      !.found = <<byName[name]>>,
                                      !.cut = <<entries[byName[name]]>>]
          /\ UNCHANGED store

ReturnEvent ==
  /\ client.phase = "Getting"
  /\ client' = [client EXCEPT !.phase = "Idle", !.found = <<>>, !.cut = <<>>]
  /\ UNCHANGED store

\* The names asked for: of any event there has been, of no event.
Names == {entries[k].name : k \in 1..Len(entries)}
           \cup {EventName(Wildcard, Identifier(0)), <<"devices">>}

Next ==
  \/ Appends /\ UNCHANGED client
  \/ ListEvents \/ ReturnPage
  \/ \E name \in Names, cancelled \in BOOLEAN : GetEvent(name, cancelled)
  \/ ReturnEvent

Spec == Init /\ [][Next]_vars

-----------------------------------------------------------------------------
(* Properties.                                                             *)

Numbers  == [k \in DOMAIN client.listed |-> client.listed[k].seq]
Continued(c) == c.token # <<>>

\* A listing, over all its pages, shows newest first and nothing twice, whatever is
\* appended and evicted between the pages.  It shows only what was there when it
\* began, and skips only what was evicted before its page was cut: after each page
\* it has everything above the token, and all of it when there is no token
\* (decodeCursor, page).
ListingComplete ==
  /\ \A j, k \in DOMAIN Numbers : j < k => Numbers[j] > Numbers[k]
  /\ ToSet(Numbers) \subseteq client.owed
  /\ client.phase = "Idle" =>
       \A n \in client.owed :
         n \in ToSet(Numbers) \/ (Continued(client) /\ n < Cursor(client.token))

\* A call returns what the store held when it was read: an entry evicted before
\* it is copied is unlinked, not rewritten (entry, cloneEvent).
AnswerIsSnapshot ==
  client.found # <<>> => \A k \in DOMAIN client.found : Clone(client.found[k]) = client.cut[k]

\* A page with a token is full and brings the listing forward, so that a client
\* that keeps paging while a token comes back comes to an end; and there is a
\* token exactly when the store held more (ListEvents).
TokenMeansMore ==
  [][client.phase = "Listing" =>
       LET shown == Len(client'.listed) - Len(client.listed)
           below == {n \in client.owed : \A k \in DOMAIN client'.listed : n < client'.listed[k].seq}
       IN /\ Continued(client') => /\ shown = client.size
                                   /\ Continued(client) => Cursor(client'.token) < Cursor(client.token)
          /\ Continued(client') <=> below # {}
          /\ shown <= MaxPageSize /\ shown <= maxPageSize]_client

-----------------------------------------------------------------------------
(* What a comment of the repository says, and the store does not keep.     *)

\* Events are "newest first, ordered by event_time descending" (store.go).
TimesDescend ==
  \A j, k \in DOMAIN client.listed : j < k => client.listed[j].time >= client.listed[k].time
=============================================================================
