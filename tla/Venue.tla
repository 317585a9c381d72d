-------------------------------- MODULE Venue --------------------------------
(***************************************************************************)
(* The exchange and the connection to it, as the trading adapters of the   *)
(* platform use them.  A request is transmitted into inbox and may reach   *)
(* the venue at any later time, after the caller has stopped waiting too,  *)
(* or never.  An answer reaches the caller only while its connection is    *)
(* open.                                                                   *)
(***************************************************************************)
EXTENDS OrderLifecycle

CONSTANTS Orders,  \* client order ids
          Tasks    \* the engine's tasks that open a connection

VARIABLES venue,   \* what the venue holds under each client order id
          inbox,   \* requests transmitted and not yet handled
          reply    \* each task's connection for a request about each order

venueVars == <<venue, inbox, reply>>

LiveStatuses == {"ACKNOWLEDGED", "PARTIALLY_FILLED"}
VenueStatuses == LiveStatuses \cup {"ABSENT", "FILLED", "CANCELLED", "EXPIRED"}
VenueOrder == {v \in [status : VenueStatuses, fills : SUBSET Trades] :
                 v.status = "ABSENT" => v.fills = {}}
Absent == [status |-> "ABSENT", fills |-> {}]

Request == [kind : {"PLACE", "CANCEL"}, order : Orders, from : Tasks]

ReplyKinds == {"CLOSED", "PENDING", "ACCEPTED", "REJECTED", "REFUSED",
               "CANCELLED", "GONE"}
Reply == [kind : ReplyKinds, view : VenueOrder]
Closed == [kind |-> "CLOSED", view |-> Absent]
Pending == [kind |-> "PENDING", view |-> Absent]

VenueTypeOK ==
  /\ venue \in [Orders -> VenueOrder]
  /\ inbox \in SUBSET Request
  /\ reply \in [Tasks -> [Orders -> Reply]]

VenueInit ==
  /\ venue = [o \in Orders |-> Absent]
  /\ inbox = {}
  /\ reply = [t \in Tasks |-> [o \in Orders |-> Closed]]

IsLive(v) == v.status \in LiveStatuses

StatusOf(ts) ==
  CASE ts = {}     -> "ACKNOWLEDGED"
    [] ts = Trades -> "FILLED"
    [] OTHER       -> "PARTIALLY_FILLED"

Answer(m, kind, view) ==
  [reply EXCEPT ![m.from][m.order] = IF @.kind = "PENDING"
                                       THEN [kind |-> kind, view |-> view]
                                       ELSE @]

(* A placement reaches the matching engine: accepted (possibly executed at
   once, in part or in full, and for an immediate-or-cancel order the rest
   expired), rejected, or refused unprocessed (rate limit, clock skew).  A
   client order id already in use is rejected. *)
VenueAccepts(m) ==
  /\ m \in inbox /\ m.kind = "PLACE" /\ venue[m.order] = Absent
  /\ \E ts \in SUBSET Trades :
       \E st \in {StatusOf(ts)} \cup (IF ts = Trades THEN {} ELSE {"EXPIRED"}) :
         LET v == [status |-> st, fills |-> ts] IN
         /\ venue' = [venue EXCEPT ![m.order] = v]
         /\ reply' = Answer(m, "ACCEPTED", v)
  /\ inbox' = inbox \ {m}

VenueRejects(m) ==
  /\ m \in inbox /\ m.kind = "PLACE"
  /\ \E k \in {"REJECTED", "REFUSED"} : reply' = Answer(m, k, Absent)
  /\ inbox' = inbox \ {m}
  /\ UNCHANGED venue

VenueCancels(m) ==
  /\ m \in inbox /\ m.kind = "CANCEL"
  /\ \/ /\ IsLive(venue[m.order])
        /\ venue' = [venue EXCEPT ![m.order].status = "CANCELLED"]
        /\ reply' = Answer(m, "CANCELLED", Absent)
     \/ /\ ~IsLive(venue[m.order])
        /\ reply' = Answer(m, "GONE", Absent)
        /\ UNCHANGED venue
     \/ /\ reply' = Answer(m, "REFUSED", Absent)
        /\ UNCHANGED venue
  /\ inbox' = inbox \ {m}

(* The request never arrives. *)
VenueLoses(m) ==
  /\ m \in inbox
  /\ inbox' = inbox \ {m}
  /\ UNCHANGED <<venue, reply>>

VenueTrades(o) ==
  /\ IsLive(venue[o])
  /\ \E t \in Trades \ venue[o].fills :
       LET ts == venue[o].fills \cup {t} IN
       venue' = [venue EXCEPT ![o] = [status |-> StatusOf(ts), fills |-> ts]]
  /\ UNCHANGED <<inbox, reply>>

(* The venue closes the order by itself: time in force, or its owner's hand. *)
VenueExpires(o) ==
  /\ IsLive(venue[o])
  /\ venue' = [venue EXCEPT ![o].status = "EXPIRED"]
  /\ UNCHANGED <<inbox, reply>>

VenueNext ==
  \/ \E m \in inbox : \/ VenueAccepts(m) \/ VenueRejects(m)
                      \/ VenueCancels(m) \/ VenueLoses(m)
  \/ \E o \in Orders : VenueTrades(o) \/ VenueExpires(o)
==============================================================================
