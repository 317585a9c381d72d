------------------------------- MODULE BookView -------------------------------
(***************************************************************************)
(* What a feed promises of the books it shows: a book is hidden, or shows  *)
(* the venue's book as it was after some update.  From one showing to the  *)
(* next it only moves forward; but once it has been hidden, by a gap or a  *)
(* new connection, it may start again from any earlier book.               *)
(***************************************************************************)
EXTENDS Naturals

CONSTANTS Books, Hidden

VARIABLES
  now,   \* the id of the venue's last update of each book
  view   \* the ids of the updates contained in what is shown

Updates(n) == 1 .. n

BookAt(n) == {Updates(i) : i \in 0 .. n}

Init ==
  /\ now = [b \in Books |-> 0]
  /\ view = [b \in Books |-> Hidden]

MayShow(b, shown) ==
  \/ shown = Hidden
  \/ shown \in BookAt(now'[b]) /\ (view[b] = Hidden \/ view[b] \subseteq shown)

Next ==
  /\ now' \in [Books -> Nat]
  /\ \A b \in Books : now[b] <= now'[b]
  /\ view' = [b \in Books |-> view'[b]]
  /\ \A b \in Books : MayShow(b, view'[b])

Spec == Init /\ [][Next]_<<now, view>>
================================================================================
