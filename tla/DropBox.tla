------------------------------ MODULE DropBox -------------------------------
(***************************************************************************)
(* What the file synchronisation of hw3 promises, without connections or   *)
(* lists: an upload is stored whole or not at all, and what a client       *)
(* fetches is the whole of a file that was stored for its user under that  *)
(* name.                                                                   *)
(***************************************************************************)
EXTENDS Naturals, Sequences

CONSTANTS Clients, Users, Names,
          Contents  \* what a file may hold, every upload something of its own

VARIABLES account,  \* who each client works for, "nobody" when it is off
          begun,    \* uploads begun: user, name and content of each, in order
          stored,   \* contents stored for a user under a name, in order
          disk      \* the content of each client's file of a name, <<>> if none

vars == <<account, begun, stored, disk>>

Init ==
  /\ account = [c \in Clients |-> "nobody"]
  /\ begun = <<>>
  /\ stored = [u \in Users |-> [n \in Names |-> <<>>]]
  /\ disk = [c \in Clients |-> [n \in Names |-> <<>>]]

LogIn(c) ==
  /\ account[c] = "nobody"
  /\ \E u \in Users : account' = [account EXCEPT ![c] = u]
  /\ UNCHANGED <<begun, stored, disk>>

LogOut(c) ==
  /\ account' = [account EXCEPT ![c] = "nobody"]
  /\ UNCHANGED <<begun, stored, disk>>

\* A client makes a file and begins to upload it.
Begin(c) ==
  /\ account[c] # "nobody"
  /\ \E n \in Names, x \in Contents :
       /\ begun' = Append(begun, [user |-> account[c], name |-> n, content |-> x])
       /\ disk' = [disk EXCEPT ![c][n] = x]
  /\ UNCHANGED <<account, stored>>

Arrived(b) == \E k \in 1..Len(stored[b.user][b.name]) :
                 stored[b.user][b.name][k] = b.content

\* An upload arrives, whole and once.
Store ==
  /\ \E k \in 1..Len(begun) :
       LET b == begun[k]
       IN  /\ ~Arrived(b)
           /\ stored' = [stored EXCEPT ![b.user][b.name] = Append(@, b.content)]
  /\ UNCHANGED <<account, begun, disk>>

\* A client fetches a file that is or was stored for its user.
Fetch(c) ==
  /\ account[c] # "nobody"
  /\ \E n \in Names :
       \E k \in 1..Len(stored[account[c]][n]) :
         disk' = [disk EXCEPT ![c][n] = stored[account[c]][n][k]]
  /\ UNCHANGED <<account, begun, stored>>

\* What remains of it when a name is uploaded again with another size: of a file
\* that is or was stored a client may fetch no more than the beginning, as long
\* as another one of that name.
FetchCut(c) ==
  /\ account[c] # "nobody"
  /\ \E n \in Names :
       LET kept == stored[account[c]][n]
       IN  \E j, k \in 1..Len(kept) :
             /\ Len(kept[j]) <= Len(kept[k])
             /\ disk' = [disk EXCEPT ![c][n] = SubSeq(kept[k], 1, Len(kept[j]))]
  /\ UNCHANGED <<account, begun, stored>>

Next == Store \/ \E c \in Clients : LogIn(c) \/ LogOut(c) \/ Begin(c) \/ Fetch(c)

Spec == Init /\ [][Next]_vars

CutNext == Store \/ \E c \in Clients : LogIn(c) \/ LogOut(c) \/ Begin(c) \/ FetchCut(c)

CutSpec == Init /\ [][CutNext]_vars
=============================================================================
