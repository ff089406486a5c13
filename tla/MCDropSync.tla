----------------------------- MODULE MCDropSync -----------------------------
(* Values for the constants of DropSync, and what bounds its liveness run.  *)
EXTENDS DropSync, TLC

Symmetry == Permutations(Clients) \cup Permutations(Users) \cup Permutations(Names)

\* The bounds on what users do in the liveness run.  One client, whose name for
\* its files is FirstName, starts first; the other ones use other names.
FirstClient == CHOOSE c \in Clients : TRUE
FirstName   == CHOOSE n \in Names : TRUE
OwnNames ==
  /\ starts = 0 => \A c \in Clients \ {FirstClient} : client'[c] = client[c]
  /\ \A c \in Clients : At(c, "idle") /\ client'[c].pc = "put" =>
       (uploads'[Len(uploads')].name = FirstName <=> c = FirstClient)

\* A client is stopped between two of its commands, when all uploads have begun
\* and one was reported complete.
LateStops ==
  \A c \in Clients : ~At(c, "off") /\ client'[c] = Off =>
    /\ At(c, "idle")
    /\ Len(uploads) = MaxUploads
    /\ finished # {}

LiveSpec == Init /\ [][Next /\ OwnNames /\ LateStops]_vars /\ Fairness
=============================================================================
