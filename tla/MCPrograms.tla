----------------------------- MODULE MCPrograms ------------------------------
(* Values for the constants of Programs.                                    *)
EXTENDS Programs

\* A third client finds the table full, or two children there.
TwoMachines   == {"c1", "c2"}
ThreeMachines == {"c1", "c2", "c3"}

\* One line of every kind, and a rename of somebody who has a name.
Hello     == <<"hello", "there">>
Greetings == {Hello}
LinesOfAll ==
  {[cmd |-> "who"],
   [cmd |-> "name", name |-> "ann"], [cmd |-> "name", name |-> "bob"],
   [cmd |-> "name", name |-> "x"],
   [cmd |-> "tell", name |-> "ann", text |-> Hello],
   [cmd |-> "yell", text |-> Hello]}

AnnAndBob == [c \in TwoMachines |-> IF c = "c1" THEN "ann" ELSE "bob"]

\* Sums of the words carry once and twice.
PacketDatas == {<<0, 0>>, <<1, 2>>, <<3, 3>>}
=============================================================================
