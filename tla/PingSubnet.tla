----------------------------- MODULE PingSubnet ------------------------------
(***************************************************************************)
(* final_2014F P2: pingsubnet asks one host after the other, one each      *)
(* second, from the SIGALRM handler, while main receives the answers and   *)
(* looks for hosts that did not answer within three seconds.  The handler  *)
(* may run between any two steps of main.  ping.cpp of the practice        *)
(* programs has the same handler and checksum for a single host.           *)
(*                                                                         *)
(* A packet is the words over which the checksum is taken: its type, the   *)
(* checksum and the data.                                                  *)
(***************************************************************************)
EXTENDS Integers, Sequences, SequencesExt

CONSTANTS MAX_PING_IP,  \* 254 in the code
          Word,         \* the values of a word: 2^16 in the code
          Datas         \* what the words of data can be

Hosts   == 1..MAX_PING_IP
TIMEOUT == 3   \* seconds

VARIABLES
  at,        \* where main is: recvfrom, the scan, at the end, or in an undefined state
  i, allFinish,
  nextIP, alarm,
  pingData,  \* send and recv, and the seconds since sendtime
  sendbuf,   \* the last packet sent
  verdict    \* what was printed of each host, or that it was mistaken (history)

vars == <<at, i, allFinish, nextIP, alarm, pingData, sendbuf, verdict>>

PingData == [send |-> FALSE, recv |-> FALSE, age |-> 0]

Init ==
  /\ at = "recv" /\ i = 1 /\ allFinish = TRUE
  /\ nextIP = 1 /\ alarm = TRUE
  /\ pingData = [h \in Hosts |-> PingData]
  /\ sendbuf = <<>>
  /\ verdict = [h \in Hosts |-> "none"]

-----------------------------------------------------------------------------
(* in_cksum                                                                *)

FoldOnce(s)   == (s \div Word) + (s % Word)
FoldTwice(s)  == FoldOnce(s) + (FoldOnce(s) \div Word)
Complement(s) == (Word - 1) - (s % Word)
in_cksum(words) == Complement(FoldTwice(FoldLeft(LAMBDA x, y : x + y, 0, words)))

ICMP_ECHO == 1
Packet(data) == LET zeroed == <<ICMP_ECHO, 0>> \o data
                IN  [zeroed EXCEPT ![2] = in_cksum(zeroed)]

-----------------------------------------------------------------------------
(* The handler                                                             *)

LastIP(ip) == ip >= MAX_PING_IP
sendICMP ==
  /\ alarm /\ at \notin {"done", "undefined"}
  /\ alarm' = ~LastIP(nextIP)
  /\ pingData' = [pingData EXCEPT ![nextIP].send = TRUE, ![nextIP].age = 0]
  /\ \E data \in Datas : sendbuf' = Packet(data)
  /\ nextIP' = nextIP + 1
  /\ UNCHANGED <<at, i, allFinish, verdict>>

-----------------------------------------------------------------------------
(* main_loop                                                               *)

\* What is known of a host by which v was known before.
Known(v, what) ==
  CASE v = "none" -> what
    [] v # "none" /\ what = "mistaken" -> v
    [] v \in {"RTT", "mistaken"} /\ what = "RTT" -> "RTT"
    [] v \in {"no response", "late RTT"} /\ what = "RTT" -> "late RTT"
    [] OTHER -> "contradicted"

\* An echo reply is printed with its sender's address, and the entry of the
\* number found in that address behind the subnet's length is marked.  Every raw
\* socket gets every reply and icmp_id is not looked at: the sender may be host
\* h, late or unasked, or somebody outside the subnet whose address has, or was
\* written over, the digits of h.
recvICMP ==
  /\ at = "recv"
  /\ \E h \in Hosts, what \in {"RTT", "mistaken"} :
       /\ pingData' = [pingData EXCEPT ![h].recv = TRUE]
       /\ verdict' = [verdict EXCEPT ![h] = Known(@, what)]
  /\ at' = "scan" /\ i' = 1 /\ allFinish' = TRUE
  /\ UNCHANGED <<nextIP, alarm, sendbuf>>

\* The number is 255: the mark is written behind the table.
recvBeyond ==
  /\ at = "recv"
  /\ at' = "undefined"
  /\ UNCHANGED <<i, allFinish, nextIP, alarm, pingData, sendbuf, verdict>>

\* recvfrom is interrupted or times out, the packet is not an echo reply, or the
\* number is 0, an entry that is not scanned.
recvNothing ==
  /\ at = "recv"
  /\ at' = "scan" /\ i' = 1 /\ allFinish' = TRUE
  /\ UNCHANGED <<nextIP, alarm, pingData, sendbuf, verdict>>

\* One entry of checkTimedout.
NotWaited(e)  == e.send => e.recv
IsFinished(e) == e.send /\ e.recv
checkTimedout ==
  /\ at = "scan" /\ i <= MAX_PING_IP
  /\ LET e    == pingData[i]
         late == e.send /\ ~e.recv /\ e.age >= TIMEOUT
     IN  /\ allFinish' = (allFinish /\ IsFinished(e))
         /\ pingData' = [pingData EXCEPT ![i].recv = @ \/ late]
         /\ verdict' = IF late THEN [verdict EXCEPT ![i] = Known(@, "no response")] ELSE verdict
  /\ i' = i + 1
  /\ UNCHANGED <<at, nextIP, alarm, sendbuf>>

ScanEnds ==
  /\ at = "scan" /\ i > MAX_PING_IP
  /\ at' = IF allFinish THEN "done" ELSE "recv"
  /\ UNCHANGED <<i, allFinish, nextIP, alarm, pingData, sendbuf, verdict>>

-----------------------------------------------------------------------------
(* The time                                                                *)

Second ==
  /\ pingData' = [h \in Hosts |-> IF pingData[h].send /\ pingData[h].age < TIMEOUT
                                    THEN [pingData[h] EXCEPT !.age = @ + 1] ELSE pingData[h]]
  /\ UNCHANGED <<at, i, allFinish, nextIP, alarm, sendbuf, verdict>>

Next ==
  \/ sendICMP \/ recvICMP \/ recvBeyond \/ recvNothing \/ checkTimedout \/ ScanEnds
  \/ Second

Spec == Init /\ [][Next]_vars

-----------------------------------------------------------------------------
(* Properties                                                              *)

\* Every variable keeps its type.
TypeOK ==
  /\ at \in {"recv", "scan", "done", "undefined"}
  /\ i \in 1..(MAX_PING_IP + 1) /\ allFinish \in BOOLEAN
  /\ nextIP \in 1..(MAX_PING_IP + 1) /\ alarm \in BOOLEAN
  /\ pingData \in [Hosts -> [send : BOOLEAN, recv : BOOLEAN, age : 0..TIMEOUT]]
  /\ verdict \in [Hosts -> {"none", "mistaken", "RTT", "no response", "late RTT", "contradicted"}]

\* The program ends only when every host was asked, and something was printed of
\* it unless another sender's answer was taken for its own, although the next host
\* may be asked in the middle of a scan.  "no response" is printed of a host once
\* at most, and not after its RTT or after it was mistaken; an RTT may still come
\* after it (sendICMP, recvICMP, checkTimedout).
HostsReported ==
  /\ at = "done" => \A h \in Hosts : pingData[h].send /\ verdict[h] # "none"
  /\ \A h \in Hosts : verdict[h] # "contradicted"

\* A host that adds up the words of a packet in one's complement arithmetic, its
\* checksum included, gets all ones: the two folds of in_cksum take in every carry.
OnesSum(words) ==
  FoldLeft(LAMBDA x, y : IF x + y >= Word THEN x + y - (Word - 1) ELSE x + y, 0, words)
PacketsVerify == sendbuf # <<>> => OnesSum(sendbuf) = Word - 1
=============================================================================
